# A verification project for ujin

ujin (`src/ujin`) polls web sources adaptively, runs declarative jobs on what
it finds and scrapes pages on demand; `src/orchestrator` is the loop that
develops ujin itself with agents, one git branch per task. This directory holds
TLA+ modules translated from that code, the TLC runs that check them on small
instances, and theorems about them checked by TLAPS.

## 1. Inventory

| part | code | state it keeps | operations | what makes it correct |
|---|---|---|---|---|
| adaptive controllers | `ujin/adapt/{interval,jitter,backoff}.py` | interval, failure count, breaker counter and opening time | `next`, `apply`, `on_failure`, `on_success`, `allow` | delays stay between their caps, the breaker opens at its threshold and closes again |
| poll engine | `ujin/engine.py` | `targets`, semaphore, token bucket, per target `prev`, `next_due`, `last_delay` | `add`, `run`, `sweep`, `poll_once`, `_fire` | a change is delivered once, no target starves, an open circuit is not polled |
| learned limiter | `ujin/adapt/{rate,signals,site_store}.py` | per host AIMD cap, penalty, bucket, waiters; counts on disk | `acquire`, `release`, `observe` | waiters are woken, grants keep their distance, a restart remembers, a host recovers |
| robots | `ujin/robots.py` | policies by origin with TTL | `get`, parse, `is_allowed`, `crawl_delay` | a text is read as its lines say; polls go by such a reading |
| poller service | `ujin/service.py` | the engine, connected websockets | `/targets`, `/sweep`, `/content`, `/ws` | targets are added and removed under a running loop |
| job manager and store | `ujin/jobs/{manager,store}.py` | `jobs`, `engine.targets`, the sqlite tables | create, delete, pause, resume, run now, cron loop, boot | the three copies of a job agree; a deleted job stays deleted |
| cron | `ujin/jobs/cron.py`, `cron_loop` | next fire per handle | `next_after`, the loop's sleep and polls | no fire twice, none lost, no oversleeping |
| jobs service | `ujin/jobs/app.py` | the workflow directory, ingest plans | expand includes, defaults, matrix; register at start | one job per id, a bad entry harms no other |
| pollables | `ujin/poll`, `ujin/diff` | `prev` with tag and regions; seen and harvest stores with files | `poll` | notices are exact, nothing is searched or fetched again needlessly |
| pipeline | `ujin/jobs/{pipeline,transforms,sinks}.py` | dedupe memory, webhook spool, csv columns | `__call__`, `emit`, replay | a new item goes out once, an outage loses nothing |
| scrape service | `ujin/scrape/service.py`, `ujin/cache`, `ujin/adapt/strategy.py` | LRU cache, disk copy, host cooldown, learned order | scrape, conditional fetch, backend chain, restart | a 304 serves no other html's content, no leg of a strategy is skipped |
| social chain | `ujin/sources/social`, `routes_social.py` | pool of mirrors with scores, strikes, cooldowns | `x_posts` over mirrors, syndication, paid search | the paid leg is asked last |
| combined batches | `ujin/scrape/service.py`, `ujin/extract/links.py`, `ujin/trends` | corroboration ring | `scrape_urls`, `_scrape_combined`, scoring | the merge is exact, fetches are bounded, scores are earned |
| fetch backends | `ujin/fetch/{http,browser}.py` | per-host semaphores; browser, pages | `get`, `render`, `close` | slots and pages are given back, renders end |
| orchestrator | `orchestrator/{cycle,state}.py` | `cycle.json`, a `status.json` per focus, `budget.json`, `cov_floor.txt`, KILL | one `tick` per call, by phase | only gated, reviewed work is merged and released; caps; a tick may die anywhere |
| orchestrator git layer | `orchestrator/{merge,worktree,gates}.py` | agent branches, integration and base branch | merge, re-gate, reset, release, quarantine | integration stays green, no merge is lost |
| extractors, other sources, registry, proxies, front ends | `ujin/extract`, `ujin/sources`, `ujin/cli.py`, ... | none, or a map | parse one page, forward a call | mostly pure text processing |

**How they interact.** The engine calls a pollable, then `on_change`; the job
manager supplies `on_change` (it records a run and a result and calls the
pipeline) and drives cron jobs and run-now requests through `engine.poll_once`,
so they share the loop's semaphore and token bucket. Targets with
`adaptive=True` pass the robots check and the learned limiter of their host on
the way. REST handlers run in threads of FastAPI's pool and share
`manager.jobs`, `engine.targets` and the database with the event loop. Scrapes
share cache, cooldown and strategy statistics; fetchers share semaphores and one
browser. The orchestrator shares nothing with the rest: a tick reads files,
calls agents and git, and writes files.

**What is hard in it.** Coroutines that read shared state before an `await` and
write it after (`poll_once`, `cron_loop`, the robots cache, a conditional
scrape, a sweep, the spool's replay); handlers in threads whose statements
interleave; three copies of every job and a restart that rebuilds two of them
from the third; memory with a copy on disk that is written later; delays
computed by several controllers; a tick that may be cut off between any two
writes and is then repeated; budgets read before the cost is known.
`PROJECT.json` lists each with its line under `hazards`.

## 2. Modules

| module | models | variables and actions |
|---|---|---|
| `Adapt` | `adapt/interval.py`, `jitter.py`, `backoff.py` | operators on records, no variables |
| `PollEngine` (extends `Adapt`) | `engine.py`, `TokenBucket`, `/targets` and `/sweep` of `service.py`, `run_now`'s poll | `st[o]` is the `Target`; each `poll_once` call is a task `<<driver, object>>` whose `pc` names the await it stands at; `loop`, `wake` are `run()`; `tokens` the bucket |
| `ChangeFeed` | what the engine promises the owner of `on_change` (abstract specification) | `fired`, `bell`; one action `Deliver` |
| `HostLimiter` | the opt-in path of `poll_once`: robots check, gate, feedback (`rate.py`, `signals.py`, `site_store.py`, AIMD) for the targets of one host | `gov` is `_HostGov`, `rec` the store's count, `robots` the cache entry, a reading of one of the host's `Texts`; `pc[t]` the await of a poll |
| `Robots` | `robots.py`: parser and matching | operators; `AgreesOn` compares what the parser keeps with what the lines mean, stated without reading them in order (`MayFetch`, `DelayOf`) |
| `JobManager` | `jobs/manager.py`, `jobs/store.py`, `lifespan` of `jobs/app.py` | `jobs`, `targets`, `handle` in memory, `rows`, `history`, `files` on disk; each request thread has a place `at` in its handler |
| `Cron` | `jobs/cron.py` | operators: fields, either-day rule, local time with a saving hour, `NextAfter` |
| `CronLoop` (extends `Cron`) | `cron_loop`, and create, pause, resume as it sees them | `left[j]` ticks to the next fire, `due` the snapshot, `wake` the sleep |
| `JobFiles` | workflow files and ingest plans of `jobs/app.py` | operators: `Plan`, `Workflow`; `Alone` is what an entry loads by itself |
| `PagePollable` | `poll/{http,rss,site,api,graphql}.py`, `diff` | `page`, what the poll in flight has read, `held` (`prev`), the last `notice` |
| `Marketplace`, `Harvest` | `poll/marketplace.py`, `poll/amazon.py` | seen and harvest stores, each with its file |
| `Transforms` | `jobs/transforms.py`, `Pipeline.__call__`'s stages | operators from an event to a sequence of events |
| `JobPipeline` (extends `Transforms`) | `jobs/pipeline.py`, `jobs/sinks.py` | per job the events left, the webhook's place; the spool on disk |
| `JobFlow` | the composition of `JobFiles`, the pollables and `JobPipeline`, as `register` and the registry wire them | a job's poll feeds its pipeline; `Crash` hits all of them |
| `ScrapeService` | `scrape/service.py`, `cache`, `strategy.py`, `altpath.py` | `cache`, `disk`, `failures`, `cooldown`, `stat`; `req[r]` is a request with the leg it awaits |
| `SocialChain` | `sources/social/{_nitter,x,_syndication,twitter}.py` behind `/social/x` | `score`, `strikes`, `benched` are the pool; `walk[c]` a request with the mirrors it has still to try |
| `ScrapeApp` | `scrape/app.py`: `ScrapeService` and `SocialChain` in one process | a step of either; `Stop` and `Crash` hit both |
| `Folding` | a loop over a list that updates one value, for `Robots`, `Transforms`, `JobFiles`, `Marketplace` and `Headlines` | |
| `Orders` | operators that put a finite set into a sequence by a strict order, for `ScrapeService` and `SocialChain` | |
| `Headlines`, `ScrapeBatch` | `extract/links.py`, `trends`, `scrape_urls` and `_scrape_combined` | `ring`; per slot of the batch what has arrived |
| `HttpFetcher`, `BrowserFetcher`, `FetchBackends` | `fetch/http.py`, `fetch/browser.py`; the two together | `sem`, `get[g]`, waiting lines; `render[r]`, `page`, `open`, `backend` |
| `Orchestrator` | `orchestrator/cycle.py`, `state.py`, `merge.py`, `worktree.py` | `cycle`, `focus`, `floor`, `budget` are the files, `branch`, `intg`, `base` the branches; `at` and `tick` are the running tick's place and locals |
| `MC...` | instances for TLC | |
| `...Proofs` | theorems: of `PollEngine` with `Adapt`, `HostLimiter` with `Robots`, `CronLoop`, `JobManager`, `ScrapeApp` with `FetchBackends`, `Orchestrator`, and in `PartProofs` of the pollables, the sinks, the job files, their composition `JobFlow`, and the batch; `FoldProofs` has induction on numbers and what a loop keeps | |

**Time.** Deadlines are kept as the ticks left, so states are finitely many
while time never ends. Failures in a row are counted up to `FailureBound`, one above
the first that overflows. A delay is a whole number of ticks; jitter draws any
value of its range. In `HostLimiter` a token is divided into units that every
interval divides. `CronLoop`'s clock goes round a small calendar of two months
of two days of two minutes, with a day of the week that is out of step with it.

**Steps.** In all modules of coroutines a step is the stretch between two
awaits, which asyncio never interrupts. In `JobManager` a step is a stretch of a
handler's statements that touches shared state once. In `Orchestrator` it is
what a tick does up to its next write that survives the process.

**Data.** A page is a function from selectors to contents (`PagePollable`), a
html with the data its scripts show (`ScrapeService`), a sequence of anchors (`Headlines`), or what a
growth loop can see of it (`BrowserFetcher`). Items are records of the fields
the stages look at; a headline is the sequence of its words; a robots.txt is a
sequence of lines, a pattern a sequence of path parts.

**Generations** (`JobManager`). A handle is `<<id, generation>>`: a boot builds
generation 1 from the stored row and generation 2 from the workflow file of the
same id, so that a target of a replaced handle can be told from the current one.

**Heads** (`Orchestrator`). The integration branch is the set of merges in its
HEAD and whether the gate has passed on exactly that HEAD (`green`); a merge that
changes HEAD makes it not green until the gate has run. A fresh cut of the base
branch counts as green. `undone` has the merges that a reset to `HEAD~1` took
back. Whether `import ujin` works in a tree is a function of the works in it
(`Clashes`), so that one that fails fails again; whether tests pass is free.

**Worktrees.** An agent's worktree and its branch are one value. In the code the
gate runs on the working tree (`cycle.py:202`) and the merge takes the branch:
they differ in files git ignores, and when the automatic commit was refused
(`agents.py:268` does not look). `ApprovedWorkWasGated` says nothing of these.

**History variables.** `gap`, `pace` (`HostLimiter`), `searched`, `torn`
(`Harvest`), `lost`, `enriched` (`Marketplace`), `reported`, `notice`
(`PagePollable`), `steady` (`SocialChain`), `owed`, `settled` (`JobPipeline`), `passed`, `known`
(`CronLoop`), `fired`, `bell` (`PollEngine`), a request's `torn` and an entry's `of` (`ScrapeService`) record what a property compares
with; no guard reads them.

## 3. Runs

| run | shows | bounds and why they are enough |
|---|---|---|
| `engine_loop` | the loop alone implements `ChangeFeed`, keeps delays capped, notices recovery unless a backoff overflows | one target (targets interact through semaphore and bucket only, which `engine_shared` has two for), two versions, intervals 1..4, backoff cap 5 above the interval's, a Retry-After of 0 and one above the cap, threshold 3; the power overflows at the sixth failure in a row, with failures counted up to six, so the loop's death is in the run |
| `engine_shared` | loop, sweep and direct polls together: consistent breakers, no starvation unless a backoff overflows | two targets with a key each, so that the loop gathers both and each is the other's busy neighbour; one slot and one token, the smallest that make polls wait; delays of 0 and 1, and a power that overflows at the second failure, again with the loop's death in the run. That `add` replaces a target under its polls is left to the proof of `BreakerConsistent`, whose keys are any |
| `limiter` | nobody is stranded at the gate, paced grants keep their distance, a restart remembers, the host recovers; robots.txt of up to four lines of nine kinds are read as written, and polls go by such a reading | two targets and a cap of three (halved to one it makes them wait, and 1, 2, 3 are all reached), intervals up to 4, two policies, one with a delay and one without, failed robots fetches, crashes |
| `jobs_serial` | one request at a time against polls, edits of the workflow directory while the service is down, and stops anywhere: engine, memory and rows agree, but for the target that a disabled file or one of another mode leaves behind; what is deleted stays deleted | one API job of every mode, enabled or not; one workflow file that is absent, adaptive and enabled, adaptive and disabled, or a cron job; one poll in flight |
| `cron` | no fire is polled twice, every armed one is polled (a minute that a poll outlasts is never armed: `next_fire` looks from the poll's end), no oversleeping | two jobs, an either-day expression with a step and one that can never fire; polls of up to two ticks, a minute being two, so that a poll outlasts a minute; pause, resume (in its two steps) and re-creation at any time |
| `cron_clock` | (violation) the monotonic clock is matched as a time of day | one job, a boot three minutes into the calendar |
| `jobflow` | plans load as written, nested values merged; notices are exact, also of a feed that is reordered or cut; harvested terms are not drawn again and details not fetched again by a later sweep; new items go out once; nothing is lost; the backlog flushes | two jobs that share a spool of two files with one retry; seven chains of stages over lists of up to three items with missing and odd fields; each kind of source by itself with two polls, three edits and crashes, a feed being a list of three places with two links, repetitions and entries without one; plan files of up to two entries of each sort, with nested sources in entry and defaults, over four fragments, one of them cyclic |
| `scrape` | a 304 never serves another html's content; a scrape fails only after the whole chain its strategy leaves it; the paid search is asked only when no healthy free source has offered posts all along | two requests (a race needs two) that are interchangeable, three pages: a shell with two states of its data and another html with the links of the first, each of which may come back, a cache of one entry so that the second mode evicts, cooldown exponent 0 (no cooldown is longer than another here), one learned outcome per backend, flush, stop, crash and restart anywhere; five configurations of override, feed, browser and learning with the modes and pins that matter to them; and, beside a service nobody calls, two walks at once over two mirrors of three scores, benched after two strikes, each source up, blank or down at any time |
| `batch` | the merge of page, feed and articles is exact, the fetches in flight are bounded, a score needs enough hosts | two homepages, feeds of three items with repeated and malformed links, three hosts, a ring of four entries that a batch overflows, a batch with one URL twice, one of width one |
| `fetch` | slots add up, pages are closed, renders end | two gets for one slot with the session closed at any time; two renders, a page that grows for ever, steps that navigate, the browser closed at any time, also under its start and under renders |
| `orch_cycle` | an uninterrupted daemon: `max_concurrent`, green integration, only green work on base unless others commit to it | two foci (a later merge needs an earlier one), two cycles (labels and integration branches change), two retries, KILL, drain and commits to base at any time, three kinds of work, one of them touching the contract, two that do not import together |
| `orch_restart` | crashes between any two writes: what is approved was gated; no contract edit that the block can see is merged; no merge is lost but by the reset after a refused release commit; bounded overshoot; a cycle ends unless its budget is gone or a tree does not import | two foci, one crash anywhere, costs of 0 or 1 against caps of 2, one retry; four works: a good one, a contract edit, one with a rename, one that does not import; the good one and the renamed one do not import together |

`CHECK_DEADLOCK FALSE` is set where the system may stop: the orchestrator's runs
end at `MaxCycle`, and a daemon without budget or with KILL present waits; in
`jobflow` polls and edits are bounded by `MaxPolls` and `MaxEdits`.

The engine of `fetch.cfg` is playwright; selenium differs in what a page and a tab
are (`Pages`, `PageOf`, `NewPage`), and the theorem covers both.

### Fairness

* `PollEngine`: every coroutine is resumed (`WF` per task), sources answer and
  callbacks return, time passes. Waiters of an `asyncio.Semaphore` are served in
  FIFO order, hence `SF` for `AcquireSem`.
* `HostLimiter`: time passes and each poll's coroutine goes on (`WF`). Nothing is
  assumed of the order in which waiters of the condition variable are woken.
* `RecoveryIsNoticed` and `EveryTargetPolled` say "unless a failed poll overflows its
  backoff" (`BackoffHolds`) over the whole run; a source that recovers in time
  satisfies it.
* `JobManager`: requests that began finish, polls end, the two loops go round.
  Nobody has to send a request, and the process need not be started again.
* `CronLoop`: the loop's coroutine runs when it can and its polls end; time passes.
* `JobPipeline`: an event being posted, replayed or appended goes on; the
  server's going up or down is free, and a poll need not come.
* `HttpFetcher`, `BrowserFetcher`: requests end (a total timeout is set),
  waiters are woken in order, renders proceed.
* `Orchestrator` (`FairSpec`): systemd restarts the daemon and `serve` ticks for
  ever (`WF` on the whole of `Daemon`, never on one outcome of an agent or a
  gate); days pass.
* `ScrapeService`, `SocialChain` and `ScrapeBatch` are checked for safety only and state none.

## 4. Proofs

All theorems hold for every value of the constants under the named assumptions
of the modules (types, finiteness, orders between a minimum and a maximum; null
values that are not data); what a theorem assumes besides is in its statement.
Those that say what a file or a config may hold follow the constructors:
`FragmentsAssumption` (there are finitely many fragments, each a YAML list or
mapping), `StartsAssumption` (a plan is such a file; stages are ones a pipeline
can build, with `limit`'s count at least 0 (`transforms.py:331`) and `chunk`'s
size at least 1 (`transforms.py:215`); no two jobs of a start watch a page,
since the page's variables are those of one job), `RobotsAssumption` (lines as
`_parse` splits them), `MarketAssumption` (results pages list products),
`BatchAssumption` (URLs that have a page, links that can be resolved). TLC
evaluates each of them on the runs' constants.

* `PollEngineProofs` begins with lemmas about `Adapt`: what `next`, jitter,
  backoff and breaker return stays within their bounds, and the breaker's state
  agrees with its counter after each call. `TypeOK` is inductive by itself (`TypeCorrect`).
  `SemaphoreIsRespected` adds that the polls in the semaphore are finitely many,
  which cardinalities need. `BreakerConsistent` is inductive next to `TypeOK`:
  each step applies at most one operation to a breaker (`BreakerSteps`), and the
  lemmas of `Adapt` say what each leaves. `DelaysAreCapped` adds the delays that
  polls in `on_change` carry in their locals. The other three theorems assume
  `Callers = {}`, the loop as only driver. `LoopInv` relates, at each await of a
  poll, `prev`, the copy of it the poll has seen, its result and the last
  delivery (history kept only when `Callers = {}`, the one case that uses it);
  `LoopImplementsFeed` is the refinement of `ChangeFeed`. Without the
  assumption the refinement fails (section 5).
* `HostLimiterProofs`: `TypeCorrect` comes with `Live`: a process without
  controllers has nobody at its gate, which every use of `gov`'s fields rests
  on. `NobodyIsStranded` has `GateInv = TypeOK /\ Live /\ WaitersAreWoken`;
  the count of the holders is kept by a lemma on `Cardinality` per kind of step,
  and a release notifies one waiter if there is any (`Notify`). `RestartIsWarm`
  shows of the first step after a crash that it can only be a paced entry when
  the store has a 429 on record, and follows the record through
  `derive_signals` into cap, rate and token. `PacingHolds` has `Spaced`: up to
  the last grant's age saturating, the bucket holds no more than the ticks since
  that grant, less those not yet credited, times what the smallest interval set
  since credits per tick. A refill keeps it although it credits old ticks at the
  new rate (`RefillCredits`), and a whole token then takes an interval
  (`TokenTakesAnInterval`); the divisions are exact on neither side, so both rest
  on bounds of products (`CreditPerTick`). The cap may be any:
  AIMD's limit is a float, but only its whole part is ever looked at, and halving,
  adding one and the clamps commute with rounding down. `ReadsAnyText` says that the parser reads any text as its
  lines mean. Parsing is a loop; after `n` lines (`ReadUpTo`) the group is made up
  of the agents whose directives line `n + 1` could be (`GroupRead`), each agent's
  rules are those of the lines so far that apply to it
  (`RulesRead`), and its delay is that of the last such line (`DelaysRead`). Each
  holds for its own reasons, given all three before the line. `RobotsHold` adds that
  the cache holds a reading of a text the host has served, or the licence to go
  ahead that a failed fetch gives (`PolicyRead`).
* `CronLoopProofs`: `LoopInv` adds to the property that the jobs a sleep was computed
  from are enabled ones with an expression; what pauses, resumes or creates a job
  takes it out of them, since its next fire is another one then. `NoFireTwice`
  assumes a zone without summer time and a search that covers a year (the code's
  covers four, `cron.py:77`). `OnceInv` says of every enabled job that is not
  being resumed that its expression has named a minute since it was armed, never
  names one, or names the one `left` ticks away. What the clock's wrap at the end
  of a year does to the latter is `EveryYear`, which needs whole weeks in a year;
  that an expression without a next fire has none later is `NoFireIsNever`. The
  first assumption cannot be dropped: with `Summer = {0, 1, 6, 7}` and the
  expressions `YearlyToo` in place of those of `cron.cfg`, TLC finds the property
  violated in the repeated hour.
* `JobManagerProofs`: `TypeInv` is inductive (`JobTypes`), and so is that a job
  which is gone stays gone (`DeletedForGood`): ids of API jobs are never handed
  out twice, and only a row or a request under way brings a job back.
  `EngineInStep` and `StoreInStep` are about any number of request threads under
  a condition the code needs, `OneRequestPerJob`: no two requests are at work
  on one job (section 5 shows what happens otherwise). Files may say anything; the
  target that one leaves behind, the case `manager.py:143` forgets, is an
  exception in the property (`LeftBehind`). What is inductive says where each job
  stands (`Stage`): unattended, with engine and row agreeing with memory, or as far
  from that as the statement allows at which the one request at work on it is
  (`Midway`).
* `ScrapeAppProofs`: `SoundInv` says of everything kept with an etag (the cache,
  the copy on disk, a request's held copy) that it is content of the html the etag
  names: what came with it, or a rendering of that html with some data; what was
  rendered of a page that changed between the answer and the rendering is marked
  (`torn`) and nothing is said of it. To keep that through a step, it also says of a
  request that awaits a rendering that it has the present html's etag or is marked
  (`Vouched`). `RevalidationHolds` follows. `ClimbInv` says for each leg which
  ones a request must have asked before it gets there. `PaidInv`: a free source
  that was healthy all along is among those the walk has still to ask, but for
  the mirrors when blank items cut their leg short. The sorted orders
  of backends and mirrors come from `Orders`, of which the proofs need that a
  member stands at exactly one place. The fetch backends: `SlotsHold` has
  `HttpInv`, which adds that a host's line holds exactly the gets that wait for
  it, each once, and that free slots and requests under way make up the limit; a
  waiter that is woken takes over the slot that is freed. `PagesHold` has
  `PageInv`, the types and the ownership of open pages, for every engine; a close
  of the browser empties `open` and cuts the renders under way off.
* `FoldProofs`: the induction the other proofs need. The library states it for
  operators, which the provers cannot be given, but also has it that `<` on the
  naturals is well founded; from that come `LeastOfNat`, `InductionUpTo`,
  `ValuesUpTo` and `RecursionUpTo`, about sets and functions. `FoldKeeps` is the
  rule for loops: what is true before one, and kept by each round, is true after
  it. Its loop body and its claim are constants of the module, and each loop proved
  about is an instance of it (`Reading`, `Loop`, `Keeping`, `Packing`, ...).
* `PartProofs`, the pollables: each by itself, as a specification of its own
  (`HarvestSpec`, `MarketSpec`, `PageSpec(kind)`); in `JobFlow` a step of a
  pollable is such a step and every other one leaves its variables alone.
  `HarvestInv`: pool and used terms are disjoint in memory and in the file.
  `MarketInv`: unless marks were lost, no product surfaced later than its details
  were fetched, and a sweep in flight knows each product whose details are
  younger than the TTL. `PageInv`: the poll in flight compares with what is held,
  and what is held has the regions that were reported last, so an answer is
  compared with exactly that, however many 304s, failures and edits came before.
  `FlowTerms`, `FlowDetails` and `FlowNotices` carry the three to `JobFlow`'s own
  specification, whatever the jobs of the start are; `FlowInv` keeps that the jobs
  are those the files declare, so that a page step is one of the job that has
  the page.
* `PartProofs`, the job files: `PlanLoads` is about every plan over every set of
  fragments, cyclic ones included. That an entry loads beside others as it does by
  itself compares two folds over the same jobs, one from nothing and one from what
  the entries before it have loaded (`ClaimsBeside`, `EntryJoins`): an id that is
  noted in the second and not in the first was asked for by an earlier entry, which
  the premise excludes. Later entries take nothing back (`EntriesLoad`), and a job
  is added only under an id that was not noted (`TakenKeepsApart`), so loaded ids
  differ. What a fragment comes to is an induction on how many includes deep one
  looks: a list, a mapping or a report (`OpenedNodes`). Where nothing is
  included, an entry's own keys win over the defaults at any depth, and what it
  neither has nor replaces is inherited (`EntriesAreWritten`).
  `FlowPlans` follows.
* `PartProofs`, the sinks and the flow: `NothingIsLost` is about `JobFlow`'s
  specification. `SinkInv(E)` is about a set `E` of events: the webhooks' events
  and the spool's bodies are in it; spooled files have different names, none newer
  than the last one given; a webhook at work has the first of its job's events in
  hand, and is done with an event only when that is safe; and what is owed is
  safe or still to be emitted. The work is in the lemmas about the spool as a
  sequence: a file may have been taken by another job's replay meanwhile, and
  eviction takes the oldest ones. A poll delivers some more events, of which `E`
  grows (`SinkGrows`, `Accounted`). That what it delivers is a sequence at all is
  the other half: each stage is a loop, and each leaves a list of events, of lists
  of items, if given one (`StageEvents`, `StageRunKeeps`, `RunMakesEvents`);
  the rows of a sweep are a list of rows (`SweepIsSeq`).
* `PartProofs`, the batch: `BatchInv` says of each URL's slot what its merge
  holds. Merging is a fold over the feed, then over the page; `OfFeed` and
  `OfBoth` say what the links are after so many of them, each URL once and the
  feed's links as the feed has them. Articles are read only of links the feed
  does not have (`OnlyOfPage`), so reading them leaves the merge sound.
  `FlightIsBounded` adds that no more slots are taken than the semaphore has, and
  counts what one slot may have in flight. `ScoresEarned` has `RingInv`: the ring is
  ordered by time and holds nothing older than a window before its last
  headline. What a scoring counts is then hosts of headlines in the ring, alike
  and recent, and all of them were known (`Known`) when it scored, whatever the
  ring has evicted; a score above zero needs `MinHosts` of them.
* `OrchestratorProofs`: `IInv = TypeOK /\ RepoInv /\ HandInv`, for any number of
  crashes. A crash forgets the tick, so `RepoInv` is about files and branches
  only (what a focus in each phase has on its branch; which cycle integration
  belongs to; what is in it). It is not inductive alone: a tick writes what it
  has found out some steps ago, hence `HandInv`, which says for each place of a
  tick what the focus in hand has reached, and that the HEAD a red gate goes
  back to keeps the promises about integration. `ContractsFrozen`,
  `ApprovalAfterGate` and `MergesAreKept` follow. `FloorRatchets` assumes
  `CoverageFloor <= FloorCap` (the defaults, 85 and 90, satisfy it; otherwise
  the first pass lowers the floor to its cap). `OvershootBounded` assumes
  positive caps; its invariant counts the operations a tick may still pay for.
  `Calm` is inductive as long as nothing has crashed: which phase of the cycle each
  place of a tick belongs to (`Places`), that the foci in flight and those a tick
  has admitted are at most `max_concurrent` (`Flight`), and, as long as what is
  merged imports, that all that is in integration but the merge in hand is
  integrated (`MergesAreDone`) and that integration is green but at a gate, where
  the HEAD to go back to is (`GreenInv`). Once it does not import, the cycle stays
  in integrating with an approved focus that is merged (`BlockInv`). `ConcurrencyCapped`, `GreenBetweenTicks` and
  `BaseOnlyGreen` are stated up to the first crash, since the second does not hold
  after one (section 5).

Only model-checked: every liveness property (`EveryTargetPolled`,
`RecoveryIsNoticed`, `HostRecovers`, `EveryFireIsPolled`, `BacklogFlushes`,
`RendersEnd`, `CycleFinishes`), which need fairness and `ENABLED`, out of the
prover's reach; and `NewItemsGoOutOnce`, which is not true of every pipeline: a
`fill` of `id` behind the dedupe stage may give one item the id of another, and
the property looks at no more than three items of an event, as many as the lists
of `jobflow` have. It is a claim about the chains of stages of that run.

## 5. Observations

What the code does that its reader may not expect, met while modelling. The
first group can be seen in the models; only `cron_clock` is kept as a run.

* **Clock of cron jobs** (`cron_clock`). `next_fire(expr, now=engine.clock())`
  reads a monotonic clock as a time of day, though `cron.py:8-9` promises local
  time.
* **Overlapping polls** deliver the same content twice: `prev` is advanced after
  `on_change` was awaited (`engine.py:273`). Add `PROPERTIES FiresOnlyOnChange`
  to `engine_shared.cfg` to see it.
* **Overlapping requests** on one job: a resume that overlaps a delete puts the
  target back into the engine (`manager.py:210`). Set `Threads = {t1, t2}` in
  `jobs_serial.cfg`: `StoreMatchesJobs` and `EngineMatchesJobs` fail.
* **1025 failures in a row** overflow the backoff's float power before its cap
  is applied (`backoff.py:42`); the exception ends the daemon loop, and with it the
  polls of every target. `RecoveryIsNoticed` and `EveryTargetPolled` have it as
  their premise `BackoffHolds`; without it both runs find it.
* **A workflow file disabled while the service is down**, over an enabled row,
  leaves the old target in the engine (`manager.py:143`), which goes on polling for
  a handle that was replaced. `jobs_serial` has such edits; `EngineMatchesJobs`
  excepts exactly that (`LeftBehind`), until a pause, a deletion or a restart over
  the new row ends it.
* **A `once` job** is registered and never polled by itself (`manager.py:149-152`).
* **A crash between a merge and its gate** leaves integration red: the next tick
  takes the merged HEAD as the one to reset to (`merge.py:64-83`). Add
  `IntegrationStaysGreen` to `orch_restart.cfg`. One between the release commit
  and its gate (`merge.py:140` and `142`) publishes a stamp that no gate has seen,
  since files that carry it are not touched again. `OnlyGreenReachesBase` is
  checked and proved without crashes for that.
* **A tree that does not import** makes `verify_import` raise (`worktree.py:47-54`,
  called at `gates.py:61`); nothing catches it, nothing is written, and the
  restarted daemon comes to the same gate again, for ever. `CycleFinishes` has it
  as an exception (`GateBlocked`). It also happens at the gate of a merge whose
  two sides import by themselves; the ungated merge then stays in integration.
* **A contract file that is renamed** as it is edited passes the contract block:
  `git diff --name-only` (`gitutil.py:60`) gives the new name only. Let
  `ContractsTouched` be `w \in ContractWork` in `ContractNeverMerged`, and
  `orch_restart` fails.
* **A release commit that git refuses** (`merge.py:140` does not look) followed by a
  red gate: `reset --hard HEAD~1` then drops the last merge, of a focus recorded as
  integrated whose branch is gone (`cycle.py:282-284` counts on the merge to
  preserve its commits). `IntegratedNotLost` has it as an exception (`undone`).
* **A base branch that has moved** gets a merge commit whose tree no gate has seen
  (`merge.py:152-154`), the exception in `OnlyGreenReachesBase`. A merge into base
  that conflicts is not noticed at all.
* **A cycle over its own budget** never finishes its started foci
  (`cycle.py:167`).
* **An expression that never fires** in an enabled or resumed job ends
  `cron_loop` for all jobs (`manager.py:250`; `pc = "dead"` in `CronLoop`). An
  open circuit makes the loop look again every second; a new job waits for the
  current sleep; resume enables the job before its next fire is set, so the loop
  may poll it at once (the exception in `FiresOnce`).
* **The repeated hour** at the end of summer time: `next_after` may return an
  instant in the past (`cron.py:72-87`; `Cron` has the saving hour, `Summer`).
* **Robots.** Ties between allow and disallow go to the first rule, though
  `robots.py:97` says "tie = allow wins"; comment-only lines end a group; a
  group of one's own without a delay falls back to the delay for everyone.
* **Crawl-delay pacing**: a change of rate credits the time already elapsed at
  the new rate (`rate.py:270`), so two grants may be as near as the smaller of
  the two intervals. `GrantsSpaced` states exactly that much.
* **A 304 for a JS shell.** The etag of a thin answer stays with the links a renderer
  then found (`service.py:1167-1171`, `1236`, `464-475`). While the html stays the same, each
  304 serves those links, whatever the page's data has become; and if the page
  changed between the answer and the rendering and later returns to its first
  html, the 304 serves the content of the other one (`torn`). `RevalidationIsSound`
  claims what is left: drop its last disjunct and `scrape` fails.
* **Learned strategies** narrow the chain exactly as a pin does
  (`service.py:1222-1228`): with a learned `http` a scrape fails without a rendering, with
  a learned `obscura` or `browser` HTTP is never tried, though `service.py:195-197`
  and `1049-1056` say that learning only chooses what is tried first.
  `EscalationComplete` has the chain there is.
* **Scrape.** A 304 does not count as a success for the cooldown
  (`service.py:216-223`), entries loaded from disk start a new TTL
  (`disk.py:143`), a direct override applies to every mode but article.
* **Social chain.** A mirror whose items make no posts counts as a success and
  ends the mirrors' leg with the others untried, though `_nitter.py:103` says an
  empty list means that every healthy mirror failed; the paid search may then be
  asked (`cut` in `SocialChain`). A success does not end a cooldown another walk
  has set (`_nitter.py:66`). The route passes no budget gate.
* **Combined mode.** One place of the batch semaphore opens a page and a feed,
  then up to `top_n` articles, against "never opens more than that many
  in-flight fetches at once" (`service.py:919-921`); `FetchesBounded` states the
  bound there is. In links mode fewer requests may
  run than that bound allows. Feed items bypass the host's link filter; HTML headlines
  enter the ring twice; the feed discovery that the docstring promises
  (`service.py:704-708`) does not exist, a feed is read where an override names one.
* **Pages and products.** `rss.py:3` says that the set of entry URLs is
  fingerprinted, but `rss.py:32-33` hashes the list: a reordered or repeated entry is a
  change with nothing new. `detector.py:12-13` counts a selector that goes from empty to
  non-empty as added; in the code it is changed, as the empty text has a fingerprint
  too. Terms of one sweep that find the same product each fetch its details
  (`marketplace.py:228-243`). A results page without products counts as a change
  (`amazon.py:17-19`); marks cover cache hits, so the TTL slides
  (`marketplace.py:247`); terms of the bank may be searched again
  (`amazon.py:281-283`).
* **Pipeline.** Dedupe marks an id before later stages run, so a stage that
  raises loses the item (`pipeline.py:91-96`); events waiting for a retry are
  lost at a crash; an eviction from the spool is not logged.
* **Plans.** Jobs of the preload file without `id` get a fresh one at each start
  (`app.py:309-318`), so a restart duplicates them, and a preload file that does
  not parse aborts the start; of a plan's matrix entry that fails half-way the first jobs stay.
  An include that is missing or cyclic drops the whole plan (`app.py:485-500`, as
  `docs/INGEST_PLAN.md:158-160` says): "fails just that job" is about what is wrong
  with a job itself, and `PlanLoadsAsWritten` about files whose includes resolve.
* **Browser.** A context whose page cannot be made is not closed
  (`browser.py:446-472`), nor a browser whose start was under way when the fetcher
  was closed (`browser.py:348-359`); selenium renders share one tab.

## 6. Not modelled, and the plan

Not modelled on purpose: text processing (the extractors but for links, the
parsing of result pages, regex and template stages), thin pollables that only
forward, plain sinks that write one line, front ends, the orchestrator's
housekeeping, plugins, the proxy pool, statistics, logging. Within modelled
parts: an `include:` below the top of an entry (as in `sinks: [{include: ...}]`), thread switches inside a comprehension over `engine.targets`, the event
log and the results cursor of the job store, the agents' CLI retries, the
fields of a scrape result no property looks at.

What is left to say:

1. An abstract specification of the scrape cache ("an answer is content the page
   had"), with `ScrapeService` as its refinement.
2. The service's websocket hub, and the window between `add_target` and `_wire`.
