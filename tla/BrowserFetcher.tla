--------------------------- MODULE BrowserFetcher ---------------------------
(***************************************************************************)
(* ujin/fetch/browser.py: concurrent renders through one BrowserFetcher,   *)
(* from the lazy start of its backend to the close of their page, with the *)
(* click-until-exhausted loop of load_more and scroll_to_bottom.           *)
(*                                                                         *)
(*   "idle" -> "starting" -> "page" -> "goto" -> "step" <-> "loop" <->     *)
(*   "settle" -> "closing" -> "idle"                                       *)
(*                                                                         *)
(* Playwright gives every render a context of its own; Selenium has one    *)
(* driver, hence one page for all.  A page shows a URL and a number of     *)
(* results, of which a click or scroll requests more.  A close of the      *)
(* fetcher takes the pages of the renders under way from them: these are   *)
(* cut off, every page operation of theirs fails from then on.             *)
(***************************************************************************)
EXTENDS Integers, Sequences, FiniteSets

CONSTANTS
  Renderers,     \* the callers of render
  Urls, Blank,
  Starts,      \* the URLs renders are asked for; the others only recipes go to
  Endless,     \* the URLs whose button never goes away
  Recipes,     \* the recipes callers use: sequences of steps
  Engine,      \* "playwright" or "selenium"
  MaxIters,    \* max_clicks or max_scrolls
  MaxItems     \* model bound: results on a page

ASSUME BrowserAssumption ==
  /\ Blank \notin Urls /\ Endless \subseteq Urls /\ Starts \subseteq Urls
  /\ Engine \in {"playwright", "selenium"}
  /\ MaxIters \in Nat /\ MaxItems \in Nat \ {0}
  /\ \A q \in Recipes : \A i \in 1..Len(q) : q[i].action = "goto" => q[i].url \in Urls
  /\ \A q \in Recipes : Len(q) \in Nat

VARIABLES
  backend,     \* "none", "starting", "ready" or "broken": _backend and what came of its start
  open,        \* the renders whose page is open
  page,        \* what each page shows
  render       \* the state of each render

browserVars == <<backend, open, page, render>>

Driver == "driver"
Pages == IF Engine = "selenium" THEN {Driver} ELSE Renderers
PageOf(r) == IF Engine = "selenium" THEN Driver ELSE r
Shown(r) == page[PageOf(r)]
NewTab(url) == [url |-> url, items |-> 1, pending |-> FALSE]

\* html is the URL whose document was snapshot; cut: its browser was closed under it
Idle == [pc |-> "idle", url |-> Blank, recipe |-> <<>>, at |-> 1, iters |-> 0, prev |-> 0,
         html |-> Blank, cut |-> FALSE]
Cut(r) == render[r].cut
InFlight == {r \in Renderers : render[r].pc # "idle"}
HasPage == {r \in Renderers : render[r].pc \in {"goto", "step", "loop", "settle", "closing"}}

BrowserTypeOK ==
  /\ backend \in {"none", "starting", "ready", "broken"}
  /\ open \subseteq Renderers
  /\ page \in [Pages -> [url : Urls \cup {Blank}, items : 0..MaxItems, pending : BOOLEAN]]
  /\ render \in [Renderers ->
       [pc : {"idle", "starting", "page", "goto", "step", "loop", "settle", "closing"},
        url : Urls \cup {Blank}, recipe : Recipes \cup {<<>>}, at : Nat \ {0},
        iters : 0..MaxIters, prev : 0..MaxItems, html : Urls \cup {Blank}, cut : BOOLEAN]]

BrowserInit ==
  /\ backend = "none" /\ open = {}
  /\ page = [p \in Pages |-> NewTab(Blank)]
  /\ render = [r \in Renderers |-> Idle]

IsAt(r, pc) == render[r].pc = pc
Go(r, pc) == render' = [render EXCEPT ![r].pc = pc]

-----------------------------------------------------------------------------
(* _ensure_backend and new_page *)

\* _backend is set before its start is awaited: whoever comes meanwhile is given a
\* backend without a browser and fails, and so does everyone after a start that failed
Render(r, url, recipe) ==
  /\ IsAt(r, "idle")
  /\ backend \in {"none", "ready"}
  /\ backend' = IF backend = "none" THEN "starting" ELSE backend
  /\ render' = [render EXCEPT ![r] = [Idle EXCEPT !.url = url, !.recipe = recipe,
                                        !.pc = IF backend = "none" THEN "starting" ELSE "page"]]
  /\ UNCHANGED <<open, page>>

Started(r) ==
  /\ IsAt(r, "starting") /\ ~Cut(r)
  /\ backend' = "ready"
  /\ Go(r, "page")
  /\ UNCHANGED <<open, page>>

\* closed while starting: the browser it started is in nobody's hands either, and the render goes on with
\* whatever _backend is by now, which only a backend that another render started serves
StartedInVain(r) ==
  /\ IsAt(r, "starting") /\ Cut(r)
  /\ render' = [render EXCEPT ![r] = IF backend = "ready" THEN [@ EXCEPT !.pc = "page", !.cut = FALSE]
                                                          ELSE Idle]
  /\ UNCHANGED <<backend, open, page>>

StartFails(r) ==
  /\ IsAt(r, "starting")
  /\ backend' = IF Cut(r) THEN backend ELSE "broken"
  /\ render' = [render EXCEPT ![r] = Idle]
  /\ UNCHANGED <<open, page>>

\* the page of a driver is the driver, which is not asked: it may have quit
NewPage(r) ==
  /\ IsAt(r, "page") /\ (Cut(r) => Engine = "selenium")
  /\ open' = IF Cut(r) THEN open ELSE open \cup {r}
  /\ page' = IF Engine = "selenium" THEN page ELSE [page EXCEPT ![r] = NewTab(Blank)]
  /\ Go(r, "goto")
  /\ UNCHANGED backend

\* new_page is outside the try of render: a context it opened stays open, in nobody's hands
NewPageFails(r) ==
  /\ IsAt(r, "page") /\ Engine = "playwright"
  /\ render' = [render EXCEPT ![r] = Idle]
  /\ UNCHANGED <<backend, open, page>>

-----------------------------------------------------------------------------
(* The recipe *)

Visit(r, url) == page' = [page EXCEPT ![PageOf(r)] = NewTab(url)]

Goto(r) ==
  /\ IsAt(r, "goto") /\ ~Cut(r)
  /\ Visit(r, render[r].url)
  /\ Go(r, "step")
  /\ UNCHANGED <<backend, open>>

GotoFails(r) ==
  /\ IsAt(r, "goto")
  /\ Go(r, "closing")
  /\ UNCHANGED <<backend, open, page>>

More(r) == IsAt(r, "step") /\ render[r].at <= Len(render[r].recipe)
Step(r) == render[r].recipe[render[r].at]
Done(q) == [q EXCEPT !.pc = "step", !.at = @ + 1, !.iters = 0, !.prev = 0]

\* a step that only acts on the page, or raises: it is logged and the recipe goes on
PlainStep(r) ==
  /\ More(r) /\ (Step(r).action # "load_more" \/ Cut(r))
  /\ render' = [render EXCEPT ![r] = Done(@)]
  /\ UNCHANGED <<backend, open, page>>

GotoStep(r) ==
  /\ More(r) /\ Step(r).action = "goto" /\ ~Cut(r)
  /\ Visit(r, Step(r).url)
  /\ render' = [render EXCEPT ![r] = Done(@)]
  /\ UNCHANGED <<backend, open>>

LoadMore(r) ==
  /\ More(r) /\ Step(r).action = "load_more" /\ ~Cut(r)
  /\ render' = [render EXCEPT ![r].pc = "loop",
                              ![r].prev = IF Step(r).results THEN Shown(r).items ELSE 0]
  /\ UNCHANGED <<backend, open, page>>

HasButton(p) == p.url \in Endless \/ p.items < MaxItems

\* MUTANT: the clicks are not counted
CountedNever(n) == n

Counted(n) == n + 1

\* one more click, its results coming in later; without a results selector the next follows
Click(r) ==
  /\ IsAt(r, "loop") /\ ~Cut(r) /\ render[r].iters < MaxIters /\ HasButton(Shown(r))
  /\ page' = [page EXCEPT ![PageOf(r)].pending = TRUE]
  /\ render' = [render EXCEPT ![r].iters = Counted(@),
                              ![r].pc = IF Step(r).results THEN "settle" ELSE "loop"]
  /\ UNCHANGED <<backend, open>>

\* max_iters, the timeout, a button that is gone, disabled or stale, or an exception
LoopStops(r) ==
  /\ IsAt(r, "loop")
  /\ render' = [render EXCEPT ![r] = Done(@)]
  /\ UNCHANGED <<backend, open, page>>

LoopMustStop(r) ==
  LoopStops(r) /\ (Cut(r) \/ render[r].iters >= MaxIters \/ ~HasButton(Shown(r)))

\* _wait_for_growth: the count passed the last one, or four settle times went by, or it
\* cannot be counted any more
Grew(r) ==
  /\ IsAt(r, "settle") /\ ~Cut(r) /\ Shown(r).items > render[r].prev
  /\ render' = [render EXCEPT ![r].pc = "loop", ![r].prev = Shown(r).items]
  /\ UNCHANGED <<backend, open, page>>

Stable(r) ==
  /\ IsAt(r, "settle") /\ (Cut(r) \/ Shown(r).items <= render[r].prev)
  /\ render' = [render EXCEPT ![r] = Done(@)]
  /\ UNCHANGED <<backend, open, page>>

\* the page shows what was requested of it
Loads(p) ==
  /\ page[p].pending
  /\ page' = [page EXCEPT ![p].pending = FALSE,
                          ![p].items = IF @ < MaxItems THEN @ + 1 ELSE @]
  /\ UNCHANGED <<backend, open, render>>

-----------------------------------------------------------------------------
(* The end of a render *)

\* the snapshot, or an exception instead of it; the page is closed either way
Snapshot(r) ==
  /\ IsAt(r, "step") /\ ~More(r)
  /\ \/ ~Cut(r) /\ render' = [render EXCEPT ![r].pc = "closing", ![r].html = Shown(r).url]
     \/ Go(r, "closing")
  /\ UNCHANGED <<backend, open, page>>

\* MUTANT: only the page of a render that has its snapshot is closed
ClosesOnSuccess(q) == q.html # Blank

Closes(q) == TRUE

ClosePage(r) ==
  /\ IsAt(r, "closing")
  /\ open' = IF Closes(render[r]) THEN open \ {r} ELSE open
  /\ render' = [render EXCEPT ![r] = Idle]
  /\ UNCHANGED <<backend, page>>

\* close: the browser goes with every page of it, whether or not renders are under way (who
\* comes while it closes is given it and fails); the next render starts a new backend
CloseBackend ==
  /\ backend # "none"
  /\ backend' = "none" /\ open' = {}
  /\ page' = [p \in Pages |-> NewTab(Blank)]
  /\ render' = [r \in Renderers |-> IF r \in InFlight THEN [render[r] EXCEPT !.cut = TRUE]
                                                     ELSE render[r]]

Proceed(r) ==
  \/ Started(r) \/ StartedInVain(r) \/ StartFails(r) \/ NewPage(r) \/ NewPageFails(r) \/ Goto(r) \/ GotoFails(r)
  \/ PlainStep(r) \/ GotoStep(r) \/ LoadMore(r) \/ Click(r) \/ LoopMustStop(r)
  \/ Grew(r) \/ Stable(r) \/ Snapshot(r) \/ ClosePage(r)

BrowserNext ==
  \/ \E r \in Renderers :
       Proceed(r) \/ LoopStops(r) \/ \E url \in Starts, recipe \in Recipes : Render(r, url, recipe)
  \/ \E p \in Pages : Loads(p)
  \/ CloseBackend

\* every await of a render returns: page operations have timeouts, waits are bounded.
\* The loop's own timeout is not counted on.
BrowserFairness == \A r \in Renderers : WF_browserVars(Proceed(r))

-----------------------------------------------------------------------------
(* Properties *)

\* Every page that was opened is closed when its render is over, on every path out of
\* it: failed navigations, failed steps, failed snapshots.
PagesAreClosed == open \subseteq HasPage

\* Every render ends, also of a page whose button never goes away and brings nothing.
RendersEnd == \A r \in Renderers : render[r].pc # "idle" ~> render[r].pc = "idle"
=============================================================================
