---------------------------- MODULE SocialChain ----------------------------
(***************************************************************************)
(* ujin/sources/social behind POST /social/x: concurrent requests for the  *)
(* posts of an account walk the free legs, first the mirrors of a shared   *)
(* pool (_nitter.py), then the syndication endpoint, and ask the paid      *)
(* search last (x.py).  A walk goes over the mirrors that were healthy     *)
(* when it began, best score first; every answer changes the pool for      *)
(* those that follow.                                                      *)
(***************************************************************************)
EXTENDS Integers, FiniteSets, Sequences, Orders

CONSTANTS
  Callers,
  PoolSize,      \* the mirrors are 1..PoolSize in the order of the file
  ScoreMax,      \* a fresh score in steps of a failure (1.0 / 0.25)
  BenchAfter     \* _FAILURES_BEFORE_COOLDOWN

ASSUME SocialAssumption == PoolSize \in Nat /\ ScoreMax \in Nat /\ BenchAfter \in Nat \ {0}

Mirrors == 1 .. PoolSize
Syndication == 0
Free == Mirrors \cup {Syndication}

VARIABLES
  askers,    \* who calls /social/x; fixed from the start
  online,    \* what each free source would answer now: "posts", "blank" (items none of which
             \* makes a post) or "down" (an error, no items, too late)
  score, strikes,   \* per mirror: its score and consecutive_failures
  benched,   \* the mirrors whose cooldown_until lies ahead
  walk,      \* per caller: where its request is, the mirrors it has still to try, whether it
             \* allows the paid leg (and SEARCH_API_KEY is set), and whether blank items cut the
             \* mirrors' leg short
  steady     \* history, per caller: the free sources that have offered posts ever since its
             \* request began, of the mirrors those that were not benched then

socialVars == <<askers, online, score, strikes, benched, walk, steady>>
pool == <<score, strikes, benched>>

Resting == [at |-> "idle", rest |-> <<>>, pays |-> FALSE, cut |-> FALSE]

PoolFresh ==
  /\ score' = [m \in Mirrors |-> ScoreMax] /\ strikes' = [m \in Mirrors |-> 0]
  /\ benched' = {}

SocialInit ==
  /\ online = [s \in Free |-> "posts"]
  /\ score = [m \in Mirrors |-> ScoreMax] /\ strikes = [m \in Mirrors |-> 0] /\ benched = {}
  /\ walk = [c \in Callers |-> Resting] /\ steady = [c \in Callers |-> {}]

-----------------------------------------------------------------------------
(* NitterPool *)

Healthy == Mirrors \ benched

\* sorted() is stable: equal scores keep the order of the file
Goes(m, n) == score[m] > score[n] \/ (score[m] = score[n] /\ m < n)
BestFirst(mirrors) == InOrder(mirrors, {p \in mirrors \X mirrors : Goes(p[1], p[2])})

\* a mirror that another walk has put into its cooldown meanwhile stays there
MirrorWorks(m) ==
  /\ score' = [score EXCEPT ![m] = ScoreMax] /\ strikes' = [strikes EXCEPT ![m] = 0]
  /\ UNCHANGED benched

MirrorFails(m) ==
  /\ score' = [score EXCEPT ![m] = IF @ > 0 THEN @ - 1 ELSE 0]
  /\ strikes' = [strikes EXCEPT ![m] = (@ + 1) % BenchAfter]
  /\ benched' = IF strikes[m] + 1 = BenchAfter THEN benched \cup {m} ELSE benched

\* 300 s are over
BenchEnds(m) ==
  /\ m \in benched /\ benched' = benched \ {m}
  /\ UNCHANGED <<askers, online, score, strikes, walk, steady>>

-----------------------------------------------------------------------------
(* x_posts *)

\* c's request goes on with these mirrors, or without any with the next leg
Walking(c, mirrors) ==
  [walk EXCEPT ![c].at = IF mirrors = <<>> THEN "syndication" ELSE "nitter", ![c].rest = mirrors]

Ends(c) ==
  /\ walk' = [walk EXCEPT ![c] = Resting]
  /\ steady' = [steady EXCEPT ![c] = {}]

Ask(c) ==
  /\ c \in askers /\ walk[c].at = "idle"
  /\ \E pays \in BOOLEAN :
       walk' = [Walking(c, BestFirst(Healthy)) EXCEPT ![c].pays = pays]
  /\ steady' = [steady EXCEPT ![c] = {s \in Healthy \cup {Syndication} : online[s] = "posts"}]
  /\ UNCHANGED <<askers, online, pool>>

\* MUTANT: the walk ends at the first mirror that fails
OthersNone(c) == <<>>

\* the mirrors left when one has failed
Others(c) == Tail(walk[c].rest)

\* the mirror asked for now answers; blank items count as a success and end the leg
MirrorAnswers(c) ==
  /\ walk[c].at = "nitter"
  /\ LET m == Head(walk[c].rest)
     IN \/ online[m] = "posts" /\ MirrorWorks(m) /\ Ends(c)
        \/ online[m] = "blank" /\ MirrorWorks(m) /\ walk' = [Walking(c, <<>>) EXCEPT ![c].cut = TRUE] /\ UNCHANGED steady
        \/ online[m] = "down" /\ MirrorFails(m) /\ walk' = Walking(c, Others(c)) /\ UNCHANGED steady
  /\ UNCHANGED <<askers, online>>

\* the route passes no brave_gate, so allow_brave and the key decide
SyndicationAnswers(c) ==
  /\ walk[c].at = "syndication"
  /\ IF online[Syndication] = "posts" \/ ~walk[c].pays THEN Ends(c)
     ELSE walk' = [walk EXCEPT ![c].at = "brave"] /\ UNCHANGED steady
  /\ UNCHANGED <<askers, online, pool>>

\* posts, none, or an error: the request ends
BraveAnswers(c) ==
  /\ walk[c].at = "brave"
  /\ Ends(c)
  /\ UNCHANGED <<askers, online, pool>>

-----------------------------------------------------------------------------
(* The sources, and restarts *)

Answers == {"posts", "blank", "down"}

SourceTurns(s, answer) ==
  /\ online[s] # answer /\ online' = [online EXCEPT ![s] = answer]
  /\ steady' = [c \in Callers |-> steady[c] \ {s}]
  /\ UNCHANGED <<askers, pool, walk>>

\* the pool is read from its file again
SocialRestart ==
  /\ PoolFresh
  /\ walk' = [c \in Callers |-> Resting] /\ steady' = [c \in Callers |-> {}]
  /\ UNCHANGED <<askers, online>>

SocialIdle == \A c \in Callers : walk[c].at = "idle"

SocialNext ==
  \/ \E c \in askers : Ask(c) \/ MirrorAnswers(c) \/ SyndicationAnswers(c) \/ BraveAnswers(c)
  \/ askers # {} /\ \E m \in Mirrors : BenchEnds(m)
  \/ askers # {} /\ \E s \in Free, answer \in Answers : SourceTurns(s, answer)

-----------------------------------------------------------------------------
(* Properties *)

\* "so we don't burn credits when the free legs are healthy": when a request asks the paid
\* search, no free source has offered posts ever since the request began, unless the pool
\* had benched it by then; however other requests and outages changed the pool during the
\* walk.  A mirror whose items make no posts ends the mirrors' leg with others untried.
PaidLegIsLast ==
  \A c \in Callers :
    walk[c].at = "brave" => steady[c] \subseteq (IF walk[c].cut THEN Mirrors ELSE {})
=============================================================================
