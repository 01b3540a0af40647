---------------------------- MODULE HttpFetcher ----------------------------
(***************************************************************************)
(* ujin/fetch/http.py: one shared session and a semaphore per host.  A get *)
(* opens the session if need be, takes the host's semaphore and holds it   *)
(* until its answer.  The timeout covers the request, not the wait for the *)
(* semaphore.  _host_sem never awaits, so looking a semaphore up and       *)
(* creating it is one step.                                                *)
(***************************************************************************)
EXTENDS Integers, FiniteSets, SequencesExt

CONSTANTS Getters, Hosts, PerHost, NoHost

ASSUME HttpAssumption == IsFiniteSet(Getters) /\ PerHost \in Nat \ {0} /\ NoHost \notin Hosts

VARIABLES
  session,   \* whether the shared session is open
  sem,       \* _host_locks: free slots of each host's semaphore, NoSem before its first use
  queue,     \* the getters waiting at each semaphore, in order
  get        \* per getter: the host it is at, and "idle", "waiting" or "sent"

httpVars == <<session, sem, queue, get>>
NoSem == -1
Sent(h) == {g \in Getters : get[g] = [at |-> h, pc |-> "sent"]}

HttpTypeOK ==
  /\ session \in BOOLEAN
  /\ sem \in [Hosts -> NoSem..PerHost]
  /\ queue \in [Hosts -> Seq(Getters)]
  /\ get \in [Getters -> [at : Hosts \cup {NoHost}, pc : {"idle", "waiting", "sent"}]]

HttpInit ==
  /\ session = FALSE
  /\ sem = [h \in Hosts |-> NoSem] /\ queue = [h \in Hosts |-> <<>>]
  /\ get = [g \in Getters |-> [at |-> NoHost, pc |-> "idle"]]

\* MUTANT: each get makes its host a semaphore of its own
HostSemFresh(h) == PerHost

HostSem(h) == IF sem[h] = NoSem THEN PerHost ELSE sem[h]

\* a free slot goes to the caller at once, unless others wait already
Get(g, h) ==
  /\ get[g].pc = "idle"
  /\ session' = TRUE
  /\ \/ /\ HostSem(h) > 0 /\ queue[h] = <<>>
        /\ sem' = [sem EXCEPT ![h] = HostSem(h) - 1]
        /\ get' = [get EXCEPT ![g] = [at |-> h, pc |-> "sent"]]
        /\ UNCHANGED queue
     \/ /\ HostSem(h) = 0 \/ queue[h] # <<>>
        /\ queue' = [queue EXCEPT ![h] = Append(@, g)]
        /\ get' = [get EXCEPT ![g] = [at |-> h, pc |-> "waiting"]]
        /\ sem' = [sem EXCEPT ![h] = HostSem(h)]

\* the first in line takes a free slot; it fails when the session was closed meanwhile
Woken(h) ==
  /\ queue[h] # <<>> /\ sem[h] > 0
  /\ IF session
     THEN /\ sem' = [sem EXCEPT ![h] = @ - 1]
          /\ get' = [get EXCEPT ![Head(queue[h])].pc = "sent"]
     ELSE /\ get' = [get EXCEPT ![Head(queue[h])] = [at |-> NoHost, pc |-> "idle"]]
          /\ UNCHANGED sem
  /\ queue' = [queue EXCEPT ![h] = Tail(@)]
  /\ UNCHANGED session

\* an answer (200, 304, an error status), an exception or the timeout
Answered(g) ==
  /\ get[g].pc = "sent"
  /\ sem' = [sem EXCEPT ![get[g].at] = @ + 1]
  /\ get' = [get EXCEPT ![g] = [at |-> NoHost, pc |-> "idle"]]
  /\ UNCHANGED <<session, queue>>

\* close ends what is in flight with an exception; waiters stay in line
CloseSession ==
  /\ session /\ session' = FALSE
  /\ sem' = [h \in Hosts |-> sem[h] + Cardinality(Sent(h))]
  /\ get' = [g \in Getters |-> IF get[g].pc = "sent" THEN [at |-> NoHost, pc |-> "idle"] ELSE get[g]]
  /\ UNCHANGED queue

HttpNext ==
  \/ \E g \in Getters : Answered(g) \/ \E h \in Hosts : Get(g, h)
  \/ \E h \in Hosts : Woken(h)
  \/ CloseSession

\* the timeout ends every request; the loop runs woken waiters
HttpFairness ==
  /\ \A g \in Getters : WF_httpVars(Answered(g))
  /\ \A h \in Hosts : WF_httpVars(Woken(h))

-----------------------------------------------------------------------------
(* Properties *)

\* However gets, answers and closes of the session interleave, one fetcher never has
\* more requests under way to a host than its semaphore has slots, and a slot is never
\* lost: every slot is free or belongs to a request under way.
SlotsAddUp ==
  \A h \in Hosts :
    sem[h] # NoSem => sem[h] >= 0 /\ sem[h] + Cardinality(Sent(h)) = PerHost
=============================================================================
