------------------------------ MODULE Harvest ------------------------------
(***************************************************************************)
(* AmazonCategoryPollable and _HarvestStore (ujin/poll/amazon.py): a sweep *)
(* draws some of its search terms from the words learned so far, and the   *)
(* rest from a fixed bank; it learns new words from the titles it finds    *)
(* and writes pool and used set to one JSON file.                          *)
(***************************************************************************)
EXTENDS Integers, FiniteSets, SequencesExt

CONSTANTS
  Words, Bank,       \* words long enough and no stop words; those that are bank terms
  Draw, PerPoll,     \* round(terms_per_poll * harvest_ratio), terms_per_poll
  MaxPool,           \* max_pool
  NoTerms

ASSUME HarvestAssumption ==
  Bank \subseteq Words /\ Draw \in Nat /\ PerPoll \in Nat /\ Draw <= PerPoll /\ MaxPool \in Nat

VARIABLES
  store, storeDisk,   \* [pool, used] in memory and in the file
  searching,          \* the terms of the sweep under way, or NoTerms
  searched,           \* history: how often each word was drawn from the pool, up to 2
  torn                \* history: whether a restart lost draws

harvestVars == <<store, storeDisk, searching, searched, torn>>

HarvestInit ==
  /\ store = [pool |-> {}, used |-> {}] /\ storeDisk = store
  /\ searching = NoTerms
  /\ searched = [w \in Words |-> 0] /\ torn = FALSE

Smaller(n, m) == IF n < m THEN n ELSE m

\* MUTANT: a drawn term is not marked as used
DrawnUnused(terms) == [store EXCEPT !.pool = @ \ terms]

\* draw: the terms leave the pool for the used set
Drawn(terms) == [pool |-> store.pool \ terms, used |-> store.used \cup terms]

\* _sample_terms
HarvestBegin(terms, bankTerms) ==
  /\ searching = NoTerms
  /\ terms \subseteq store.pool /\ Cardinality(terms) = Smaller(Draw, Cardinality(store.pool))
  /\ bankTerms \subseteq Bank
  /\ Cardinality(bankTerms) = Smaller(PerPoll - Cardinality(terms), Cardinality(Bank))
  /\ store' = Drawn(terms)
  /\ searching' = terms \cup bankTerms
  /\ searched' = [w \in Words |-> IF w \in terms THEN Smaller(searched[w] + 1, 2) ELSE searched[w]]
  /\ UNCHANGED <<storeDisk, torn>>

\* add_from_titles: words neither used nor known, in the order met, until the pool is full
Learned(titles) ==
  LET new == ToSet(titles) \ (store.used \cup store.pool)
      first(w) == CHOOSE k \in DOMAIN titles : titles[k] = w /\ \A i \in 1 .. k - 1 : titles[i] # w
      earlier(w) == {v \in new : first(v) < first(w)}
      fit == {w \in new : Cardinality(store.pool) + Cardinality(earlier(w)) < MaxPool}
  IN [store EXCEPT !.pool = @ \cup fit]

\* the searches are done; the file is replaced, or the write fails and is logged
HarvestEnd(titles) ==
  /\ searching # NoTerms /\ searching' = NoTerms
  /\ store' = Learned(titles)
  /\ storeDisk' \in {store', storeDisk}
  /\ UNCHANGED <<searched, torn>>

HarvestRestart ==
  /\ store' = storeDisk /\ searching' = NoTerms
  /\ torn' = (torn \/ store # storeDisk)
  /\ UNCHANGED <<storeDisk, searched>>

-----------------------------------------------------------------------------
(* Properties *)

\* A learned term is searched once, however often it turns up in titles and whatever
\* restarts lie between, unless a restart lost what the sweep had drawn.
HarvestedOnce == \A w \in Words : searched[w] > 1 => torn

=============================================================================
