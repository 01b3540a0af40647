----------------------------- MODULE Transforms -----------------------------
(***************************************************************************)
(* ujin/jobs/transforms.py: the stages of a job pipeline, as operators on  *)
(* events.  An item is a dict: a function from the fields it has to        *)
(* values.  A value is a number, Odd (one that numbers do not compare or   *)
(* add with) or None.  A payload is a list of items, or one item (list =   *)
(* FALSE).  A stage is the record of its config; dotted paths are one      *)
(* segment long and lead to the payload.                                   *)
(***************************************************************************)
EXTENDS Integers, FiniteSets, SequencesExt, Folding

CONSTANTS None, Odd,
  Tokens(_)   \* _approx_tokens of an item

Field(item, f) == IF f \in DOMAIN item THEN item[f] ELSE None
Comparable(a, b) == a \notin {None, Odd} /\ b \notin {None, Odd}

ListOf(e, items) == [e EXCEPT !.items = items]
Each(e, Op(_)) == ListOf(e, [i \in DOMAIN e.items |-> Op(e.items[i])])

\* the wanted elements of a sequence, in their order
PickedToo(wanted, out, x) == IF x \in wanted THEN Append(out, x) ELSE out
Picked(s, wanted) == Folded(LAMBDA out, x : PickedToo(wanted, out, x), <<>>, s)

\* SelectTransform: keep the items that match, then project them; a dict that does not match is dropped
Matches(item, where) == \A f \in DOMAIN where : Field(item, f) = where[f]
Project(item, fields) == [f \in fields |-> Field(item, f)]
Select(st, e) ==
  LET kept == Picked(e.items, {item \in ToSet(e.items) : Matches(item, st.where)})
  IN IF ~e.list /\ kept = <<>> THEN <<>>
     ELSE <<Each(ListOf(e, kept), LAMBDA item : Project(item, st.fields))>>

\* FilterTransform: a comparison that raises counts as false, and negate comes after it
Test(st, item) ==
  LET v == Field(item, st.key)
      holds == CASE st.op = "exists" -> v # None
                 [] st.op = "eq" -> v = st.value
                 [] st.op = "gt" -> Comparable(v, st.value) /\ v > st.value
  IN holds # st.negate
Filter(st, e) ==
  LET kept == Picked(e.items, {item \in ToSet(e.items) : Test(st, item)})
  IN IF ~e.list /\ kept = <<>> THEN <<>> ELSE <<ListOf(e, kept)>>

\* SortTransform: numbers, then other types, then what is missing; stable either way
Before(a, b) == IF Comparable(a, b) THEN a < b ELSE a # b /\ (b = None \/ (Comparable(a, a) /\ b = Odd))
Sort(st, e) ==
  LET key(i) == Field(e.items[i], st.key)
      first(i, j) == LET lo == IF st.reverse THEN j ELSE i
                         hi == IF st.reverse THEN i ELSE j
                     IN \/ Before(key(lo), key(hi))
                        \/ ~Before(key(hi), key(lo)) /\ i < j
      order == SetToSortSeq(DOMAIN e.items, first)
  IN <<IF e.list THEN ListOf(e, [k \in DOMAIN e.items |-> e.items[order[k]]]) ELSE e>>

\* LimitTransform
Limit(st, e) ==
  LET n == Len(e.items)
  IN <<IF ~e.list THEN e
       ELSE ListOf(e, IF st.from = "tail" THEN SubSeq(e.items, IF n > st.count THEN n - st.count + 1 ELSE 1, n)
                                          ELSE SubSeq(e.items, 1, IF st.count < n THEN st.count ELSE n))>>

\* RenameTransform, one pair of its mapping
Renamed(item, old, new, always) ==
  IF old \in DOMAIN item \/ always
  THEN [f \in (DOMAIN item \ {old}) \cup {new} |-> IF f = new THEN Field(item, old) ELSE item[f]]
  ELSE item
Rename(st, e) == <<Each(e, LAMBDA item : Renamed(item, st.old, st.new, st.drop_missing))>>

\* FillTransform: a field that is absent or None takes the default
Filled(item, f, default) ==
  [g \in DOMAIN item \cup {f} |-> IF g = f /\ Field(item, f) = None THEN default ELSE item[g]]
Fill(st, e) == <<Each(e, LAMBDA item : Filled(item, st.field, st.default))>>

\* UniqueTransform: items without the key are equal to each other
UnlessMet(f, out, item) ==
  IF \E k \in DOMAIN out : Field(out[k], f) = Field(item, f) THEN out ELSE Append(out, item)
Firsts(items, f) == Folded(LAMBDA out, item : UnlessMet(f, out, item), <<>>, items)
Unique(st, e) == <<IF e.list THEN ListOf(e, Firsts(e.items, st.key)) ELSE e>>

\* AggregateTransform with the count and one sum; adding an Odd value raises
Group(items, by, v) == Picked(items, {item \in ToSet(items) : Field(item, by) = v})
Sum(items, f) == Folded(LAMBDA n, item : IF Field(item, f) = None THEN n ELSE n + item[f], 0, items)
GroupRow(items, by, v, f) ==
  [g \in {by, "count", "sum"} |-> CASE g = by -> v [] g = "count" -> Len(Group(items, by, v))
                                    [] g = "sum" -> Sum(Group(items, by, v), f)]
AggregateRaises(st, e) == e.list /\ \E k \in DOMAIN e.items : Field(e.items[k], st.field) = Odd
Aggregate(st, e) ==
  LET firsts == Firsts(e.items, st.by)
  IN <<IF e.list THEN ListOf(e, [k \in DOMAIN firsts |-> GroupRow(e.items, st.by, Field(firsts[k], st.by), st.field)])
                 ELSE e>>

\* ChunkTransform: by size, or packed until the next item would pass the budget
\* MUTANT: a chunk also repeats the first item of the next one
BySizeOverlap(items, n) ==
  [k \in 1..((Len(items) + n - 1) \div n) |-> SubSeq(items, (k-1)*n + 1, IF k*n + 1 < Len(items) THEN k*n + 1 ELSE Len(items))]

BySize(items, n) ==
  [k \in 1..((Len(items) + n - 1) \div n) |-> SubSeq(items, (k-1)*n + 1, IF k*n < Len(items) THEN k*n ELSE Len(items))]
Weight(items) == Folded(LAMBDA n, item : n + Tokens(item), 0, items)
IntoLast(budget, out, item) ==
  IF out # <<>> /\ Weight(Last(out)) + Tokens(item) <= budget
  THEN Append(Front(out), Append(Last(out), item))
  ELSE Append(out, <<item>>)
ByBudget(items, budget) == Folded(LAMBDA out, item : IntoLast(budget, out, item), <<>>, items)

Split(st, items) == IF st.token_budget > 0 THEN ByBudget(items, st.token_budget) ELSE BySize(items, st.size)
Chunk(st, e) ==
  IF ~e.list \/ e.items = <<>> THEN <<e>>
  ELSE LET chunks == Split(st, e.items)
       IN [k \in DOMAIN chunks |-> ListOf(e, chunks[k])]

\* FlattenTransform: one event per item; an empty list emits nothing
Flatten(e) ==
  IF e.list THEN [k \in DOMAIN e.items |-> [e EXCEPT !.list = FALSE, !.items = <<e.items[k]>>]] ELSE <<e>>

-----------------------------------------------------------------------------
(* DedupeTransform, the one stage with a memory: the keys it has seen, oldest use first *)

Mark(seen, max, v) ==
  LET grown == Append(Picked(seen, ToSet(seen) \ {v}), v)
  IN IF Len(grown) > max THEN Tail(grown) ELSE grown

\* what is left of the items and of the memory after each item is marked in turn
MarkedToo(st, acc, item) ==
  LET v == Field(item, st.key)
  IN [fresh |-> IF v \in ToSet(acc.seen) THEN acc.fresh ELSE Append(acc.fresh, item),
      seen |-> Mark(acc.seen, st.max, v)]
Marked(st, seen, items) ==
  Folded(LAMBDA acc, item : MarkedToo(st, acc, item), [fresh |-> <<>>, seen |-> seen], items)

-----------------------------------------------------------------------------
(* The stages in a row: Pipeline.__call__ up to its sinks *)

\* a stage as its constructor leaves it: LimitTransform and ChunkTransform keep their numbers in range
IsStage(st) ==
  /\ st.kind \in {"select", "filter", "sort", "limit", "rename", "fill", "unique", "aggregate",
                  "chunk", "flatten", "dedupe"}
  /\ st.kind = "limit" => st.count \in Nat
  /\ st.kind = "chunk" => st.token_budget \in Nat /\ (st.token_budget > 0 \/ st.size \in Nat \ {0})

Stateless(st, e) ==
  CASE st.kind = "select" -> Select(st, e)
    [] st.kind = "filter" -> Filter(st, e)
    [] st.kind = "sort" -> Sort(st, e)
    [] st.kind = "limit" -> Limit(st, e)
    [] st.kind = "rename" -> Rename(st, e)
    [] st.kind = "fill" -> Fill(st, e)
    [] st.kind = "unique" -> Unique(st, e)
    [] st.kind = "aggregate" -> Aggregate(st, e)
    [] st.kind = "chunk" -> Chunk(st, e)
    [] st.kind = "flatten" -> Flatten(e)

\* one event through one stage; run holds the events so far, the memory and whether a stage raised
Through(st, run, e) ==
  IF run.raised THEN run
  ELSE IF st.kind = "dedupe"
  THEN LET m == Marked(st, run.seen, e.items)
       IN [run EXCEPT !.seen = m.seen,
                      !.events = IF m.fresh = <<>> THEN @ ELSE Append(@, ListOf(e, m.fresh))]
  ELSE IF st.kind = "aggregate" /\ AggregateRaises(st, e) THEN [run EXCEPT !.raised = TRUE]
  ELSE [run EXCEPT !.events = @ \o Stateless(st, e)]

StageRun(run, st) ==
  Folded(LAMBDA acc, e : Through(st, acc, e), [run EXCEPT !.events = <<>>], run.events)

\* a stage that raises ends the delivery, whatever the earlier stages remembered
Run(chain, seen, e) ==
  LET done == Folded(StageRun, [events |-> <<e>>, seen |-> seen, raised |-> FALSE], chain)
  IN IF done.raised THEN [done EXCEPT !.events = <<>>] ELSE done
=============================================================================
