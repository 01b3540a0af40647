------------------------------ MODULE JobFiles ------------------------------
(***************************************************************************)
(* ujin/jobs/app.py: the jobs declared by the files a jobs service starts  *)
(* with.  Fragments are inlined, defaults merged under each entry, a       *)
(* matrix is fanned out, and ids are derived: in a workflow file, which    *)
(* fails as a whole, and in an ingest plan, which fails job by job.        *)
(*                                                                         *)
(* A mapping is [refs, keys]: the fragments its include: names, and a      *)
(* function from its other keys to values; an include: below the top of an *)
(* entry or fragment is left out.  A key is a path: <<"source",            *)
(* "kind">> is the key kind of the mapping that is the value of source,    *)
(* and where a value is a mapping the function has Map.  Var is the one    *)
(* placeholder that a matrix row replaces.  A list is a sequence of        *)
(* mappings.  A file is [stem, shape, defaults, jobs], of the shape "ok"   *)
(* when it parses to a mapping or list.  Ids are an explicit value or a    *)
(* sequence: the stem and indices.                                         *)
(***************************************************************************)
EXTENDS Integers, FiniteSets, SequencesExt, Folding

CONSTANTS
  Fragments,     \* the fragment files: mappings or [items |-> a list]
  Map, Var,
  Unbuildable,   \* a value that JobSpec.from_dict rejects where it stands
  Raised         \* what raises

Id == <<"id">>
Matrix == <<"matrix">>
Source == <<"source">>
Kind == <<"source", "kind">>

\* the keys that lead to a key
Above(key) == {SubSeq(key, 1, n) : n \in 1 .. Len(key) - 1}

Mapping(refs, keys) == [refs |-> refs, keys |-> keys]
IsList(node) == "items" \in DOMAIN node

\* what a file may hold
IsSequence(s) == s \in Seq({s[k] : k \in DOMAIN s})
IsTree(keys) ==
  /\ keys = [key \in DOMAIN keys |-> keys[key]]
  /\ \A key \in DOMAIN keys :
       key \in Seq(STRING) /\ Len(key) > 0 /\ \A q \in Above(key) : q \in DOMAIN keys /\ keys[q] = Map
IsMapping(m) ==
  /\ m = Mapping(m.refs, m.keys) /\ IsSequence(m.refs) /\ IsTree(m.keys)
  /\ Matrix \in DOMAIN m.keys => IsSequence(m.keys[Matrix])
IsMappings(list) == IsSequence(list) /\ \A k \in DOMAIN list : IsMapping(list[k])
IsNode(node) == IF IsList(node) THEN node = [items |-> node.items] /\ IsMappings(node.items) ELSE IsMapping(node)
IsFile(file) == IsMapping(file.defaults) /\ IsMappings(file.jobs)

ASSUME FragmentsAssumption ==
  /\ IsFiniteSet(DOMAIN Fragments)
  /\ \A ref \in DOMAIN Fragments : IsNode(Fragments[ref])

\* what over leaves of base: the keys that it reaches through mappings only
Left(over, base) ==
  {key \in DOMAIN base : \A q \in Above(key) \cap DOMAIN over : over[q] = Map}
Under(over, base) ==
  [key \in DOMAIN over \cup Left(over, base) |-> IF key \in DOMAIN over THEN over[key] ELSE base[key]]

\* _deep_merge: mappings key by key, at every depth; anything else is replaced
DeepMerge(base, over) ==
  IF IsList(base) \/ IsList(over) THEN over ELSE Mapping(over.refs, Under(over.keys, base.keys))

-----------------------------------------------------------------------------
(* include: *)

\* a list item that turned into a list is spliced in
Extended(items, part) == IF IsList(part) THEN items \o part.items ELSE Append(items, part)
Spliced(parts) ==
  IF Raised \in ToSet(parts) THEN Raised ELSE [items |-> Folded(Extended, <<>>, parts)]

\* a mapping over its resolved fragments, of which later ones win; it cannot add keys to a list
Over(frags, bare) ==
  IF Raised \in ToSet(frags) THEN Raised
  ELSE LET merged == Folded(DeepMerge, Mapping(<<>>, <<>>), frags)
       IN IF ~IsList(merged) THEN DeepMerge(merged, bare)
          ELSE IF DOMAIN bare.keys # {} THEN Raised ELSE merged

\* _resolve_includes, with what including each fragment gives; a missing one raises
Included(ref, given) == IF ref \in DOMAIN given THEN given[ref] ELSE Raised
Resolved(m, given) ==
  Over([k \in DOMAIN m.refs |-> Included(m.refs[k], given)], Mapping(<<>>, m.keys))
Inlined(node, given) ==
  IF IsList(node) THEN Spliced([k \in DOMAIN node.items |-> Resolved(node.items[k], given)])
  ELSE Resolved(node, given)

\* _load_fragment: n fragments may be open; a chain of more than there are includes one by itself
Opened ==
  LET open[n \in 0 .. Cardinality(DOMAIN Fragments)] ==
        IF n = 0 THEN [ref \in DOMAIN Fragments |-> Raised]
        ELSE LET given == open[n - 1] IN [ref \in DOMAIN Fragments |-> Inlined(Fragments[ref], given)]
  IN open[Cardinality(DOMAIN Fragments)]

-----------------------------------------------------------------------------
(* matrix: and ids *)

Subst(keys, value) == [k \in DOMAIN keys |-> IF keys[k] = Var THEN value ELSE keys[k]]
WithId(keys, id) == IF Id \in DOMAIN keys THEN keys ELSE Under(keys, [key \in {Id} |-> id])

\* _expand_matrix: one job per row; no rows, a row that is no mapping or two equal ids raise
Fanned(keys, base) ==
  IF Matrix \notin DOMAIN keys THEN <<keys>>
  ELSE LET rows == keys[Matrix]
           template == [key \in DOMAIN keys \ {Matrix} |-> keys[key]]
           jobs == [k \in DOMAIN rows |-> WithId(Subst(template, rows[k]), Append(base, k - 1))]
       IN IF rows = <<>> \/ Raised \in ToSet(rows) \/ ~IsInjective([k \in DOMAIN jobs |-> jobs[k][Id]])
          THEN Raised ELSE jobs

\* JobSpec.from_dict raises when the source has no kind or something is malformed
Builds(job) == Kind \in DOMAIN job /\ \A key \in DOMAIN job : job[key] # Unbuildable

\* the id of item k out of n, unless it names its own
Derived(stem, k, n) == IF n = 1 THEN <<stem>> ELSE <<stem, k - 1>>

\* the items of a file over its defaults; own is what an item says itself
OverDefaults(list, defaults) ==
  IF list = Raised \/ defaults = Raised THEN Raised
  ELSE [k \in DOMAIN list.items |->
          [own |-> list.items[k].keys, keys |-> DeepMerge(defaults, list.items[k]).keys]]
EntriesOf(file) ==
  IF file.shape # "ok" THEN Raised
  ELSE OverDefaults(Inlined([items |-> file.jobs], Opened), Inlined(file.defaults, Opened))

\* _plan_entries: a plan's defaults must be a mapping, or nothing
PlanEntries(file) ==
  LET defaults == Inlined(file.defaults, Opened)
  IN IF file.shape = "ok" /\ defaults # Raised /\ IsList(defaults) /\ defaults.items # <<>> THEN Raised
     ELSE EntriesOf(file)

\* _specs_from_workflow_file: the jobs of the file, all or none
Fans(stem, entries) ==
  IF entries = Raised THEN <<Raised>>
  ELSE [k \in DOMAIN entries |-> Fanned(entries[k].keys, Derived(stem, k, Len(entries)))]
WithIds(stem, raw) == [k \in DOMAIN raw |-> WithId(raw[k], Derived(stem, k, Len(raw)))]
Built(jobs) == IF \A k \in DOMAIN jobs : Builds(jobs[k]) THEN jobs ELSE Raised
Joined(stem, fans) == IF Raised \in ToSet(fans) THEN Raised ELSE Built(WithIds(stem, FlattenSeq(fans)))
Workflow(file) == Joined(file.stem, Fans(file.stem, EntriesOf(file)))

\* one job of a plan entry: its id is taken before it is built; what raises skips the rest of the entry
Claim(run, job) ==
  IF run.raised \/ job[Id] \in run.ids THEN [run EXCEPT !.raised = TRUE]
  ELSE IF ~Builds(job) THEN [run EXCEPT !.raised = TRUE, !.ids = @ \cup {job[Id]}]
  ELSE [run EXCEPT !.ids = @ \cup {job[Id]}, !.jobs = Append(@, job)]

FannedJobs(run, jobs, base) ==
  IF jobs = Raised THEN [run EXCEPT !.raised = TRUE]
  ELSE Folded(Claim, run, [k \in DOMAIN jobs |-> WithId(jobs[k], base)])

\* MUTANT: an entry that fails ends the plan
ReportedOrStop(run, base) ==
  IF run.raised THEN [run EXCEPT !.failed = @ \cup {base}] ELSE run

\* an entry that failed is reported, and the next one goes on
Reported(run, base) ==
  IF run.raised THEN [run EXCEPT !.raised = FALSE, !.failed = @ \cup {base}] ELSE run

\* _load_ingest_plan, entry k: its base is the id it names or derived from its place
NothingLoaded == [jobs |-> <<>>, ids |-> {}, failed |-> {}, raised |-> FALSE]
BaseOf(stem, entries, k) ==
  IF Id \in DOMAIN entries[k].own THEN entries[k].own[Id] ELSE Derived(stem, k, Len(entries))
EntryLoaded(run, entry) == Reported(FannedJobs(run, Fanned(entry.keys, entry.base), entry.base), entry.base)
WithBases(stem, entries) ==
  [k \in DOMAIN entries |-> [keys |-> entries[k].keys, base |-> BaseOf(stem, entries, k)]]
Plan(stem, entries) ==
  IF entries = Raised THEN [NothingLoaded EXCEPT !.failed = {<<stem>>}]
  ELSE Folded(EntryLoaded, NothingLoaded, WithBases(stem, entries))

\* lifespan: the workflow files in order (_load_workflows_dir skips one that fails), then the plan;
\* a later job replaces one with its id
Registered(start) ==
  FoldLeft(LAMBDA jobs, job : (job[Id] :> job[Kind]) @@ jobs, <<>>,
           FlattenSeq(SelectSeq([k \in DOMAIN start.flows |-> Workflow(start.flows[k])], LAMBDA jobs : jobs # Raised))
             \o Plan(start.plan.stem, PlanEntries(start.plan)).jobs)

-----------------------------------------------------------------------------
(* Properties *)

\* A bad entry of a plan "fails just that job": once the file parses and its includes
\* resolve, an entry that loads when the plan holds nothing else, with ids no other entry
\* asks for, is loaded just so beside any others; every entry is loaded or reported, and no
\* two of the loaded jobs share an id.  What an entry says of itself, however deep, is what
\* its jobs get, and of the defaults it gets what it neither says nor replaces.
Alone(stem, entries, k) == EntryLoaded(NothingLoaded, WithBases(stem, entries)[k])
Replaced(own, key) == key \in DOMAIN own \/ \E q \in Above(key) \cap DOMAIN own : own[q] # Map
SaysOf(keys, own, defaults) ==
  /\ \A key \in DOMAIN own : key \in DOMAIN keys /\ keys[key] = own[key]
  /\ defaults.refs = <<>> =>
       \A key \in DOMAIN defaults.keys : ~ Replaced(own, key) => key \in DOMAIN keys /\ keys[key] = defaults.keys[key]
LoadedAsWritten(file, entries, run, alone) ==
  LET items == DOMAIN entries
      loaded(k) == alone[k].failed = {} /\ ToSet(alone[k].jobs) \subseteq ToSet(run.jobs)
      asked(k) == UNION {alone[m].ids : m \in items \ {k}}
  IN /\ \A k \in items : loaded(k) \/ BaseOf(file.stem, entries, k) \in run.failed
     /\ \A k \in items : (alone[k].failed = {} /\ alone[k].ids \cap asked(k) = {}) => loaded(k)
     /\ IsInjective([k \in DOMAIN run.jobs |-> run.jobs[k][Id]])
     /\ (\A k \in DOMAIN file.jobs : file.jobs[k].refs = <<>>) =>
          \A k \in items : SaysOf(entries[k].keys, file.jobs[k].keys, file.defaults)
LoadsAs(file, entries) ==
  IF entries = Raised THEN Plan(file.stem, entries).jobs = <<>> /\ Plan(file.stem, entries).failed = {<<file.stem>>}
  ELSE LoadedAsWritten(file, entries, Plan(file.stem, entries),
                       [k \in DOMAIN entries |-> Alone(file.stem, entries, k)])
LoadsAsWritten(file) == LoadsAs(file, PlanEntries(file))
=============================================================================
