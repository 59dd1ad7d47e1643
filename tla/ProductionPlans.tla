--------------------------- MODULE ProductionPlans ---------------------------
(***************************************************************************)
(* From references to batches: catalog/service.py (references),            *)
(* templates/compiler.py, the plan items of templates/service.py and the   *)
(* three ways workflow/service.py creates batches, for one product with one*)
(* production plan.                                                        *)
(*                                                                         *)
(* Requests that test "not executed yet" and then write are split into the *)
(* read and the commit.  At the commit only the constraints of the schema  *)
(* stand between two of them: plan_id and position are unique, a plan item *)
(* has one batch at most, and an item with a batch cannot be deleted.      *)
(*                                                                         *)
(* A reference is named by its view; the rules of a slot by what the       *)
(* quality run and the composition do with them.                           *)
(***************************************************************************)
EXTENDS Naturals, Sequences, FiniteSets, FiniteSetsExt, Functions

CONSTANTS
  Views,
  PlatformSlots,   \* slots of the platform pack, in order: key, view, rules
  CategoryViews,   \* the views the category pack asks for, by the slots it has
  BrandCopy,       \* the slots the brand pack has copy for
  Items,           \* plan item ids; an id is never given twice
  Requests,        \* requests being served
  None, Deleted,
  MaxEdits, MaxSingles, MaxBatches   \* bounds

\* What the rules of a slot ask for: nothing, a size, or a size and take text.
Rules == {"none", "size", "text"}
Modes == {"strict", "creative"}
Profiled == {"side", "back"}

\* fits: the size asked for is the one the rules of the slot demand.
Item == [position : Nat, view : Views, fits : BOOLEAN, copy : BOOLEAN, rules : Rules,
         chosen : SUBSET Views]

ASSUME PlanAssumption ==
  /\ PlatformSlots \in Seq([key : STRING, view : Views, rules : {"size", "text"}])
  /\ \A k \in DOMAIN CategoryViews : CategoryViews[k] \subseteq Views
  /\ Items \subseteq Nat /\ IsFiniteSet(Items) /\ DOMAIN PlatformSlots \subseteq Items
  /\ {MaxEdits, MaxSingles, MaxBatches} \subseteq Nat
  /\ None # Deleted /\ None \notin Items /\ None \notin Modes
  /\ None \notin Item /\ Deleted \notin Item

VARIABLES
  references,  \* views the product has a reference for
  plan,        \* the plan's mode, None before it is compiled
  items,       \* production_plan_items
  batches,     \* generation_batches, in the order of their commits
  edits,       \* requests that began to edit the plan, for the bound
  request      \* what a request has read

planVars == <<references, plan, items, batches, edits, request>>

Open == [op |-> "none", item |-> None, row |-> None, loaded |-> <<>>, cited |-> {}]

Existing == {i \in Items : items[i] \notin {None, Deleted}}
PlanBatches == {n \in DOMAIN batches : batches[n].plan}

PlanInit ==
  /\ references \in SUBSET Views
  /\ plan = None
  /\ items = [i \in Items |-> None]
  /\ batches = <<>>
  /\ edits = 0
  /\ request = [q \in Requests |-> Open]

-----------------------------------------------------------------------------
(* The catalog.                                                            *)

AddReference(v) ==
  /\ v \notin references
  /\ references' = references \union {v}
  /\ UNCHANGED <<plan, items, batches, edits, request>>

-----------------------------------------------------------------------------
(* compile_plan.                                                           *)

\* Mutant: every view the category asks for must be there, or none of them.
SuppliedByAll(slot) == CategoryViews[slot.key] \subseteq references

Supplied(slot) ==
  CategoryViews[slot.key] # {} => CategoryViews[slot.key] \intersect references # {}

Compatible == {n \in DOMAIN PlatformSlots : PlatformSlots[n].key \in DOMAIN CategoryViews}

Compilable(mode) ==
  /\ Compatible # {}
  /\ mode = "strict" => \A n \in Compatible : Supplied(PlatformSlots[n])

CopyFor(slot) == slot.rules = "text" /\ slot.key \in BrandCopy

Compiled(slot, n) ==
  [position |-> Cardinality({k \in Compatible : k < n}), view |-> slot.view, fits |-> TRUE, copy |-> CopyFor(slot),
   rules |-> slot.rules, chosen |-> {}]

CompilePlan(mode) ==
  /\ plan = None
  /\ Compilable(mode)
  /\ plan' = mode
  /\ items' = [i \in Items |-> IF i \in Compatible
                               THEN Compiled(PlatformSlots[i], i) ELSE None]
  /\ UNCHANGED <<references, batches, edits, request>>

-----------------------------------------------------------------------------
(* Editing the plan.                                                       *)

Mutable == plan # None /\ PlanBatches = {}
NextPosition == 1 + Max({items[i].position : i \in Existing} \union {0})

Ask(q, asked) ==
  /\ request[q] = Open
  /\ request' = [request EXCEPT ![q] = asked]
  /\ UNCHANGED <<references, plan, items, batches>>

Edit(q, asked) ==
  /\ Mutable
  /\ edits < MaxEdits /\ edits' = edits + 1
  /\ Ask(q, asked)

Answer(q) == request' = [request EXCEPT ![q] = Open]

\* The database refuses the commit, or the connection is lost before it.
Refused(q) ==
  /\ request[q] # Open
  /\ Answer(q)
  /\ UNCHANGED <<references, plan, items, batches, edits>>

AddRead(q) ==
  \E v \in Views :
    Edit(q, [Open EXCEPT !.op = "add", !.row =
      [position |-> NextPosition, view |-> v, fits |-> TRUE, copy |-> FALSE,
       rules |-> "none", chosen |-> {}]])

Unused == {i \in Items : items[i] = None}
PositionFree(row) == \A i \in Existing : items[i].position # row.position

AddCommit(q) ==
  /\ request[q].op = "add"
  /\ PositionFree(request[q].row)
  /\ Unused # {}
  /\ items' = [items EXCEPT ![Min(Unused)] = request[q].row]
  /\ Answer(q)
  /\ UNCHANGED <<references, plan, batches, edits>>

\* A field a request may set and its value.
Changes ==
  {<<"view", v>> : v \in Views} \union {<<"fits", f>> : f \in BOOLEAN}
    \union {<<"copy", c>> : c \in BOOLEAN} \union {<<"chosen", {v}>> : v \in references}

UpdateRead(q, i) ==
  /\ i \in Existing
  /\ \E change \in Changes :
       /\ items[i][change[1]] # change[2]
       /\ Edit(q, [Open EXCEPT !.op = "update", !.item = i, !.row = change])

UpdateCommit(q) ==
  LET change == request[q].row IN
  /\ request[q].op = "update"
  /\ request[q].item \in Existing
  /\ items' = [items EXCEPT ![request[q].item] = [@ EXCEPT ![change[1]] = change[2]]]
  /\ Answer(q)
  /\ UNCHANGED <<references, plan, batches, edits>>

DeleteRead(q, i) ==
  /\ i \in Existing
  /\ Edit(q, [Open EXCEPT !.op = "delete", !.item = i])

DeleteCommit(q) ==
  LET i == request[q].item IN
  /\ request[q].op = "delete"
  /\ i \in Existing
  /\ \A n \in DOMAIN batches : batches[n].item # i
  /\ items' = [items EXCEPT ![i] = Deleted]
  /\ Answer(q)
  /\ UNCHANGED <<references, plan, batches, edits>>

-----------------------------------------------------------------------------
(* Creating batches.                                                       *)

\* Mutant: the strict test looks at all references of the product.
SelectedAll(row) == references

Selected(row) == IF row.chosen = {} THEN references ELSE row.chosen

\* Strict mode refuses a side or a back view without a reference for it.
Truthful(mode, view, cited) == mode = "strict" /\ view \in Profiled => view \in cited

Batch(row, mode, cited) ==
  [plan |-> FALSE, item |-> None, source |-> 0, execution |-> 0, mode |-> mode,
   view |-> row.view, fits |-> row.fits, copy |-> row.copy, rules |-> row.rules,
   cited |-> cited, status |-> "queued"]

\* create_batch: a single picture, outside any plan and without slot rules.
CreateBatch(mode, v) ==
  /\ Len(batches) < MaxBatches
  /\ Cardinality({n \in DOMAIN batches : ~batches[n].plan /\ batches[n].source = 0}) < MaxSingles
  /\ Truthful(mode, v, references)
  /\ batches' = Append(batches,
       Batch([view |-> v, fits |-> TRUE, copy |-> FALSE, rules |-> "none"], mode, references))
  /\ UNCHANGED <<references, plan, items, edits, request>>

\* The items in the order of their positions.
Ordered(order) ==
  /\ Range(order) = Existing
  /\ \A m, n \in DOMAIN order : m < n => items[order[m]].position < items[order[n]].position

\* execute_production_plan: no batch of the plan is found, then the items are
\* loaded, then the references, which the items are tested against.
ExecuteOpen(q) ==
  /\ plan # None /\ PlanBatches = {}
  /\ edits' = edits
  /\ Ask(q, [Open EXCEPT !.op = "open"])

ExecuteList(q) ==
  /\ request[q].op = "open"
  /\ \E order \in [1..Cardinality(Existing) -> Existing] :
       /\ Ordered(order)
       /\ request' = [request EXCEPT ![q] = [@ EXCEPT !.op = "list", !.loaded = order, !.row = items]]
  /\ UNCHANGED <<references, plan, items, batches, edits>>

ExecuteRead(q) ==
  LET row(n) == request[q].row[request[q].loaded[n]] IN
  /\ request[q].op = "list"
  /\ \A n \in DOMAIN request[q].loaded : Truthful(plan, row(n).view, Selected(row(n)))
  /\ request' = [request EXCEPT ![q] = [@ EXCEPT !.op = "execute", !.cited = references]]
  /\ UNCHANGED <<references, plan, items, batches, edits>>

\* Mutant: nothing in the schema keeps an item from having two batches.
UnproducedAny(i) == TRUE

Unproduced(i) == \A n \in DOMAIN batches : batches[n].item # i

ExecuteCommit(q) ==
  LET asked == request[q] IN
  /\ asked.op = "execute"
  /\ Len(batches) + Len(asked.loaded) <= MaxBatches
  /\ \A n \in DOMAIN asked.loaded : asked.loaded[n] \in Existing /\ Unproduced(asked.loaded[n])
  /\ batches' = batches \o [n \in DOMAIN asked.loaded |->
       LET row == asked.row[asked.loaded[n]]
       IN [Batch(row, plan, IF row.chosen = {} THEN asked.cited ELSE row.chosen)
             EXCEPT !.plan = TRUE, !.item = asked.loaded[n], !.execution = Len(batches) + 1]]
  /\ Answer(q)
  /\ UNCHANGED <<references, plan, items, edits>>

\* The worker is done with a batch: the quality run measures the output, which
\* has the size the batch asked for, by the rules of the slot.
Passes(b) == b.rules # "none" => b.fits

\* Composition refuses copy the slot does not take, and the attempt is lost.
Composable(b) == b.copy => b.rules # "size"

Complete(n) ==
  /\ n \in DOMAIN batches
  /\ batches[n].status = "queued" /\ Composable(batches[n])
  /\ batches' = [batches EXCEPT ![n].status =
                   IF Passes(batches[n]) THEN "review_pending" ELSE "failed"]
  /\ UNCHANGED <<references, plan, items, edits, request>>

\* clone_batch: the copy keeps the snapshot and belongs to no plan.
Clone(n, fits, retry) ==
  LET b == batches[n] IN
  /\ Len(batches) < MaxBatches
  /\ retry => b.status = "failed" /\ fits = b.fits
  /\ b.rules = "none" => fits
  /\ batches' = Append(batches, [b EXCEPT !.plan = FALSE, !.item = None, !.execution = 0,
       !.source = n, !.fits = fits, !.status = "queued"])
  /\ UNCHANGED <<references, plan, items, edits, request>>

PlanNext ==
  \/ \E v \in Views : AddReference(v)
  \/ \E mode \in Modes : CompilePlan(mode)
  \/ \E q \in Requests : \/ AddRead(q) \/ AddCommit(q)
                         \/ ExecuteOpen(q) \/ ExecuteList(q) \/ ExecuteRead(q) \/ ExecuteCommit(q)
                         \/ UpdateCommit(q) \/ DeleteCommit(q) \/ Refused(q)
                         \/ \E i \in Items : UpdateRead(q, i) \/ DeleteRead(q, i)
  \/ \E mode \in Modes, v \in Views : CreateBatch(mode, v)
  \/ \E n \in DOMAIN batches : \/ Complete(n)
                               \/ \E fits, retry \in BOOLEAN : Clone(n, fits, retry)

PlanSpec == PlanInit /\ [][PlanNext]_planVars

-----------------------------------------------------------------------------
(* Properties.                                                             *)

\* Type correctness, and no two items share a position.
PlanTypeOK ==
  /\ references \subseteq Views /\ plan \in Modes \union {None}
  /\ \A i \in Existing : items[i] \in Item
  /\ edits \in 0..MaxEdits
  /\ \A i, k \in Existing : items[i].position = items[k].position => i = k
  /\ Len(batches) <= MaxBatches
  /\ \A n \in DOMAIN batches : batches[n].rules \in Rules /\ batches[n].cited \subseteq Views

\* A plan is produced by one execution, item by item: two executions that both
\* found no batch cannot both commit, even when items came and went between them.
OneExecution ==
  \A m, n \in PlanBatches :
    /\ batches[m].execution = batches[n].execution
    /\ batches[m].item = batches[n].item => m = n
    /\ batches[n].item \in Existing

\* The strict promise survives every path to a batch: compiled, edited, chosen
\* references, single, retried or duplicated, a strict side or back view cites
\* a reference of that view.
StrictViewsAreCited ==
  \A n \in DOMAIN batches : Truthful(batches[n].mode, batches[n].view, batches[n].cited)
=============================================================================
