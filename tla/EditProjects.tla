---------------------------- MODULE EditProjects ----------------------------
(***************************************************************************)
(* One edit project: editing/service.py and editing/evidence.py.  A        *)
(* revision is made from the output of a ready revision, either by a       *)
(* deterministic composition or by a provider, whose answer an execution   *)
(* of the revision's step records (worker/executor.py).  Layers have       *)
(* positions, and the assets the parent they were derived from.            *)
(*                                                                         *)
(* Executions are here because they write what later revisions are made    *)
(* from.  They overlap as in GenerationSteps: a lease may end under a live *)
(* execution, and an execution and a recovery scan test rows they have not *)
(* locked.  An execution locks its step when it flushes it, before it      *)
(* reads the revision, so that its commit is one action.                   *)
(*                                                                         *)
(* A request is split where it awaits: it reads its revision or layers,    *)
(* later (after the picture is rendered) the asset of that content and     *)
(* the next version, and commits.  Assets are content-addressed, so two    *)
(* requests may produce the same one; the unique constraints on the hash,  *)
(* on (project, version) and on (project, position) refuse the later of    *)
(* two commits that took the same value.                                   *)
(***************************************************************************)
EXTENDS Integers, Sequences, FiniteSets, FiniteSetsExt, Functions

CONSTANTS
  Pictures, Masks,   \* contents a composition or a provider, and a selection, can have
  Root,              \* the picture the project starts from
  LayerIds,          \* an id is never given twice
  Requests,
  Executions,        \* execute_step tasks on steps of the project, over all workers
  None, Absent, Deleted,
  MaxRequests        \* bound: requests served and steps leased

Assets == Pictures \union Masks

ASSUME EditAssumption ==
  /\ Root \in Pictures /\ Pictures \intersect Masks = {}
  /\ {None, Absent} \intersect Assets = {} /\ None # Absent
  /\ {None, Deleted} \intersect [position : Nat, locked : BOOLEAN] = {} /\ None # Deleted
  /\ {1, 2} \subseteq LayerIds /\ LayerIds \subseteq Nat
  /\ MaxRequests \in Nat

VARIABLES
  revisions,   \* edit_revisions with the status of their batches and steps, in commit order
  evidence,    \* edit_evidence: the pictures recorded for a revision
  lineage,     \* assets.parent_asset_id; Absent while the asset has no row
  selections,  \* <<source, mask>> of the audited selections
  layers,      \* edit_layers
  served,      \* requests and executions begun, for the bound
  request,     \* what a request has read
  execution,   \* what an execution has read
  scanned,     \* the revisions whose expired lease a recovery scan has read
  disturbed    \* history: the revisions whose lease ended under an execution,
               \* or whose step a scan took back after it had changed

database == <<revisions, evidence, lineage, selections, layers>>
workers == <<execution, scanned, disturbed>>
vars == <<database, served, request, workers>>

BatchStatus == {"none", "queued", "running", "retry_queued", "review_pending", "failed"}

\* A step is "expired" while it is running and its lease has run out.
StepStatus == {"none", "queued", "running", "expired", "retry_queued", "succeeded", "failed"}

Revision == [version : Nat, parent : Nat, source : Pictures, output : Pictures \union {None},
             status : {"queued", "ready", "failed"},
             batch : BatchStatus, step : StepStatus]
Layer == [position : Nat \ {0}, locked : BOOLEAN]
Open == [op |-> "none", on |-> 0, source |-> None, made |-> None, seen |-> None, number |-> 0,
         order |-> <<>>]
Idle == [at |-> "idle", on |-> 0, made |-> None, seen |-> None, retry |-> FALSE,
         step |-> "none", batch |-> "none"]

Existing == {i \in LayerIds : layers[i] \notin {None, Deleted}}
Unused == {i \in LayerIds : layers[i] = None}
Versions == {revisions[n].version : n \in DOMAIN revisions}

\* create_edit_project: the source picture is revision 0, over it two layers.
Init ==
  /\ revisions = << [version |-> 0, parent |-> 0, source |-> Root, output |-> Root,
                     status |-> "ready", batch |-> "none", step |-> "none"] >>
  /\ evidence = {}
  /\ lineage = [a \in Assets |-> IF a = Root THEN None ELSE Absent]
  /\ selections = {}
  /\ layers = [i \in LayerIds |-> CASE i = 1 -> [position |-> 1, locked |-> FALSE]
                                    [] i = 2 -> [position |-> 2, locked |-> TRUE]
                                    [] OTHER -> None]
  /\ served = 0
  /\ request = [q \in Requests |-> Open]
  /\ execution = [e \in Executions |-> Idle]
  /\ scanned = {}
  /\ disturbed = {}

Begin(q, asked) ==
  /\ request[q] = Open
  /\ served < MaxRequests /\ served' = served + 1
  /\ request' = [request EXCEPT ![q] = asked]
  /\ UNCHANGED <<database, workers>>

Answer(q) == request' = [request EXCEPT ![q] = Open] /\ UNCHANGED <<served, workers>>

\* A constraint of the schema refuses the commit, or the request is broken off.
Refused(q) ==
  /\ request[q] # Open
  /\ Answer(q)
  /\ UNCHANGED database

-----------------------------------------------------------------------------
(* Revisions.                                                              *)

Ready(n) == revisions[n].status = "ready" /\ revisions[n].output # None

BeginRevision(q, n, op) ==
  /\ Ready(n)
  /\ Begin(q, [Open EXCEPT !.op = op, !.on = n, !.source = revisions[n].output])

NextVersion == 1 + Max(Versions)

\* The picture is rendered: the asset of that content and the next version are
\* looked up.  A revision by a provider has no picture yet.
Look(q, a) ==
  /\ request[q].op \in {"compose", "provider", "select"} /\ request[q].number = 0
  /\ request' = [request EXCEPT ![q].made = a,
                   ![q].seen = IF a = None THEN None ELSE lineage[a],
                   ![q].number = NextVersion]
  /\ UNCHANGED <<database, served, workers>>

Rendered(q) ==
  \/ request[q].op = "compose" /\ \E a \in Pictures : Look(q, a)
  \/ request[q].op = "select" /\ \E a \in Masks : Look(q, a)
  \/ request[q].op = "provider" /\ Look(q, None)

\* Two requests that found no row for one content both insert it.
Insertable(a, seen) == seen = Absent => lineage[a] = Absent

\* Mutant: what is new descends from the picture the project starts from.
DerivedFromRoot(a, seen, source) ==
  IF seen \notin {Absent, None} THEN lineage[a] ELSE IF a = Root THEN None ELSE Root

\* An asset gets a parent if it had none when it was looked up.
Derived(a, seen, source) ==
  IF seen \in {Absent, None} /\ a # source THEN source
  ELSE IF seen = Absent THEN None ELSE lineage[a]

\* Mutant: the schema lets two revisions have one version.
VersionAny(version) == TRUE

VersionFree(version) == version \notin Versions

Made(asked, status, batch, step) ==
  [version |-> asked.number, parent |-> asked.on, source |-> asked.source, output |-> asked.made,
   status |-> status, batch |-> batch, step |-> step]

\* A composition is ready at once, with its evidence, and waits for a review.
CommitComposition(q) ==
  LET asked == request[q] IN
  /\ asked.op = "compose" /\ asked.number # 0
  /\ VersionFree(asked.number) /\ Insertable(asked.made, asked.seen)
  /\ lineage' = [lineage EXCEPT ![asked.made] = Derived(asked.made, asked.seen, asked.source)]
  /\ revisions' = Append(revisions, Made(asked, "ready", "review_pending", "succeeded"))
  /\ evidence' = evidence \union
       {[on |-> Len(revisions) + 1, output |-> asked.made, passed |-> TRUE]}
  /\ Answer(q)
  /\ UNCHANGED <<selections, layers>>

CommitRevision(q) ==
  LET asked == request[q] IN
  /\ asked.op = "provider" /\ asked.number # 0
  /\ VersionFree(asked.number)
  /\ revisions' = Append(revisions, Made(asked, "queued", "queued", "queued"))
  /\ Answer(q)
  /\ UNCHANGED <<evidence, lineage, selections, layers>>

CommitSelection(q) ==
  LET asked == request[q] IN
  /\ asked.op = "select" /\ asked.number # 0
  /\ Insertable(asked.made, asked.seen)
  /\ lineage' = [lineage EXCEPT ![asked.made] = Derived(asked.made, asked.seen, asked.source)]
  /\ selections' = selections \union {<<asked.source, asked.made>>}
  /\ Answer(q)
  /\ UNCHANGED <<revisions, evidence, layers>>

-----------------------------------------------------------------------------
(* Executions.                                                             *)

\* Mutant: a step that has succeeded can be leased again.
ClaimableSucceeded(n) == revisions[n].step \in {"queued", "retry_queued", "expired", "succeeded"}

\* Backoff and capacity only delay a lease.
Claimable(n) == revisions[n].step \in {"queued", "retry_queued", "expired"}

\* The lease locks the row of the step from its test to its commit.
Lease(e, n) ==
  /\ execution[e] = Idle /\ Claimable(n)
  /\ served < MaxRequests /\ served' = served + 1
  /\ revisions' = [revisions EXCEPT ![n].step = "running", ![n].batch = "running"]
  /\ execution' = [execution EXCEPT ![e] = [Idle EXCEPT !.at = "working", !.on = n]]
  /\ UNCHANGED <<evidence, lineage, selections, layers, request, scanned, disturbed>>

\* The configuration of the model is disabled: the revision is left as it is.
RefuseDisabled(n) ==
  /\ Claimable(n)
  /\ revisions' = [revisions EXCEPT ![n].step = "failed", ![n].batch = "failed"]
  /\ UNCHANGED <<evidence, lineage, selections, layers, served, request, workers>>

Advance(e, state) ==
  /\ execution' = [execution EXCEPT ![e] = state]
  /\ UNCHANGED <<served, request, scanned, disturbed>>

\* The picture is stored and the step read, which must be running, whoever
\* runs it.
CompleteRead(e, a) ==
  LET x == execution[e] IN
  /\ x.at = "working"
  /\ Advance(e, IF revisions[x.on].step \in {"running", "expired"}
                THEN [x EXCEPT !.at = "completing", !.made = a] ELSE Idle)
  /\ UNCHANGED database

CompleteLook(e) ==
  LET x == execution[e] IN
  /\ x.at = "completing"
  /\ Advance(e, [x EXCEPT !.at = "recording", !.seen = lineage[x.made]])
  /\ UNCHANGED database

\* Mutant: the evidence looks only at the size of the picture.
PassesBySize(n, fits) == fits

\* The evidence passes when the picture has the size that was asked for and is
\* the first that the revision is given.
Passes(n, fits) == fits /\ revisions[n].output = None

\* The step is flushed, then batch and revision are read and written.
CompleteCommit(e, fits) ==
  LET x == execution[e]
      n == x.on
      passed == Passes(n, fits)
  IN /\ x.at = "recording" /\ Insertable(x.made, x.seen)
     /\ lineage' = [lineage EXCEPT ![x.made] = Derived(x.made, x.seen, revisions[n].source)]
     /\ evidence' = evidence \union {[on |-> n, output |-> x.made, passed |-> passed]}
     /\ revisions' = [revisions EXCEPT ![n].output = x.made, ![n].step = "succeeded",
                        ![n].status = IF passed THEN "ready" ELSE "failed",
                        ![n].batch = IF passed THEN "review_pending" ELSE "failed"]
     /\ Advance(e, Idle)
     /\ UNCHANGED <<selections, layers>>

\* _mark_failed: the step and the batch are read.
FailRead(e, retry) ==
  LET x == execution[e]
      r == revisions[x.on]
  IN /\ x.at = "working"
     /\ Advance(e, IF r.step \in {"succeeded", "failed"} THEN Idle
                   ELSE [x EXCEPT !.at = "marking", !.retry = retry,
                                  !.step = r.step, !.batch = r.batch])
     /\ UNCHANGED database

\* A column that does not change what was read is not written.
Flushed(current, loaded, new) == IF new = loaded THEN current ELSE new

\* The revision is marked at once, whether the attempt is repeated or not.
FailCommit(e) ==
  LET x == execution[e]
      r == revisions[x.on]
      new == IF x.retry THEN "retry_queued" ELSE "failed"
  IN /\ x.at = "marking"
     /\ revisions' = [revisions EXCEPT ![x.on].status = "failed",
                        ![x.on].step = Flushed(r.step, x.step, new),
                        ![x.on].batch = Flushed(r.batch, x.batch, new)]
     /\ Advance(e, Idle)
     /\ UNCHANGED <<evidence, lineage, selections, layers>>

\* The worker ends, or an exception leaves the task: the lease stays.
Stop(e) ==
  /\ execution[e] # Idle
  /\ Advance(e, Idle)
  /\ UNCHANGED database

Executed(n) == \E e \in Executions : execution[e] # Idle /\ execution[e].on = n

LeaseExpires(n) ==
  /\ revisions[n].step = "running"
  /\ revisions' = [revisions EXCEPT ![n].step = "expired"]
  /\ disturbed' = IF Executed(n) THEN disturbed \union {n} ELSE disturbed
  /\ UNCHANGED <<evidence, lineage, selections, layers, served, request, execution, scanned>>

\* A scan reads the expired leases without a lock, and commits later; several
\* may have read one row.
RecoverRead(n) ==
  /\ revisions[n].step = "expired" /\ n \notin scanned
  /\ scanned' = scanned \union {n}
  /\ UNCHANGED <<database, served, request, execution, disturbed>>

RecoverCommit(n) ==
  /\ n \in scanned
  /\ revisions' = [revisions EXCEPT ![n].step = "retry_queued"]
  /\ disturbed' = IF revisions[n].step \in {"expired", "retry_queued"} THEN disturbed
                  ELSE disturbed \union {n}
  /\ UNCHANGED <<evidence, lineage, selections, layers, served, request, execution, scanned>>

\* The last scan that has read a row has committed, or ended without.
RecoverEnd(n) ==
  /\ n \in scanned
  /\ scanned' = scanned \ {n}
  /\ UNCHANGED <<database, served, request, execution, disturbed>>

-----------------------------------------------------------------------------
(* Layers.                                                                 *)

Positions == {layers[i].position : i \in Existing}

\* create_layer, and duplicate_layer with an unlocked copy.
BeginLayer(q, locked, copied) ==
  /\ copied \in Existing \union {None} /\ (copied # None => ~locked)
  /\ Begin(q, [Open EXCEPT !.op = "layer", !.number = 1 + Max(Positions \union {0}),
                           !.seen = locked])

CommitLayer(q) ==
  LET asked == request[q] IN
  /\ asked.op = "layer"
  /\ asked.number \notin Positions /\ Unused # {}
  /\ layers' = [layers EXCEPT ![Min(Unused)] =
                  [position |-> asked.number, locked |-> asked.seen]]
  /\ Answer(q)
  /\ UNCHANGED <<revisions, evidence, lineage, selections>>

BeginDelete(q, i) ==
  /\ i \in Existing /\ ~layers[i].locked
  /\ Begin(q, [Open EXCEPT !.op = "delete", !.on = i])

CommitDelete(q) ==
  /\ request[q].op = "delete"
  /\ layers' = [layers EXCEPT ![request[q].on] = Deleted]
  /\ Answer(q)
  /\ UNCHANGED <<revisions, evidence, lineage, selections>>

BeginLock(q, i) ==
  /\ i \in Existing
  /\ Begin(q, [Open EXCEPT !.op = "lock", !.on = i, !.seen = ~layers[i].locked])

CommitLock(q) ==
  LET asked == request[q] IN
  /\ asked.op = "lock" /\ asked.on \in Existing
  /\ layers' = [layers EXCEPT ![asked.on].locked = asked.seen]
  /\ Answer(q)
  /\ UNCHANGED <<revisions, evidence, lineage, selections>>

\* The list must name every layer; it may name one twice.
BeginReorder(q) ==
  \E order \in UNION {[1..n -> Existing] : n \in {Cardinality(Existing), Cardinality(Existing) + 1}} :
    /\ Range(order) = Existing
    /\ Begin(q, [Open EXCEPT !.op = "reorder", !.order = order])

\* The place a list gives a layer: where it names it last.
Place(order, i) == Max({n \in DOMAIN order : order[n] = i})

\* Mutant: the layers are renumbered without the negative positions first.
DirectPhases(order) == <<[i \in Range(order) |-> Place(order, i)]>>

Phases(order) ==
  <<[i \in Range(order) |-> -Place(order, i)], [i \in Range(order) |-> Place(order, i)]>>

\* The rows are updated one by one: no new position may be one that another row has.
Clash(old, new) ==
  \E i \in DOMAIN new, k \in DOMAIN old : i # k /\ new[i] = old[k]

Numbered == [i \in Existing |-> layers[i].position]

Clashes(order) ==
  LET phases == Phases(order)
  IN \E n \in DOMAIN phases :
       Clash(IF n = 1 THEN Numbered ELSE [i \in Existing |->
               IF i \in Range(order) THEN phases[n - 1][i] ELSE layers[i].position], phases[n])

Renumbered(order) == [i \in Range(order) |-> Place(order, i)]

CommitReorder(q) ==
  LET order == request[q].order IN
  /\ request[q].op = "reorder"
  /\ Range(order) \subseteq Existing /\ ~Clashes(order)
  /\ layers' = [i \in LayerIds |-> IF i \in Range(order)
                  THEN [layers[i] EXCEPT !.position = Renumbered(order)[i]] ELSE layers[i]]
  /\ Answer(q)
  /\ UNCHANGED <<revisions, evidence, lineage, selections>>

Next ==
  \/ \E q \in Requests :
       \/ \E n \in DOMAIN revisions, op \in {"compose", "provider", "select"} : BeginRevision(q, n, op)
       \/ Rendered(q) \/ CommitComposition(q) \/ CommitRevision(q) \/ CommitSelection(q)
       \/ \E locked \in BOOLEAN, copied \in LayerIds \union {None} : BeginLayer(q, locked, copied)
       \/ \E i \in LayerIds : BeginDelete(q, i) \/ BeginLock(q, i)
       \/ CommitLayer(q) \/ CommitDelete(q) \/ CommitLock(q)
       \/ BeginReorder(q) \/ CommitReorder(q) \/ Refused(q)
  \/ \E e \in Executions :
       \/ \E n \in DOMAIN revisions : Lease(e, n)
       \/ \E a \in Pictures : CompleteRead(e, a)
       \/ CompleteLook(e)
       \/ \E fits \in BOOLEAN : CompleteCommit(e, fits)
       \/ \E retry \in BOOLEAN : FailRead(e, retry)
       \/ FailCommit(e) \/ Stop(e)
  \/ \E n \in DOMAIN revisions :
       RefuseDisabled(n) \/ LeaseExpires(n) \/ RecoverRead(n) \/ RecoverCommit(n) \/ RecoverEnd(n)

Spec == Init /\ [][Next]_vars

-----------------------------------------------------------------------------
(* Properties.                                                             *)

\* Type correctness; no layer is left at a negative position.
TypeOK ==
  /\ \A n \in DOMAIN revisions : revisions[n] \in Revision
  /\ lineage \in [Assets -> Assets \union {None, Absent}]
  /\ layers \in [LayerIds -> Layer \union {None, Deleted}]
  /\ served \in 0..MaxRequests
  /\ evidence \subseteq [on : DOMAIN revisions, output : Pictures, passed : BOOLEAN]
  /\ scanned \union disturbed \subseteq DOMAIN revisions

\* Numbers are given once, however many requests take the next one: the versions of a
\* project have no gap and no repetition, and no two layers share a position.
NumbersAreGivenOnce ==
  /\ Versions = 0..(Len(revisions) - 1)
  /\ \A i, k \in Existing : layers[i].position = layers[k].position => i = k

\* The pictures of a revision that passed; the project's own picture is not examined.
Passed(n) ==
  IF n = 1 THEN {Root} ELSE {a \in Pictures : [on |-> n, output |-> a, passed |-> TRUE] \in evidence}

\* A revision shows what its parent shows: it was made from the one picture with
\* which its parent ever passed, and a ready revision still shows that picture,
\* however many executions record one and in whatever order.
SourceIsParentsOutput ==
  /\ \A n \in 2..Len(revisions) : LET p == revisions[n].parent IN
       /\ p \in 1..(n - 1) /\ revisions[p].version < revisions[n].version
       /\ Passed(p) = {revisions[n].source}
  /\ \A n \in DOMAIN revisions : Ready(n) => Passed(n) = {revisions[n].output}

\* The parent recorded for an asset is one it was made from: the asset was
\* recorded for a revision that began with the parent, or a selection made it.
LineageIsWitnessed ==
  \A a \in Assets : lineage[a] \in Assets =>
    \/ \E row \in evidence : row.output = a /\ revisions[row.on].source = lineage[a]
    \/ <<lineage[a], a>> \in selections

Settled(n) == revisions[n].batch \in {"none", "review_pending", "failed"}

\* What is reviewed is what was recorded: once its batch is settled, a revision
\* is never given another picture, parent or verdict, through retries, crashes
\* and scans, unless its lease ended under an execution or a scan took back a
\* step that had gone on.  Even then a second picture comes only with a failure.
ReadyRevisionsStay ==
  [][\A n \in DOMAIN revisions :
       /\ n \in DOMAIN revisions'
       /\ Settled(n) /\ n \notin disturbed' => revisions'[n] = revisions[n]
       /\ revisions[n].output \in {None, revisions'[n].output} \/ revisions'[n].status = "failed"]_vars

\* A list of all the layers can always be carried out: the two renumberings meet
\* no position of another row, even when the list names a layer twice or another
\* reordering came first.
ReordersFit ==
  \A q \in Requests :
    request[q].op = "reorder" /\ Range(request[q].order) = Existing => ~Clashes(request[q].order)
=============================================================================
