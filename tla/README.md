# Verification of the AI image workbench

TLA+ models of the backend under `src/backend/src/aiimage` (FastAPI, SQLAlchemy
on PostgreSQL, Redis, an object store, and worker processes), with TLC
configurations that check them and TLAPS proofs about them.  Paths below are
relative to `src/backend/src/aiimage`.

## 1. The system

### Parts, state and operations

| Part | State it keeps | Operations | Correct when |
|---|---|---|---|
| Generation worker (`worker/executor.py`) | `generation_steps` rows (status, attempt count, lease owner and expiry, next attempt, output), `generation_batches.status`, `edit_revisions.status` | `_lease_step`, `execute_step`, `_mark_failed` | one execution per lease; leases only over claimable rows; attempts counted and limited; a step ends; a batch tells what its step tells |
| Lease recovery (`worker/recovery.py`) | the same rows | `recover_generation_steps` | a step of a dead worker comes back; a step of a living one is left alone |
| Worker loop (`worker/main.py`) | running tasks, bulk task | `run_worker` | every hint starts at most one execution; no hint is needed for progress |
| Wakeup queue (`workflow/queue.py`) | Redis list, one deduplication key per step (60 s) | `publish`, `acknowledge` | a lost hint costs time only |
| Batches (`workflow/service.py`, `state.py`, `models.py`) | batches, steps, plan status | `create_batch`, `execute_production_plan`, `clone_batch` | a plan is executed once; strict views are cited, in copies too |
| Review (`review/service.py`) | review decisions, batch status | `review_batch` | one decision for the output that was looked at |
| Export (`export/service.py`) | export rows, batch status | `build_export_zip`, plan export | only approved output leaves the system, with the decision that approved it |
| Quality (`quality/`) | quality runs | `run_structural_quality` | the verdict follows from the rules |
| Bulk import (`bulk/service.py`) | bulk jobs and rows with leases | `enqueue`, `process_next_bulk_job` | every row is executed once, whoever resumes it; the verdict is that of the rows |
| Image editing (`editing/`) | projects, revisions, layers | create, revise, compose, layer edits | numbers are given once; a revision shows what its parent shows; provenance has a witness |
| Templates and plans (`templates/`) | packs, versions, plans, items | publish, plan item edits | rules of a version never change; presets come together |
| Fashion plans and talent (`fashion/`, `talent/`) | plans, profiles, authorizations | plan creation, authorization checks | a picture of a plan arrives under a current authorization; the compiler accepts what the evidence accepts |
| Administration (`admin/`) | users | `update_user` | the last active administrator goes only by a stale read |
| Authentication (`auth/`) | sessions, login attempts | login, logout, throttle | failures in a window are bounded; a lockout ends |
| Catalog (`catalog/`) | products, references, truth anchors | create, version | anchors are a log that only grows |
| Models and providers (`models/`, `providers/`) | model configurations, prompts of a ComfyUI server | CRUD, `generate` | a key stays readable; an attempt returns its own picture and ends |
| Assets (`assets/`) | content-addressed objects | `put`, `get` | one row per hash; provenance is written once |
| Analytics, benchmark, audit, web UI | none shared | read-only, offline or pure | not modelled |

### How the parts interact

* **API request to worker.** A service inserts a batch and its step, commits and
  then publishes a hint in Redis.  The hint may be lost, delayed or duplicated:
  PostgreSQL is the only source of truth.
* **Worker.** `run_worker` takes a hint, starts `execute_step` as an asyncio task,
  and runs the recovery scan after every hint or every five seconds.  Up to
  `worker_max_concurrency` tasks of each process run interleaved with the tasks
  of other processes.
* **Database.** Every function opens a session of its own.  The engine runs at
  READ COMMITTED, and only `_lease_step`, `review_batch` and the bulk service
  select with a row lock.
  The ORM writes only the columns whose value differs from the loaded one, so
  two late sessions do not overwrite one another's rows: they *merge* them.
* **People.** Review and export read and write the batch status the worker
  writes.  A retry clones a failed or rejected batch.
* **Upstream.** The catalog and the template packs feed the compiler of plans, a
  bulk import calls catalog, compiler and execution for every row, fashion plans
  add the profile of a person whose authorization has an end.

### What is hard here

Unlocked read-modify-write transactions on rows that several processes write;
leases that expire while the provider call they protect still runs; crashes
between the lease and the completion; a step and its batch that are written from
reads made at different moments; retries with a backoff; capacity counted and
then used; version numbers read in one step and taken in another, with only a unique
constraint in between; authorizations that lapse while something waits.
`PROJECT.json` lists each such hazard at its line.

## 2. What is modelled

### `GenerationSteps`

`worker/executor.py` and `worker/recovery.py`, whole, on the rows they write.

| Variable | Code |
|---|---|
| `step`, `batch`, `revision` | the committed rows `generation_steps`, `generation_batches.status`, `edit_revisions.status`; a batch has one step, so both are named by it |
| `lock` | the row lock taken by `FOR UPDATE SKIP LOCKED` or by a flushed UPDATE |
| `pc`, `job`, `attempt`, `retryable` | where an asyncio task is in `execute_step`, its step, the attempt it leased, the argument of `_mark_failed` |
| `session` | the rows the task's open session has loaded |
| `scan` | the rows a recovery session has loaded |
| `stalls`, `faults` | counters that bound the environment |

A transaction that reads and later commits is two actions, so that every other
session can commit in between: `LeaseRead`/`LeaseCommit`,
`MarkFailedRead`/`MarkFailedBatch`/`MarkFailedCommit`, `CompleteRead`/`CompleteFlush`/`CompleteCommit`,
`RecoverRead`/`RecoverCommit`.  `CompleteFlush` exists because reading the batch
(`executor.py:362`) flushes the step: from there on its row is locked, and what
the batch was is only read then.  `Flushed` is the unit of work's rule that an
assignment equal to the loaded value is not sent.  It is why a late session can
leave a row that no single transaction ever wrote, and why several properties
are about coherence of a row.

Abstracted: the wall clock is two facts per step (lease expired or not, backoff
elapsed or not); the outcome of the provider, of validation and of the evidence
checks is a choice; the output is named by the attempt that made it; the asset
rows are left out.  An administrator may disable a model configuration at any
time, so `RefuseDisabled` may answer any claim.

`MCGenerationSteps` gives TLC two workers with one task each.

### `AttemptLedger`

The abstract specification of an attempt: an execution holds a ticket with a
number of its own, and an output is recorded under the number of a held ticket,
which it uses up.  `GenerationSteps` instantiates it (`Ledger`) with `issued` as
the attempt counts, `held` as the tasks between their lease and their end
(`Tickets`) and `output` as the recorded output; `KeepsLedger` says it implements it.

### `WorkerLoop`

`workflow/queue.py`, `worker/main.py` and the publishing half of
`worker/recovery.py`.

| Variable | Code |
|---|---|
| `hints`, `keys`, `redis` | the Redis list, the deduplication keys, whether Redis answers |
| `pc`, `popped`, `running`, `bulk` | where `run_worker` is, the item of `brpop`, the set of tasks by place, as many as `worker_max_concurrency` (an ended task keeps its place until the loop waits), the bulk task |
| `todo`, `pushing` | what a publisher (a loop or the request that made a step) has yet to publish, and the step between its SET NX and its LPUSH |
| `step` | the part of a step's row that decides who finds it |

An execution is two steps here, the lease and the end; that it has many more, and
races with others, is the subject of `GenerationSteps`.  A step whose execution is gone is
`orphaned` (`Orphaned`) until its lease runs out (`BecomesDue`); a lease may also run out under its
execution (`Overrun`), and then a second task executes the step beside the first.  `loop`
justifies what `GenerationSteps` assumes of `Hint`: a claimable step is hinted again
and again.  A row whose lease expires is `due` at once, since
`_lease_step` and the scan both accept it.  Left out: the heartbeat
key, which only the readiness check reads, the exceptions of Redis other than a lost
connection, and a lease refused because the model configuration is
disabled.

Its top-level names begin with `Loop`, and those of `ProductionPlans` with `Plan`, so that one
module of proofs can extend both components of a pair.

### `ReviewExport`

`review/service.py` and `export/service.py`, for the batches of one plan.

| Variable | Code |
|---|---|
| `status`, `decisions`, `exports` | `generation_batches.status`, the rows of `review_decisions` in commit order, the rows of `export_records` with the decision their manifest cites |
| `lock`, `review` | the row lock of `review_batch` and what its session has loaded |
| `export` | an export's session: the statuses it loaded, the batches left, the decision it found |

A review is `ReviewRead` and `ReviewCommit` (or `ReviewFails`) with the row lock
held in between.  An export is `ExportOpen` or `PlanExportOpen`, then `Cite` and
`ExportCommit` for each batch, then for a plan `PlanDelivered`; `ExportFails` ends
it anywhere.  The insert of an export record refers to the batch, so it waits for a
review's lock.  A plan export tests the loaded status again for each batch, but
`expire_on_commit=False` (`db.py`) keeps the row it loaded first.  Abstracted: the
step, its output and the quality verdict, taken as settled once a batch can be
reviewed (section 5 says how a stale scan may unsettle them); an approval
they forbid is a `ReviewFails`; the content of the archive except for the decision it cites.
Decisions are in the order of their commits, while `export/service.py:44` orders them by the start of
their transactions: of two reviews of one batch that overlap, the code may cite the other approval,
and no property tells two approvals apart.

### `BulkImport`

`bulk/service.py` from the claim of a job to its verdict.

| Variable | Code |
|---|---|
| `job`, `row` | the rows of `bulk_jobs` (status, `succeeded_rows`, whether the lease runs) and `bulk_job_rows` (status, `production_plan_id`) |
| `products`, `plans` | the SKUs of the catalog; the plans a row has had made, and whether they have batches |
| `session` | of a worker: where it is, the rows left, the product it found, the plan it made, and the rows its session has loaded (`cache`) |

`Claim`, `Load` and `Start` are the claim under `SKIP LOCKED`, the query for unfinished
rows and the commit that renews the lease.  A row is `Validate`, `SaveProduct`, `MakePlan`,
`RecordPlan`, `FindBatches`, `Execute` and `Settle`, each with the commit of its own that
the code has there, because a crash may fall between any two; `FailRow` is the
`except` clause with its rollback; `Finish` counts the rows *as the session sees them*.
`Seen` and `Flushed` are the identity map and the unit of work, as in
`GenerationSteps`.  The file is its flaws: a row is sound, or fails to validate, to
compile or to be executed.

### `ProductionPlans`

One product and one plan: references (`catalog/service.py`), `templates/compiler.py`,
plan items (`templates/service.py`), and the three ways to a batch (`workflow/service.py`).

| Variable | Code |
|---|---|
| `references` | the product's references, named by their view |
| `plan`, `items` | the plan's mode and its `production_plan_items` |
| `batches` | `generation_batches` in commit order, with the references their snapshot cites and the batch they were cloned from |
| `request` | what a request has read: the item it edits, or the items and references of an execution |

`AddRead`/`AddCommit`, `UpdateRead`/`UpdateCommit` and `DeleteRead`/`DeleteCommit` test "not
executed yet" in the first half; an execution tests it in `ExecuteOpen`, then lists the items
(`ExecuteList`), reads and tests the references (`ExecuteRead`) and commits (`ExecuteCommit`).  At
a commit only the schema speaks: positions are unique in a plan, a batch's `plan_item_id`
is unique and its item must exist.  An item id is a uuid: an item that was deleted stays
`Deleted` and its id is given to no other.  `Complete` is the worker with the part of the quality
run (`Passes`) and the composition (`Composable`) that the plan decides.

### `EditProjects`

One edit project: `editing/service.py` and `editing/evidence.py`.

| Variable | Code |
|---|---|
| `revisions` | `edit_revisions` with the status of their batches and steps |
| `evidence` | `edit_evidence`: the pictures recorded for a revision, and whether they passed |
| `lineage` | `assets.parent_asset_id`; `Absent` while no row has the content's hash |
| `selections`, `layers` | the audited selections; `edit_layers` |
| `request` | the parent's output, the asset found, the number read, the order asked for |
| `execution` | where an execution of a revision's step is and what it has read |
| `scanned` | the revisions whose expired lease a recovery scan has read and not yet committed |
| `disturbed` | history: the revisions whose lease ended under an execution, or whose step a scan took back after it had gone on |

A request is split where it awaits: `BeginRevision` reads the parent, `Rendered` looks up
the content and takes the next version once there is a picture, and `CommitComposition`,
`CommitRevision` or `CommitSelection` writes.

The worker's answer to a revision is here too, since it writes what later revisions are made from,
and it overlaps with other answers as in `GenerationSteps`: `Lease` and `RefuseDisabled` are
`_lease_step`; `CompleteRead`, `CompleteLook` and `CompleteCommit` the unlocked test of the step, the
search of the asset and the commit of `execute_step`; `FailRead` and `FailCommit` the same two halves
of `_mark_failed`; `Stop` is a crash or an exception, `LeaseExpires` may come under a live execution,
and `RecoverRead`, `RecoverCommit` and `RecoverEnd` are the scan.  So two executions may complete
one revision, and a late one may fail a revision that was ready.  A commit is one action here
(`GenerationSteps` has its flush apart): the flush of the step locks its row before the revision is
read.

A reordering is two
renumberings row by row (`Phases`); `Clash` is the unique constraint each UPDATE meets.  A
deleted layer, like a deleted plan item, leaves its id behind as `Deleted`.

### `FashionPlans`

`talent/service.py`, `fashion/compiler.py`, `fashion/service.py`, `fashion/evidence.py`, the
authorization test of `worker/executor.py` and `clone_batch` on a fashion batch.  `today` is a
day; `profiles`, `modelViews` and `productViews` are the profiles and the views that have
references; `batches` carry what their snapshot says (`cited`, `models`, `inferred`), the profile
they name and the day they were `delivered`.  `person` is a history variable: whose
references a batch has, also when a clone no longer names the profile.  `is_active` of a profile is
left out, since nothing sets it to false.

### `Accounts`

`auth/router.py`, `auth/throttle.py`, `auth/dependencies.py` and `admin/service.py`.  A login is
`Login` (the counter is read), `Authenticate`, then `LoginFails` or `LoginSucceeds` (it is
written); an update of a user is `Admit` (the row of the actor is loaded), `UpdateRead` (the row of
the user), `CountAdmins` if it takes an administrator away, and `UpdateCommit`.  `failures` and `ttl` are the
key in Redis and its time to live in ticks; while `redis` is down every login passes and no
failure is counted.  A token that has not expired is an element of `tokens`; what its owner may
do is read from `users` each time.

### `Providers`

`models/service.py` and `models/secrets.py` on one configuration (`row`, with the key and the
pair it was encrypted for), and `providers/registry.py`, `generic_http.py` and `comfyui.py`
for the attempts of one step (`call`, `attempts`, `results`).  `server` is the ComfyUI server,
which runs a prompt to its end whether or not anybody waits; it is external and modelled
from the requests `comfyui.py` makes.  An attempt starts when no other is in flight; after an overrun
two may overlap, and they share nothing, since the prompt is a local variable of the call
(`comfyui.py:88`).  `CallsEnd` says that a call ends and not when: there are twice as many polls as
the timeout has seconds, and each may take the timeout (`comfyui.py:90`).

### `VersionLog` and `Catalog`

`Catalog` is `catalog/service.py` and the first half of `templates/service.py`: products,
references, truth anchors, packs, versions, publication and the seeding of presets.  Every
operation that reads a number or a condition and writes later is a `Read` and a `Commit`.
`VersionLog` is what numbered versions promise: a log for every thing that only grows, at its
end.  `Catalog` implements it twice, with the anchors of products and with the rules of pack
versions (`AnchorsAreLogs`, `RulesAreLogs`).

## 3. What the runs check

| Run | Question | Result |
|---|---|---|
| `races` | one step, two workers, one overrun lease, one crash or exception: are rows coherent (`LeaseMatchesStatus`), are attempts counted once (`AttemptsAreCounted`), are leases only taken over claimable rows (`LeaseOnlyClaimable`), does it all implement `AttemptLedger` (`KeepsLedger`), do attempts stay within `max_attempts` and what failures and overruns cost (`AttemptsWithinLimit`), and does the step end for good (`StepsFinish`)? | holds |
| `quiet` | two steps, a provider limit of one, no crash and no overrun lease: single execution, batch follows step, completed stays completed, every step settles | holds |
| `loop` | two loops, one step, and a retry, an exception, a crash, an outage of Redis or a lease that ends under its execution: does a key that suppresses a publication vouch for a hint (`KeyVouchesForHint`), does every lease keep an execution when tasks are dropped and loops end (`LeasesHaveExecutions`), is a committed step executed to its end while a loop is left (`EveryStepEnds`)? | holds |
| `review_export` | two reviewers, two exports, two batches: is the status the last decision's outcome (`StatusFollowsDecisions`), does every export cite an approval (`CitesApproval`), is an exported batch final (`ExportIsFinal`)? | holds |
| `bulk` | two workers, three jobs that share products, a crash between any two commits: is one plan at most executed for a row (`OneExecutedPlan`), does a queued row name it (`QueuedRowsHaveBatches`), is the verdict that of the rows (`VerdictIsTrue`), does a sound row fail only for the product of another job (`RowsFailForCause`), are results kept (`ResultsStay`) and jobs finished (`JobsFinish`)? | holds |
| `plans` | two requests edit and execute one plan: is it executed by one execution (`OneExecution`), does every strict side or back view, in plan, single or copy, cite a reference of it (`StrictViewsAreCited`)? | holds |
| `edits` | two requests on one project and two executions, which overlap: are versions and positions given once (`NumbersAreGivenOnce`), was a revision made from the one picture with which its parent passed (`SourceIsParentsOutput`), has each recorded parent a witness (`LineageIsWitnessed`), can every list of all layers be carried out (`ReordersFit`), does a settled revision stay until its lease is overrun, and is a picture only ever replaced with a failure (`ReadyRevisionsStay`)? | holds |
| `fashion` | days pass between plan, test, call and delivery: does a picture of a plan arrive under an authorization (`DeliveredUnderAuthorization`), does what the compiler accepts satisfy the evidence (`CompiledIsProvable`)? | holds |
| `copied_person` | the same for copies: a picture made from a person's references arrives under an authorization (`PeopleAreAuthorized`); `RESPONSIBLE_USE.md:8` asks for it | violated: a copy names no profile, so neither the worker nor the evidence tests it |
| `accounts` | logins and administration in flight together, an outage: are failures bounded (`FailuresBounded`), is the last administrator lost by a stale read only (`LastAdminOnlyByRace`), does a lockout end (`LockoutEnds`)? | holds |
| `providers` | two administrators change a configuration while attempts use it: is the key lost by a stale commit only (`KeyLostOnlyByRace`), is a picture of its own attempt (`ResultsAreOwn`), do calls end (`CallsEnd`)? | holds |
| `versions` | two requests, two products, two presets: are anchors and pack versions logs (`AnchorsAreLogs`, `RulesAreLogs`), do presets come together (`SeedIsWhole`)? | holds |

`LastAdminOnlyByRace` and `KeyLostOnlyByRace` state the exact exception: the bad step exists
(two administrators who demote one another, or change provider and key at once), and it is
always the commit of a request that had read something else.  `FailuresBounded` likewise
counts the logins in flight, since the throttle reads before the slow password test and
counts after it.

### Bounds

All bounds are constants, named in the modules.

* `GenerationSteps`: two tasks in two processes are the smallest instance in which a late
  session meets a successor; a third task would repeat the part of one of them, since each
  session relates to the committed row and to no other session.  `MaxStalls = 1` gives one overlap
  of two executions and `MaxFaults = 1` one crash or exception, at any point; two attempts
  are the smallest number at which a retryable failure is once retried and once final.
  `quiet` has two steps because the capacity and provider limits relate steps.
* `WorkerLoop`: one fault of any kind (`MaxFaults`), at any point, is followed by everything that
  can follow it; `MaxHints = 1` lets a key expire only while no hint of its step waits; one place per
  loop, so that a raised exception ends it while the other loop goes on.
* `ReviewExport`: three decisions let a batch be approved, rejected and approved again; two
  batches make a plan in which one is exported before the other.
* `BulkImport`: three jobs of six rows have a repeated SKU in one job, a SKU shared by two
  jobs, every flaw, and a dry run with a valid and an invalid row; `MaxCrashes = 1` falls at every
  point of every row.  `MaxOverruns = 0`: a job is taken over only from a dead worker
  (section 5 says what a takeover from a living one does).
* `ProductionPlans`: a platform of three slots of which the category has two, one with a
  strict side view; two edits beside an execution of either request, and two batches: a plan's
  or a single one with a copy.
* `EditProjects`: `MaxRequests = 4` counts requests and leases, two of each at a time: a chain of
  revisions and a race for a version, or a revision with two overlapping executions and one that
  begins from it between their commits, over three pictures of which two may be the same; three
  layers are the fewest that are permuted while one is added or deleted.  Expiry and scans are not
  counted.
* `FashionPlans`: three days put the end of an authorization before, at and after each step; two
  batches are a plan of two outputs, or a batch and its copy.
* `Accounts`: two users are the fewest that can demote one another; two attempts and a window
  of two ticks have a count below, at and beyond the limit.
* `Providers`: two attempts let an answer to the first arrive in the second; two polls give an
  answer in time and one too late; two updates are a race.
* `Catalog`: two requests race for one number; two versions make a first and a successor; both
  slugs are presets and may be taken by a user.

Permuting requests is a symmetry of `plans`, `edits`, `versions` and `review_export`, which
check safety only.  Deadlock is not checked: when every step is terminal or every request
answered, the system is done.

### Fairness

`GenerationSteps!FairSpec` assumes weak fairness of every task's next step (the event loop
runs its tasks, and every provider adapter has a timeout), of the recovery scan (it runs after
every hint or every five seconds), of time, and of `Hint`: the scan publishes a hint for every
due step, so a claimable step is tried again and again.  Nothing is assumed about a hint
published by a service.

`WorkerLoop!FairSpec` lets the loops, their tasks, the expiry of keys, backoffs and the leases of
ended executions, and the return of Redis go on.  It assumes nothing of requests, and of nobody that
he starts a worker again: `docker-compose.yml` declares no restart policy.  `EveryStepEnds`
therefore excuses a step when every loop has ended, and only then.

`BulkImport!Spec` lets workers go on and leases of dead workers end; `Accounts!Spec` lets the
counter in Redis run out; `Providers!Spec` lets a call proceed, since every HTTP request has a
timeout, and lets the server hang for ever.  The other modules check safety and assume
nothing.

## 4. What is proved

Each theorem holds for any constants that satisfy the module's named assumptions, and none assumes
anything of the environment.  Crashes or exceptions, and leases that end under a live execution, are
steps of `GenerationSteps`, `WorkerLoop`, `EditProjects` and `BulkImport`, as many as the constants
allow; the other modules have no leases, and a request of theirs may break off at any point.

Some promises do not survive an overrun, and are stated up to that moment: three about `GenerationSteps`
until the first failure or overrun (`Undisturbed`: no lease has expired under its execution, no
worker has crashed and no exception was raised outside the handled part of a task), the uniqueness
of an execution in `WorkerLoop` until an overrun, the immutability of a settled revision in
`EditProjects` until its own lease is overrun (`disturbed`), and those about `BulkImport` until a lease ends under a worker that still runs (`OnTime`; crashes they survive).
The documents promise them always, and section 5 says how they break afterwards.  `OnTime` is part
of `ResultsStay`; the four invariants of `bulk` are checked with no overrun, where it is true.

| Module | Theorems |
|---|---|
| `GenerationSteps_proofs` | `TypeCorrect`, `LeasesCorrect` (`LeaseMatchesStatus`), `AttemptsCorrect` (`AttemptsAreCounted`), `LeasesExclusive` (`Spec => LeaseOnlyClaimable`), `LedgerKept` (`Spec => KeepsLedger`, a refinement), `AttemptsLimited` (`AttemptsWithinLimit`); until the first failure or overrun: `ExecutionsExclusive` (`SingleExecution`), `BatchesFollow` (`BatchFollowsStep`), `CompletionIsFinal` (`Spec => CompletedStaysCompleted`) |
| `Worker_proofs` (`WorkerLoop`) | `LoopTypeCorrect`, `LeasesExecuted` (`LeasesHaveExecutions`), `KeysVouch` (`KeyVouchesForHint`) |
| `Worker_proofs` (`Providers`) | `CallTypeCorrect`, `OwnResults` (`ResultsAreOwn`), `KeysKept` (`Spec => KeyLostOnlyByRace`) |
| `ReviewExport_proofs` | `TypeCorrect`, `StatusCorrect` (`StatusFollowsDecisions`), `CitationCorrect` (`CitesApproval`), `ExportFinal` (`Spec => ExportIsFinal`) |
| `Production_proofs` (`BulkImport`) | `TypeCorrect`; until the first overrun: `PlansExecutedOnce` (`OneExecutedPlan`), `QueuedCorrect` (`QueuedRowsHaveBatches`), `VerdictCorrect` (`VerdictIsTrue`), `FailuresCorrect` (`RowsFailForCause`), `ResultsFinal` (`Spec => ResultsStay`) |
| `Production_proofs` (`ProductionPlans`) | `PlanTypeCorrect`, `ExecutedOnce` (`OneExecution`), `StrictCited` (`StrictViewsAreCited`) |
| `EditProjects_proofs` | `TypeCorrect`, `NumbersOnce` (`NumbersAreGivenOnce`), `SourcesCorrect` (`SourceIsParentsOutput`), `LineageCorrect` (`LineageIsWitnessed`), `ReordersCorrect` (`ReordersFit`), `SettledRevisionsStay` (`Spec => ReadyRevisionsStay`) |
| `FashionPlans_proofs` | `TypeCorrect`, `Authorized` (`DeliveredUnderAuthorization`), `Provable` (`CompiledIsProvable`), `StrictShown` (`StrictShowsTheView`) |
| `Accounts_proofs` | `TypeCorrect`, `LastAdminStays` (`Spec => LastAdminOnlyByRace`), `FailuresLimited` (`FailuresBounded`) |
| `Catalog_proofs` | `TypeCorrect`, `AnalysesCorrect` (`AnalysesShowReferences`), `SeedCorrect` (`SeedIsWhole`), `AnchorsLogged` and `RulesLogged` (`Spec => AnchorsAreLogs`, `Spec => RulesAreLogs`, refinements) |

The arguments:

* **Leases.** `LeaseMatchesStatus` is not inductive: a completing session writes the status and
  clears the lease columns only where they differ from what it *loaded*.  `Inv` adds that every
  session has loaded a coherent row (`SessionInv`, `ScanInv`), of the status its guard tested;
  that a leasing session holds the row lock (`LockInv`) and hence has loaded what is committed, up
  to the clock (`LeasingInv`); and that a leased step never becomes `queued` again
  (`LeftQueue`), without which a stale failure could leave a waiting row with a lease.
  `RowsCohere` carries the argument: a flush over a coherent row from a coherent loaded row
  of the right status leaves a coherent row.  `InvStep` has one case per action, most of them
  through `FrameStep`.
* **Ledger.** `LedgerKept` needs `OutputInv` besides: a recorded output has a number that was
  counted, and no execution that goes on has it, neither by the row nor by what it has loaded;
  every session that writes a row without a ticket leaves the two columns of the ledger alone
  (`LedgerColumns`), and every end of a task retires tickets (`RetireStep`).
* **Until the first failure.** `QuietInv` is what the code relies on and never checks: every session has
  loaded the rows as they are (`TaskQuiet`), although it holds no lock between its read and its
  commit; the row of a step is leased exactly while a task executes it, waits only with attempts
  left (`RowQuiet`), and batch and revision follow it (`Follows`).  The circle closes by
  `OneTaskPerStep`: a lease is taken under the lock of a row that waits, so its step has no
  execution, and as no other session writes the row, what was loaded stays what is.  It lasts
  while the step that is taken counts no failure and no overrun (`QuietStep`, `NoDisturbance`), and
  neither is ever uncounted (`DisturbedForGood`).
* **Attempts.** Four events can raise an attempt counter again: a hint for a waiting step, a retry, a
  takeover of an expired lease, and a recovery session that commits late.  `Potential` adds to the
  counter what they can still cost: one for a waiting row; one for each execution below the limit
  (`Early`); one for each recovery session that has seen the step (`Scanning`); and, once the lease
  is out or its execution gone, one takeover and one recovery for every worker that has not
  scanned (`Takeovers`).  No action raises it but a failure or an overrun, each by at most one
  more than there are workers (`OwedShrinks`, `OwedLeased`, `OwedScanned`, `BudgetKept`).
  `MarkingInv` is needed for the late failure: its session may find the step back in the queue,
  and then it must write nothing that counts.  The bound is not slack: in the instance of `races`
  TLC violates it with one attempt, or only one per worker, for each failure.
* **Worker loop.** A leased step has an execution whatever happens: the lease and its task begin
  together, and whatever ends the task orphans the step.  `SoleExecutions` adds that until an overrun
  what is executed is leased and no step has two executions; the two need each other, since the end
  of one of two would leave the other without a lease.  For the keys, `Vouched` adds that Redis answers unless it had an outage, and
  `LoopTyped` that the loop holds a hint exactly between its two commands, so that a pop loses
  none; `PushedWaits` and `PoppedWaits` say what the list holds after a push and a pop.
* **Review and export.** `ReviewInv`: a review in its transaction owns its row and the row is as
  it was loaded, without which the omission of unchanged columns could leave a status that no
  decision made.  `CiteInv`: the decision an export found is still an approval when it commits,
  since decisions are only appended.
* **Bulk import.** `Owner` and `Apart`: a working session holds the lease of its job, so no other
  has that job.  Hence `Fresh`: what it has loaded of the job's rows is what they are, and a commit
  writes what it means to write, although only changed columns are written; `Placed`: the
  unsettled rows of its job are the one it is at and those it will come to, so at the end none is
  left and it counts the rows as they are.  `Named`: a plan is executed only after its row names
  it and a row never names another plan, so a plan that was lost in a crash before it was
  recorded is never executed.  `InvStep` has one lemma per action; those of a row go through `RowTurn`.
  All of it holds until the first overrun, which is for good (`LateForGood`); types alone are proved
  beyond it (`ImportTyped`).
* **Production plans.** Two executions may have loaded different items, since items come and go
  between their reads, and the unique `plan_item_id` refuses the second only if they share one.
  They do: `Nested` says that of two executions whose items all still exist one has loaded what
  the other has.  `Loaded` carries the rest: once the plan has batches, an execution that has listed
  its items has loaded nothing, an item that is gone, or one that has a batch; one that lists them only
  then loads an item of a batch, since items with batches cannot be deleted.  `Tested` rows are
  truthful, so what was tested at the read is what is in the snapshot, whatever was edited since.
* **Edits.** A ready revision need not stay ready, so what a request has read is not what is still
  there.  `Examined` says what is: a revision passes with one picture at most, and one that passed
  has an output, so that no later execution can pass (`immutable_derivation`).  Hence `Asked`: the
  picture a request started from is for good the one with which its parent passed, and the version
  it looked up is at most the next one, so that if no row has it it is the next one.  `Started` says
  of an execution that it has a step and, to record, a picture; `WorkStep` is the frame of every step
  that leaves passed pictures alone.  `Calm` is what holds of a revision that was not disturbed: its
  step runs with one execution, which has read it so, or it has none; so the settled are left
  alone.  `Places` gives layers a highest position; a reordering is settled by the negative positions
  of its first phase, which no row of the project has.
* **Fashion plans.** `Sound` says of every batch that what its snapshot holds was compiled: it
  is a fact about the batch alone, so references and days that come later cannot break it, and a
  clone has it from its source.  `StrictShown` is its consequence for strict pictures.
* **Accounts.** `LeavesOne`: an update that takes an administrator away has counted another; the rest is that nothing but an update removes an administrator.  `ThrottleInv`
  counts failures and logins in flight together: a login is let in below the limit, so both exceed
  it by at most the requests served at once, and once more for each outage of Redis.
* **Providers.** `OwnPrompt`: a call that has a prompt has the one of its own attempt, and later
  attempts post later prompts.  `ReadRows`: a request has read a row whose key was readable; so
  a commit over the row it has read leaves a readable key.
* **Catalog.** `Held`: what a request has read stays true, because everything it can have read
  (existing packs, references, the newest number, a version's rules) only grows; a number held is at
  most the next one, so the unique constraint either refuses it or it is the next one.  The two
  refinements then map every commit to `Add` or `Found` of the log, or to a stutter.

Two inductions are over data: the least element of a set of numbers (`LeastIsMember`) and the
greatest of a finite set (`FiniteIsBounded`, `MaxIsMember`).  Both go through `WFMin` of
`WellFoundedInduction`, on the numbers and on the strict subsets of a finite set, because it takes
no operator as a parameter.

Three proofs that failed corrected a model:

* `OneExecution` was not inductive: ids of deleted items were given again, and an execution could
  commit items that were not those it had loaded.  TLC agreed on an instance of three edits and three
  requests, larger than that of `plans`.  An id is a uuid, so the model was wrong and not the
  code: `ProductionPlans` and `EditProjects` now keep deleted ids, and the larger instance holds.
* `Derived` of `EditProjects` was a `CASE` with overlapping arms, of which TLC takes the first and
  a proof may take neither.
* `MaxAttempts # 0` and the finiteness of `Requests`, `Workers` and `Tasks` were missing: the first is
  `ge=1` of `worker_max_attempts` in `config.py`, the others that a server has finitely many requests
  at once and a system finitely many processes, each with a fixed number of places for tasks.

### Only model-checked

Liveness (`StepsFinish`, `EventuallySettled`, `EveryStepEnds`, `JobsFinish`, `LockoutEnds`,
`CallsEnd`): the prover has no support for fairness.  Every safety property of a passing run is a
theorem; where `TypeOK` is one, no run repeats it.  The violated `PeopleAreAuthorized` of
`copied_person` is TLC's alone.

## 5. Seen while modelling, and not kept as runs

Each was confirmed by a counterexample of an earlier run or follows from the named lines.

* The scan reads without a lock and commits later (`worker/recovery.py:43`), so it may take back a
  lease that was granted meanwhile, although "恢复扫描只发布到期且未被有效租约占用的任务"
  (`docs/superpowers/specs/2026-08-20-product-hardening-design.md:42`); and it or a stale failure may
  overwrite a success, although "重复投递不会重复执行已完成任务" (`README.md:125`).
* An attempt that ends in a crash is counted and never limited: `attempt_count` is compared in
  `_mark_failed` only ("超过上限进入失败终态", the same design, line 42).  `AttemptsLimited` says
  how far it can go beyond the limit: one takeover and one late recovery per worker for each failure.
* Two workers count the executions before either leases, so both limits can be exceeded
  (`docs/superpowers/plans/2026-08-17-m5-production-scale.md:28`;
  `specs/2026-08-17-ecommerce-ai-image-platform-design.md:404`).
* After a crash a step may end while its batch stays `running` or `retry_queued`, which can neither
  be reviewed nor retried ("租约过期时任务不丢失", the platform design, line 366).
* A Redis outage ends the worker loop (`worker/main.py:49`), and `docker-compose.yml` starts none
  again: until somebody does, nothing recovers from PostgreSQL, although "Redis 短暂不可用时，恢复扫描仍可从
  PostgreSQL 找回任务" (`README.md:125`) states no such condition.
* Revisions are "immutable" and never overwrite an asset
  (`docs/superpowers/plans/2026-08-17-m4-single-image-editor.md:3` and `:7`), yet once a lease
  ends under its execution a ready revision may be marked failed (`worker/executor.py:266`) or given
  a second picture, which fails (`:379-380`), while other revisions were made from the first.
* A provider that gives back the picture a project starts from gives that asset a parent, which is
  its own descendant (`worker/executor.py:338-341`): the recorded provenance may be a cycle,
  although each link of it was made.
* A rejection between an export's test and its commit is overwritten by `exported`
  (the platform design, line 95); a plan export tests every status once and delivers a batch that is
  rejected while the others are exported (`export/service.py:189-208`).
* A bulk job whose lease ends under a living worker is processed by two: one row may have two
  executed plans, both may fail one another's row, and what the first had queued is reported as
  failed (`README.md:33`, `apps/web/PRODUCT.md:55`).
* Retrying a rejected batch makes one that belongs to no plan, so its plan can never be exported
  whole (`workflow/service.py:243`).
* A deduplication key may expire before its hint is consumed, so that hints of one step pile up;
  the heartbeat of a worker whose places are all taken may expire (`worker/main.py:41-46`).
* The workers take batch transitions that `ALLOWED_TRANSITIONS` (`workflow/state.py:32`) does
  not have: no service calls `transition_batch`.
* The idempotency key of a batch hashes snapshot, model and prompt, and neither view nor size
  (`workflow/service.py:78`): a second single batch that differs in those alone is refused.
* An archived product still takes references (`catalog/service.py`).

## 6. What is not modelled, and why

* **Analytics** (`analytics/`): read-only aggregates over committed rows.  **Audit**: an insert in
  the caller's transaction.  **Benchmark**: an offline, sequential tool.
* **Pixels**: composition, fonts, masks, colour and the parts of the quality rules that measure a
  picture are pure functions of data TLC cannot enumerate; their verdict is a choice.  The masks
  `create_ai_revision` makes itself are left out with them.
* **Bytes**: the object store, spreadsheets, cookies, signatures, password hashing and the HTTP of the
  generic provider.  A call is a choice of outcomes, a file its flaws.
* **Wording**: prompts, brand rules, the text of anchors, idempotency keys, labels.
* **A review inside `FashionPlans`**: what is rejected and retried is a duplicate there.
* **Web UI, migrations, configuration, deployment**: they keep no state of the system beyond
  what the models assume of it (isolation level, `expire_on_commit`, constraints, restarts).

## 7. Plan

In this order:

* A composition of `ReviewExport` with `ProductionPlans`, in which a retried batch leaves its plan.
* `BulkImport` with overruns, as an implementation of "every row is queued or failed once" under a
  lease that is checked at each commit, beside the one the code has.
