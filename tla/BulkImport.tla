----------------------------- MODULE BulkImport -----------------------------
(***************************************************************************)
(* Bulk import: bulk/service.py.  A file becomes a job and its rows; a     *)
(* worker claims a job under a lease and takes its rows one by one: it     *)
(* creates the product, compiles a production plan, executes the plan and  *)
(* records each of these in a commit of its own, so that a worker that     *)
(* takes the job over can resume.                                          *)
(*                                                                         *)
(* A session keeps the rows it has loaded (db.py sets expire_on_commit to  *)
(* False): it writes a column only where its new value differs from the    *)
(* one it loaded, and only a rollback makes it read a row again.           *)
(***************************************************************************)
EXTENDS Naturals, Sequences, FiniteSets

CONSTANTS
  Jobs,         \* jobs, in the order of created_at
  Rows,         \* rows of all jobs, in the order of row_number
  JobOf,        \* the job of a row
  Sku,          \* the product a row names
  DryRuns,      \* the jobs that only validate
  Flaw,         \* what is wrong with a row, "none" for a sound one
  Workers,
  NoPlan,       \* production_plan_id is NULL
  MaxPlans,     \* bound: plans ever created
  MaxCrashes,   \* bound: workers that die
  MaxOverruns   \* bound: leases that end under a worker that still runs

Flaws == {"none", "invalid", "uncompilable", "unexecutable"}

ASSUME ImportAssumption ==
  /\ Jobs \subseteq Nat /\ Rows \subseteq Nat
  /\ IsFiniteSet(Rows)
  /\ JobOf \in [Rows -> Jobs] /\ DOMAIN Sku = Rows
  /\ DryRuns \subseteq Jobs
  /\ Flaw \in [Rows -> Flaws]
  /\ NoPlan \notin Nat
  /\ {MaxPlans, MaxCrashes, MaxOverruns} \subseteq Nat

VARIABLES
  products,  \* SKUs in the catalog
  job,       \* bulk_jobs: status, succeeded_rows, and whether the lease still runs
  row,       \* bulk_job_rows: status and production_plan_id
  plans,     \* production plans by id: the row each was made for, and whether it has batches
  session,   \* of a worker: where it is, its job, the rows left, its row, what it loaded
  crashes, overruns

vars == <<products, job, row, plans, session, crashes, overruns>>

RowStatus == {"pending", "processing", "valid", "invalid", "queued", "failed"}
JobStatus == {"pending", "processing", "validated", "validation_failed",
              "queued", "partially_queued", "failed"}
Good == {"valid", "queued"}
RowRecord == [status : RowStatus, plan : Nat \union {NoPlan}]
NotLoaded == [status |-> "pending", plan |-> "not loaded"]
Idle == [pc |-> "idle", job |-> 0, todo |-> {}, row |-> 0, known |-> FALSE, made |-> NoPlan,
         cache |-> [r \in Rows |-> NotLoaded]]

Session ==
  [pc : {"idle", "load", "next", "validate", "product", "plan", "record", "find", "execute", "settle"},
   job : Jobs \union {0}, todo : SUBSET Rows, row : Rows \union {0}, known : BOOLEAN,
   made : Nat \union {NoPlan}, cache : [Rows -> RowRecord \union {NotLoaded}]]

RowsOf(j) == {r \in Rows : JobOf[r] = j}
Least(S) == CHOOSE r \in S : \A q \in S : r <= q

\* enqueue_bulk_job commits the job and its rows together.
Init ==
  /\ products = {}
  /\ job = [j \in Jobs |-> [status |-> "pending", succeeded |-> 0, leased |-> FALSE]]
  /\ row = [r \in Rows |-> [status |-> "pending", plan |-> NoPlan]]
  /\ plans = <<>>
  /\ session = [w \in Workers |-> Idle]
  /\ crashes = 0
  /\ overruns = 0

Become(w, changed) == session' = [session EXCEPT ![w] = changed]
At(w, pc) == session[w].pc = pc

\* What the session sees of a row, and the row after it has flushed new over that.
Seen(w, r) == IF session[w].cache[r] = NotLoaded THEN row[r] ELSE session[w].cache[r]
Flushed(r, seen, new) ==
  [status |-> IF new.status = seen.status THEN row[r].status ELSE new.status,
   plan |-> IF new.plan = seen.plan THEN row[r].plan ELSE new.plan]

\* The session of w commits new for row r and goes on at pc.
Commit(w, r, new, pc) ==
  /\ row' = [row EXCEPT ![r] = Flushed(r, Seen(w, r), new)]
  /\ Become(w, [session[w] EXCEPT !.pc = pc, !.row = r, !.cache[r] = new])

-----------------------------------------------------------------------------
(* Claiming a job.                                                         *)

\* Mutant: a job whose owner died is not taken over.
ClaimablePending == {j \in Jobs : job[j].status = "pending"}

Claimable == {j \in Jobs : \/ job[j].status = "pending"
                           \/ job[j].status = "processing" /\ ~job[j].leased}

Claim(w) ==
  /\ At(w, "idle")
  /\ Claimable # {}
  /\ LET j == Least(Claimable)
     IN /\ job' = [job EXCEPT ![j].status = "processing", ![j].leased = TRUE]
        /\ Become(w, [Idle EXCEPT !.pc = "load", !.job = j])
  /\ UNCHANGED <<products, row, plans, crashes, overruns>>

\* Mutant: the rows a dead worker was at are left alone.
UnfinishedPending(j) == {r \in RowsOf(j) : row[r].status = "pending"}

\* Mutant: a takeover begins the job again.
UnfinishedAll(j) == RowsOf(j)

Unfinished(j) == {r \in RowsOf(j) : row[r].status \in {"pending", "processing"}}

Load(w) ==
  /\ At(w, "load")
  /\ LET todo == Unfinished(session[w].job)
     IN Become(w, [session[w] EXCEPT !.pc = "next", !.todo = todo,
                     !.cache = [r \in Rows |-> IF r \in todo THEN row[r] ELSE NotLoaded]])
  /\ UNCHANGED <<products, job, row, plans, crashes, overruns>>

Start(w) ==
  LET r == Least(session[w].todo) IN
  /\ At(w, "next")
  /\ session[w].todo # {}
  /\ row' = [row EXCEPT ![r] = Flushed(r, Seen(w, r), [Seen(w, r) EXCEPT !.status = "processing"])]
  /\ Become(w, [session[w] EXCEPT !.pc = "validate", !.row = r, !.todo = @ \ {r},
                  !.cache[r] = [Seen(w, r) EXCEPT !.status = "processing"]])
  /\ job' = [job EXCEPT ![session[w].job].leased = TRUE]
  /\ UNCHANGED <<products, plans, crashes, overruns>>

-----------------------------------------------------------------------------
(* One row: _process_queued_row.                                           *)

\* The except clause: roll back, read the row again, record the failure.
FailRow(w) ==
  LET r == session[w].row
      new == [row[r] EXCEPT !.status = IF session[w].job \in DryRuns THEN "invalid" ELSE "failed"]
  IN /\ row' = [row EXCEPT ![r] = new]
     /\ Become(w, [session[w] EXCEPT !.pc = "next",
                     !.cache = [q \in Rows |-> IF q = r THEN new ELSE NotLoaded]])
     /\ UNCHANGED <<products, job, plans, crashes, overruns>>

\* Mutant: the product is looked up by its raw SKU and never found.
KnownNever(r) == FALSE

Known(r) == Sku[r] \in products

Validate(w) ==
  LET r == session[w].row IN
  /\ At(w, "validate")
  /\ \/ Flaw[r] = "invalid" /\ FailRow(w)
     \/ /\ Flaw[r] # "invalid"
        /\ IF session[w].job \in DryRuns
           THEN Commit(w, r, [Seen(w, r) EXCEPT !.status = "valid"], "next")
           ELSE /\ Become(w, [session[w] EXCEPT !.pc = "product", !.known = Known(r)])
                /\ UNCHANGED row
        /\ UNCHANGED <<products, job, plans, crashes, overruns>>

\* Product.sku is unique: the second insert fails, and the row with it.
SaveProduct(w) ==
  LET r == session[w].row IN
  /\ At(w, "product")
  /\ \/ ~session[w].known /\ Sku[r] \in products /\ FailRow(w)
     \/ /\ session[w].known \/ Sku[r] \notin products
        /\ products' = products \union {Sku[r]}
        /\ Become(w, [session[w] EXCEPT !.pc = "plan"])
        /\ UNCHANGED <<job, row, plans, crashes, overruns>>

\* Mutant: a plan made before a crash is not looked for.
NeedsPlanAlways(w) == TRUE

NeedsPlan(w) == Seen(w, session[w].row).plan = NoPlan

MakePlan(w) ==
  LET r == session[w].row
      p == Len(plans) + 1
  IN
  /\ At(w, "plan")
  /\ \/ NeedsPlan(w) /\ Flaw[r] = "uncompilable" /\ FailRow(w)
     \/ /\ NeedsPlan(w)
        /\ Flaw[r] # "uncompilable"
        /\ p <= MaxPlans
        /\ plans' = Append(plans, [row |-> r, executed |-> FALSE])
        /\ Become(w, [session[w] EXCEPT !.pc = "record", !.made = p])
        /\ UNCHANGED <<products, job, row, crashes, overruns>>
     \/ /\ ~NeedsPlan(w)
        /\ Become(w, [session[w] EXCEPT !.pc = "find"])
        /\ UNCHANGED <<products, job, row, plans, crashes, overruns>>

RecordPlan(w) ==
  LET r == session[w].row IN
  /\ At(w, "record")
  /\ Commit(w, r, [Seen(w, r) EXCEPT !.plan = session[w].made], "find")
  /\ UNCHANGED <<products, job, plans, crashes, overruns>>

Executed(p) == p \in DOMAIN plans /\ plans[p].executed

\* Mutant: a plan that was recorded is taken for executed.
FindBatchesAssumed(w) ==
  /\ At(w, "find")
  /\ Become(w, [session[w] EXCEPT
       !.pc = IF session[w].made = NoPlan THEN "settle" ELSE "execute"])
  /\ UNCHANGED <<products, job, row, plans, crashes, overruns>>

FindBatches(w) ==
  /\ At(w, "find")
  /\ Become(w, [session[w] EXCEPT
       !.pc = IF Executed(Seen(w, session[w].row).plan) THEN "settle" ELSE "execute"])
  /\ UNCHANGED <<products, job, row, plans, crashes, overruns>>

\* execute_production_plan refuses a plan that has batches; where two get past
\* that test the idempotency keys of their steps collide.
Execute(w) ==
  LET p == Seen(w, session[w].row).plan IN
  /\ At(w, "execute")
  /\ \/ (Executed(p) \/ Flaw[session[w].row] = "unexecutable") /\ FailRow(w)
     \/ /\ ~Executed(p)
        /\ Flaw[session[w].row] # "unexecutable"
        /\ plans' = [plans EXCEPT ![p].executed = TRUE]
        /\ Become(w, [session[w] EXCEPT !.pc = "settle"])
        /\ UNCHANGED <<products, job, row, crashes, overruns>>

\* batch_ids and the status, in one commit.
Settle(w) ==
  LET r == session[w].row IN
  /\ At(w, "settle")
  /\ Commit(w, r, [Seen(w, r) EXCEPT !.status = "queued"], "next")
  /\ UNCHANGED <<products, job, plans, crashes, overruns>>

-----------------------------------------------------------------------------
(* The verdict on the job.                                                 *)

Verdict(dry, total, succeeded) ==
  IF dry THEN IF succeeded = total THEN "validated" ELSE "validation_failed"
  ELSE IF succeeded = total THEN "queued"
  ELSE IF succeeded > 0 THEN "partially_queued" ELSE "failed"

Succeeded(status) == Cardinality({r \in DOMAIN status : status[r] \in Good})

Finish(w) ==
  LET j == session[w].job
      n == Succeeded([r \in RowsOf(j) |-> Seen(w, r).status])
  IN
  /\ At(w, "next")
  /\ session[w].todo = {}
  /\ job' = [job EXCEPT ![j] = [status |-> Verdict(j \in DryRuns, Cardinality(RowsOf(j)), n),
                                succeeded |-> n, leased |-> FALSE]]
  /\ Become(w, Idle)
  /\ UNCHANGED <<products, row, plans, crashes, overruns>>

-----------------------------------------------------------------------------
(* Faults.                                                                 *)

\* The process ends, or an exception that is not caught leaves the session.
Crash(w) ==
  /\ ~At(w, "idle")
  /\ crashes < MaxCrashes
  /\ crashes' = crashes + 1
  /\ Become(w, Idle)
  /\ UNCHANGED <<products, job, row, plans, overruns>>

Working(j) == \E w \in Workers : ~At(w, "idle") /\ session[w].job = j

LeaseEnds(j) ==
  /\ job[j].status = "processing" /\ job[j].leased
  /\ IF Working(j) THEN overruns < MaxOverruns /\ overruns' = overruns + 1
                   ELSE UNCHANGED overruns
  /\ job' = [job EXCEPT ![j].leased = FALSE]
  /\ UNCHANGED <<products, row, plans, session, crashes>>

Step(w) ==
  \/ Claim(w) \/ Load(w) \/ Start(w) \/ Validate(w) \/ SaveProduct(w) \/ MakePlan(w)
  \/ RecordPlan(w) \/ FindBatches(w) \/ Execute(w) \/ Settle(w) \/ Finish(w)

Next ==
  \/ \E w \in Workers : Step(w) \/ Crash(w)
  \/ \E j \in Jobs : LeaseEnds(j)

\* Workers keep running and time passes; nothing has to crash.
Spec ==
  /\ Init /\ [][Next]_vars
  /\ \A w \in Workers : WF_vars(Step(w))
  /\ \A j \in Jobs : WF_vars(LeaseEnds(j) /\ UNCHANGED overruns)

-----------------------------------------------------------------------------
(* Properties.                                                             *)

\* Type correctness.
TypeOK ==
  /\ products \subseteq {Sku[r] : r \in Rows}
  /\ job \in [Jobs -> [status : JobStatus, succeeded : 0..Cardinality(Rows), leased : BOOLEAN]]
  /\ row \in [Rows -> RowRecord]
  /\ plans \in Seq([row : Rows, executed : BOOLEAN]) /\ Len(plans) <= MaxPlans
  /\ session \in [Workers -> Session]
  /\ crashes \in 0..MaxCrashes /\ overruns \in 0..MaxOverruns

\* However often a row is resumed, one plan at most is executed for it: its
\* images are generated, and paid for, once.
OneExecutedPlan ==
  \A m, n \in DOMAIN plans :
    plans[m].row = plans[n].row /\ plans[m].executed /\ plans[n].executed => m = n

\* A queued row names the plan that was executed for it.
QueuedRowsHaveBatches ==
  \A r \in Rows : row[r].status = "queued" => Executed(row[r].plan)

\* A finished job has no row left over, and its counters and status are those
\* of its rows, whoever processed them.
VerdictIsTrue ==
  \A j \in Jobs : job[j].status \notin {"pending", "processing"} =>
    /\ \A r \in RowsOf(j) : row[r].status \notin {"pending", "processing"}
    /\ job[j].succeeded = Succeeded([r \in RowsOf(j) |-> row[r].status])
    /\ job[j].status = Verdict(j \in DryRuns, Cardinality(RowsOf(j)), job[j].succeeded)

\* Rows are isolated: a sound row fails only where another job introduces the
\* same product at the same time.
RowsFailForCause ==
  \A r \in Rows : row[r].status \in {"failed", "invalid"} =>
    \/ Flaw[r] # "none"
    \/ \E q \in Rows : JobOf[q] # JobOf[r] /\ Sku[q] = Sku[r]

\* No lease has ended yet under a worker that still ran.
OnTime == overruns = 0

\* While that is so, a row that has its result keeps it.
ResultsStay ==
  [][OnTime' => \A r \in Rows : row[r].status \notin {"pending", "processing"}
                                 => row'[r] = row[r]]_vars

\* Every job is finished, whichever worker dies on the way.
JobsFinish ==
  \A j \in Jobs : <>(job[j].status \notin {"pending", "processing"})
=============================================================================
