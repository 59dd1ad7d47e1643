-------------------------- MODULE GenerationSteps --------------------------
(***************************************************************************)
(* Execution of generation steps by the workers: worker/executor.py and    *)
(* worker/recovery.py on the rows generation_steps, generation_batches and *)
(* edit_revisions of one PostgreSQL database at READ COMMITTED.            *)
(*                                                                         *)
(* A step belongs to exactly one batch, so a batch (and the edit revision  *)
(* of an edit batch) is named by its step.  A task is one asyncio task     *)
(* running execute_step in a worker process.  A wakeup hint may start a    *)
(* task on any step at any time; the loop that delivers hints is not here. *)
(*                                                                         *)
(* A database transaction is two actions, the one that reads the rows and  *)
(* the one that commits, whenever other sessions can commit in between.    *)
(* Wall-clock time is abstracted to two facts per step: whether its lease  *)
(* has expired and whether its backoff has elapsed.                        *)
(***************************************************************************)
EXTENDS Naturals, FiniteSets

CONSTANTS
  Steps,           \* ids of generation_steps rows
  Workers,         \* worker processes
  Tasks,           \* execute_step tasks, over all workers
  WorkerOf,        \* the process a task runs in
  Kind,            \* "plain", "checked" (quality or fashion evidence), "edit"
  Providers,
  ProviderOf,      \* provider of a step's model configuration
  MaxConcurrency,  \* WorkerContext.max_concurrency
  ProviderLimit,   \* WorkerContext.provider_concurrency_limits
  MaxAttempts,     \* WorkerContext.max_attempts
  MaxStalls,       \* bound: leases that expire under a live execution
  MaxFaults,       \* bound: worker crashes and uncaught exceptions
  None             \* SQL NULL

ASSUME ConstantsAssumption ==
  /\ WorkerOf \in [Tasks -> Workers]
  /\ Kind \in [Steps -> {"plain", "checked", "edit"}]
  /\ ProviderOf \in [Steps -> Providers]
  /\ ProviderLimit \in [Providers -> Nat \union {None}]
  /\ {MaxConcurrency, MaxAttempts, MaxStalls, MaxFaults} \subseteq Nat
  /\ MaxAttempts # 0   \* worker_max_attempts is validated with ge=1
  /\ IsFiniteSet(Workers) /\ IsFiniteSet(Tasks)

ASSUME NoneAssumption ==
  None \notin Steps \union Workers \union Tasks
              \union {"live", "expired", "later", "due", "queued", "failed", "ready"}

VARIABLES
  step,      \* committed generation_steps rows
  batch,     \* committed generation_batches.status
  revision,  \* committed edit_revisions.status, None unless Kind is "edit"
  lock,      \* the task that holds the row lock of a step
  pc,        \* where a task is in execute_step
  job,       \* the step a task executes
  session,   \* the rows a task's open session has loaded
  retryable, \* the argument of the _mark_failed call a task is in
  attempt,   \* attempt_count of the row a task leased: names its output
  scan,      \* the expired rows a worker's recovery session has loaded
  stalls,    \* leases that expired under a live execution so far
  faults     \* crashes and uncaught exceptions so far

db == <<step, batch, revision>>
task == <<pc, job, session, retryable, attempt>>
vars == <<step, batch, revision, lock, pc, job, session, retryable,
          attempt, scan, stalls, faults>>

StepStatus == {"queued", "running", "succeeded", "failed", "retry_queued"}
Terminal == {"succeeded", "failed"}
BatchStatus == {"queued", "running", "retry_queued", "review_pending", "failed"}
RevisionStatus == {"queued", "ready", "failed", None}

\* output_asset_id is the attempt that produced the output, 0 for NULL.
StepRow == [status : StepStatus,
            attempt_count : Nat,
            lease_owner : Workers \union {None},
            lease_expires_at : {None, "live", "expired"},
            next_attempt_at : {None, "later", "due"},
            output_asset_id : Nat]

Session == [step : StepRow, batch : BatchStatus]

NewStep == [status |-> "queued", attempt_count |-> 0, lease_owner |-> None,
            lease_expires_at |-> None, next_attempt_at |-> None,
            output_asset_id |-> 0]

\* Program counters of a task whose lease is committed and not yet given up.
Executing == {"leased", "generating", "stored", "failing", "marking",
              "completing", "flushed"}
LockHolding == {"leasing", "flushed"}

Init ==
  /\ step = [s \in Steps |-> NewStep]
  /\ batch = [s \in Steps |-> "queued"]
  /\ revision = [s \in Steps |-> IF Kind[s] = "edit" THEN "queued" ELSE None]
  /\ lock = [s \in Steps |-> None]
  /\ pc = [t \in Tasks |-> "idle"]
  /\ job = [t \in Tasks |-> None]
  /\ session = [t \in Tasks |-> None]
  /\ retryable = [t \in Tasks |-> FALSE]
  /\ attempt = [t \in Tasks |-> 0]
  /\ scan = [w \in Workers |-> [s \in Steps |-> None]]
  /\ stalls = 0
  /\ faults = 0

-----------------------------------------------------------------------------
(* What a session's flush does to a row.                                   *)

\* The unit of work emits only columns whose value differs from the loaded
\* one: an assignment that changes nothing leaves another session's value.
\* A column stamped with the current time always differs.
Flushed(current, loaded, new) == IF new = loaded THEN current ELSE new

\* Mutant: taking over an expired lease does not count as an attempt.
LeasedRowUncounted(row, loaded, worker) ==
  [row EXCEPT
    !.status = Flushed(@, loaded.status, "running"),
    !.attempt_count = IF loaded.status = "running" THEN @
                      ELSE loaded.attempt_count + 1,
    !.lease_owner = Flushed(@, loaded.lease_owner, worker),
    !.lease_expires_at = "live",
    !.next_attempt_at = Flushed(@, loaded.next_attempt_at, None)]

LeasedRow(row, loaded, worker) ==
  [row EXCEPT
    !.status = Flushed(@, loaded.status, "running"),
    !.attempt_count = loaded.attempt_count + 1,
    !.lease_owner = Flushed(@, loaded.lease_owner, worker),
    !.lease_expires_at = "live",
    !.next_attempt_at = Flushed(@, loaded.next_attempt_at, None)]

FailedRow(row, loaded, retry) ==
  [row EXCEPT
    !.status = Flushed(@, loaded.status,
                       IF retry THEN "retry_queued" ELSE "failed"),
    !.lease_owner = Flushed(@, loaded.lease_owner, None),
    !.lease_expires_at = Flushed(@, loaded.lease_expires_at, None),
    !.next_attempt_at = IF retry THEN "later"
                        ELSE Flushed(@, loaded.next_attempt_at, None)]

SucceededRow(row, loaded, output) ==
  [row EXCEPT
    !.status = Flushed(@, loaded.status, "succeeded"),
    !.output_asset_id = Flushed(@, loaded.output_asset_id, output),
    !.lease_owner = Flushed(@, loaded.lease_owner, None),
    !.lease_expires_at = Flushed(@, loaded.lease_expires_at, None)]

\* Mutant: recovery forgets the lease columns.
RecoveredRowKeepsLease(row, loaded) ==
  [row EXCEPT
    !.status = Flushed(@, loaded.status, "retry_queued"),
    !.next_attempt_at = "due"]

RecoveredRow(row, loaded) ==
  [row EXCEPT
    !.status = Flushed(@, loaded.status, "retry_queued"),
    !.lease_owner = Flushed(@, loaded.lease_owner, None),
    !.lease_expires_at = Flushed(@, loaded.lease_expires_at, None),
    !.next_attempt_at = "due"]

-----------------------------------------------------------------------------
(* Tasks.                                                                  *)

Load(s) == [step |-> step[s], batch |-> batch[s]]

\* The task moves on with the session it has, or ends.
Goto(t, where) ==
  /\ pc' = [pc EXCEPT ![t] = where]
  /\ UNCHANGED <<job, attempt>>

Finish(t) ==
  /\ pc' = [pc EXCEPT ![t] = "idle"]
  /\ job' = [job EXCEPT ![t] = None]
  /\ session' = [session EXCEPT ![t] = None]
  /\ retryable' = [retryable EXCEPT ![t] = FALSE]
  /\ attempt' = [attempt EXCEPT ![t] = 0]

Unlocked(s) == lock[s] = None
Unlock(t) == lock' = [s \in Steps |-> IF lock[s] = t THEN None ELSE lock[s]]

\* Mutants: a completed step can be claimed again; a backoff is ignored; only
\* a step without any backoff can be claimed.
ClaimableCompleted(row) == row.status = "running" => row.lease_expires_at # "live"
ClaimableEarly(row) ==
  \/ row.status \in {"queued", "retry_queued"}
  \/ row.status = "running" /\ row.lease_expires_at # "live"
ClaimableNever(row) == ClaimableEarly(row) /\ row.next_attempt_at = None

Claimable(row) ==
  /\ \/ row.status \in {"queued", "retry_queued"}
     \/ row.status = "running" /\ row.lease_expires_at # "live"
  /\ row.next_attempt_at # "later"

LiveLeases == {s \in Steps : /\ step[s].status = "running"
                             /\ step[s].lease_expires_at = "live"}

HasCapacity(s) ==
  LET limit == ProviderLimit[ProviderOf[s]]
      sameProvider == {r \in LiveLeases : ProviderOf[r] = ProviderOf[s]}
  IN /\ Cardinality(LiveLeases) < MaxConcurrency
     /\ limit # None => Cardinality(sameProvider) < limit

\* Mutant: the row is selected without FOR UPDATE.
LeaseReadUnlocked(t, s) ==
  /\ pc[t] = "idle"
  /\ Claimable(step[s])
  /\ HasCapacity(s)
  /\ pc' = [pc EXCEPT ![t] = "leasing"]
  /\ job' = [job EXCEPT ![t] = s]
  /\ session' = [session EXCEPT ![t] = Load(s)]
  /\ UNCHANGED <<db, lock, retryable, attempt, scan, stalls, faults>>

\* SELECT ... FOR UPDATE SKIP LOCKED, then the capacity counts, which lock
\* nothing: the row stays locked until the lease commits.
LeaseRead(t, s) ==
  /\ pc[t] = "idle"
  /\ Unlocked(s)
  /\ Claimable(step[s])
  /\ HasCapacity(s)
  /\ pc' = [pc EXCEPT ![t] = "leasing"]
  /\ job' = [job EXCEPT ![t] = s]
  /\ session' = [session EXCEPT ![t] = Load(s)]
  /\ lock' = [lock EXCEPT ![s] = t]
  /\ UNCHANGED <<db, retryable, attempt, scan, stalls, faults>>

LeaseCommit(t) ==
  LET s == job[t]
      loaded == session[t]
  IN /\ pc[t] = "leasing"
     /\ step' = [step EXCEPT ![s] = LeasedRow(@, loaded.step, WorkerOf[t])]
     /\ batch' = [batch EXCEPT ![s] = Flushed(@, loaded.batch, "running")]
     /\ pc' = [pc EXCEPT ![t] = "leased"]
     /\ session' = [session EXCEPT ![t] = None]
     /\ attempt' = [attempt EXCEPT ![t] = loaded.step.attempt_count + 1]
     /\ Unlock(t)
     /\ UNCHANGED <<revision, job, retryable, scan, stalls, faults>>

\* The other end of _lease_step: the configuration is gone or disabled, which
\* an administrator may switch at any time, so it may be seen at any read.
\* The lease, the backoff and the edit revision are left as they are.
RefuseDisabled(t, s) ==
  /\ pc[t] = "idle"
  /\ Unlocked(s)
  /\ Claimable(step[s])
  /\ step' = [step EXCEPT ![s].status = "failed"]
  /\ batch' = [batch EXCEPT ![s] = "failed"]
  /\ UNCHANGED <<revision, lock, task, scan, stalls, faults>>

Fail(t, retry) ==
  /\ Goto(t, "failing")
  /\ retryable' = [retryable EXCEPT ![t] = retry]
  /\ UNCHANGED session

\* The talent authorization has run out: no provider call is made.
DenyAuthorization(t) ==
  /\ pc[t] = "leased"
  /\ Fail(t, FALSE)
  /\ UNCHANGED <<db, lock, scan, stalls, faults>>

\* A reference, the provider adapter or its secret cannot be loaded, or the
\* transaction that denies the authorization is lost: that is caught too.
LoadFails(t) ==
  /\ pc[t] = "leased"
  /\ Fail(t, TRUE)
  /\ UNCHANGED <<db, lock, scan, stalls, faults>>

CallProvider(t) ==
  /\ pc[t] = "leased"
  /\ Goto(t, "generating")
  /\ UNCHANGED <<db, lock, session, retryable, scan, stalls, faults>>

\* The provider answered; the output was validated and stored, or not.
ProviderFails(t) ==
  /\ pc[t] = "generating"
  /\ Fail(t, TRUE)
  /\ UNCHANGED <<db, lock, scan, stalls, faults>>

OutputInvalid(t) ==
  /\ pc[t] = "generating"
  /\ Fail(t, FALSE)
  /\ UNCHANGED <<db, lock, scan, stalls, faults>>

StoreOutput(t) ==
  /\ pc[t] = "generating"
  /\ Goto(t, "stored")
  /\ UNCHANGED <<db, lock, session, retryable, scan, stalls, faults>>

MarkFailedRead(t) ==
  LET s == job[t]
  IN /\ pc[t] = "failing"
     /\ IF step[s].status \in Terminal
        THEN Finish(t)
        ELSE /\ Goto(t, "marking")
             /\ session' = [session EXCEPT ![t] = Load(s)]
             /\ UNCHANGED retryable
     /\ UNCHANGED <<db, lock, scan, stalls, faults>>

\* The batch is read after the step, when another session may have written it.
MarkFailedBatch(t) ==
  /\ pc[t] = "marking"
  /\ session[t].batch # batch[job[t]]
  /\ session' = [session EXCEPT ![t].batch = batch[job[t]]]
  /\ UNCHANGED <<db, lock, pc, job, retryable, attempt, scan, stalls, faults>>

\* Mutant: one attempt too many.
ShouldRetryOnceMore(t) ==
  retryable[t] /\ session[t].step.attempt_count <= MaxAttempts

ShouldRetry(t) == retryable[t] /\ session[t].step.attempt_count < MaxAttempts

\* The revision is read after the step's row is flushed, so never stale.
MarkFailedCommit(t) ==
  LET s == job[t]
      loaded == session[t]
      retry == ShouldRetry(t)
  IN /\ pc[t] = "marking"
     /\ Unlocked(s)
     /\ step' = [step EXCEPT ![s] = FailedRow(@, loaded.step, retry)]
     /\ batch' = [batch EXCEPT ![s] =
                    Flushed(@, loaded.batch,
                            IF retry THEN "retry_queued" ELSE "failed")]
     /\ revision' = IF Kind[s] = "edit" THEN [revision EXCEPT ![s] = "failed"]
                                        ELSE revision
     /\ Finish(t)
     /\ UNCHANGED <<lock, scan, stalls, faults>>

\* session.get of the step: unlocked, and no test of who owns the lease.
CompleteRead(t) ==
  LET s == job[t]
  IN /\ pc[t] = "stored"
     /\ IF step[s].status # "running"
        THEN Finish(t)
        ELSE /\ Goto(t, "completing")
             /\ session' = [session EXCEPT ![t] = Load(s)]
             /\ UNCHANGED retryable
     /\ UNCHANGED <<db, lock, scan, stalls, faults>>

\* Reading the batch autoflushes the step: its row is locked from here on,
\* and the batch is loaded now.
CompleteFlush(t) ==
  LET s == job[t]
  IN /\ pc[t] = "completing"
     /\ Unlocked(s)
     /\ lock' = [lock EXCEPT ![s] = t]
     /\ session' = [session EXCEPT ![t] = [Load(s) EXCEPT !.step = session[t].step]]
     /\ Goto(t, "flushed")
     /\ UNCHANGED <<db, retryable, scan, stalls, faults>>

\* Mutant: failed evidence sends the batch to review all the same.
BatchVerdictLenient(s, loaded, passed) == "review_pending"

\* The batch after a completion.  Checked and edit batches flush "qa_pending"
\* before their evidence exists, so their final status is always written.
BatchVerdict(s, loaded, passed) ==
  IF Kind[s] = "plain" THEN Flushed(batch[s], loaded, "review_pending")
  ELSE IF passed THEN "review_pending" ELSE "failed"

CompleteCommit(t, passed) ==
  LET s == job[t]
      loaded == session[t]
  IN /\ pc[t] = "flushed"
     /\ Kind[s] = "plain" => passed
     /\ step' = [step EXCEPT ![s] = SucceededRow(@, loaded.step, attempt[t])]
     /\ batch' = [batch EXCEPT ![s] = BatchVerdict(s, loaded.batch, passed)]
     /\ revision' = IF Kind[s] = "edit"
                    THEN [revision EXCEPT ![s] =
                            IF passed THEN "ready" ELSE "failed"]
                    ELSE revision
     /\ Unlock(t)
     /\ Finish(t)
     /\ UNCHANGED <<scan, stalls, faults>>

\* An exception outside execute_step's try block: the session rolls back and
\* the task ends, its lease still on the row.
Raise(t) ==
  /\ pc[t] \in {"leasing", "marking", "completing", "flushed"}
  /\ faults < MaxFaults
  /\ faults' = faults + 1
  /\ Unlock(t)
  /\ Finish(t)
  /\ UNCHANGED <<db, scan, stalls>>

-----------------------------------------------------------------------------
(* Recovery, crashes and time.                                             *)

Expired(row) == row.status = "running" /\ row.lease_expires_at = "expired"

RecoverRead(w) ==
  /\ scan[w] = [s \in Steps |-> None]
  /\ \E s \in Steps : Expired(step[s])
  /\ scan' = [scan EXCEPT ![w] =
                [s \in Steps |-> IF Expired(step[s]) THEN step[s] ELSE None]]
  /\ UNCHANGED <<db, lock, task, stalls, faults>>

RecoverCommit(w) ==
  LET found == {s \in Steps : scan[w][s] # None}
  IN /\ found # {}
     /\ \A s \in found : Unlocked(s)
     /\ step' = [s \in Steps |-> IF s \in found
                                 THEN RecoveredRow(step[s], scan[w][s])
                                 ELSE step[s]]
     /\ scan' = [scan EXCEPT ![w] = [s \in Steps |-> None]]
     /\ UNCHANGED <<batch, revision, lock, task, stalls, faults>>

\* A process dies: its tasks vanish and its open transactions roll back.
Crash(w) ==
  LET dead == {t \in Tasks : WorkerOf[t] = w}
      Reset(f, value) == [t \in Tasks |-> IF t \in dead THEN value ELSE f[t]]
  IN /\ faults < MaxFaults
     /\ faults' = faults + 1
     /\ \E t \in dead : pc[t] # "idle"
     /\ pc' = Reset(pc, "idle")
     /\ job' = Reset(job, None)
     /\ session' = Reset(session, None)
     /\ retryable' = Reset(retryable, FALSE)
     /\ attempt' = Reset(attempt, 0)
     /\ lock' = [s \in Steps |-> IF lock[s] \in dead THEN None ELSE lock[s]]
     /\ scan' = [scan EXCEPT ![w] = [s \in Steps |-> None]]
     /\ UNCHANGED <<db, stalls>>

Held(s) == \E t \in Tasks : job[t] = s /\ pc[t] \in Executing

LeaseExpires(s) ==
  /\ step[s].lease_expires_at = "live"
  /\ Held(s) => stalls < MaxStalls
  /\ stalls' = IF Held(s) THEN stalls + 1 ELSE stalls
  /\ step' = [step EXCEPT ![s].lease_expires_at = "expired"]
  /\ UNCHANGED <<batch, revision, lock, task, scan, faults>>

BackoffElapses(s) ==
  /\ step[s].next_attempt_at = "later"
  /\ step' = [step EXCEPT ![s].next_attempt_at = "due"]
  /\ UNCHANGED <<batch, revision, lock, task, scan, stalls, faults>>

-----------------------------------------------------------------------------
TaskStep(t) ==
  \/ LeaseCommit(t)
  \/ DenyAuthorization(t)
  \/ LoadFails(t)
  \/ CallProvider(t)
  \/ ProviderFails(t)
  \/ OutputInvalid(t)
  \/ StoreOutput(t)
  \/ MarkFailedRead(t)
  \/ MarkFailedCommit(t)
  \/ CompleteRead(t)
  \/ CompleteFlush(t)
  \/ \E passed \in BOOLEAN : CompleteCommit(t, passed)

Hint(s) == \E t \in Tasks : LeaseRead(t, s) \/ RefuseDisabled(t, s)

Next ==
  \/ \E t \in Tasks : TaskStep(t) \/ MarkFailedBatch(t) \/ Raise(t)
  \/ \E s \in Steps : Hint(s)
  \/ \E w \in Workers : RecoverRead(w) \/ RecoverCommit(w) \/ Crash(w)
  \/ \E s \in Steps : LeaseExpires(s) \/ BackoffElapses(s)

Spec == Init /\ [][Next]_vars

\* Time passes, a started task and an open recovery session run on, the
\* provider call ends one way or another (every adapter has a timeout), and
\* each recovery scan publishes a hint for every due step.
Fairness ==
  /\ \A t \in Tasks : WF_vars(TaskStep(t))
  /\ \A s \in Steps : WF_vars(Hint(s))
  /\ \A w \in Workers : WF_vars(RecoverRead(w)) /\ WF_vars(RecoverCommit(w))
  /\ \A s \in Steps : WF_vars(LeaseExpires(s)) /\ WF_vars(BackoffElapses(s))

FairSpec == Spec /\ Fairness

-----------------------------------------------------------------------------
(* Properties.                                                             *)

\* Every variable has its type.
TypeOK ==
  /\ step \in [Steps -> StepRow]
  /\ batch \in [Steps -> BatchStatus]
  /\ revision \in [Steps -> RevisionStatus]
  /\ lock \in [Steps -> Tasks \union {None}]
  /\ pc \in [Tasks -> {"idle", "leasing"} \union Executing]
  /\ job \in [Tasks -> Steps \union {None}]
  /\ session \in [Tasks -> Session \union {None}]
  /\ retryable \in [Tasks -> BOOLEAN]
  /\ attempt \in [Tasks -> Nat]
  /\ scan \in [Workers -> [Steps -> StepRow \union {None}]]
  /\ stalls \in Nat
  /\ faults \in Nat

Coherent(row) ==
  /\ row.status = "running" =>
       row.lease_owner # None /\ row.lease_expires_at # None
  /\ row.status \in {"queued", "retry_queued"} =>
       row.lease_owner = None /\ row.lease_expires_at = None

\* A running step always has a lease and a waiting step never has one,
\* whatever columns late sessions merge into the row.  The recovery query
\* compares lease_expires_at with the clock, which SQL never finds true of
\* NULL: a running row without a lease would be lost to recovery.
LeaseMatchesStatus == \A s \in Steps : Coherent(step[s])

\* Executions of one step, however late, never share an attempt number, and
\* each number was counted on the row before the execution began: the attempt
\* count says how often the provider may have been called and paid.
AttemptsAreCounted ==
  /\ \A t \in Tasks : pc[t] \in Executing =>
       attempt[t] \in 1..step[job[t]].attempt_count
  /\ \A t, u \in Tasks :
       t # u /\ {pc[t], pc[u]} \subseteq Executing /\ job[t] = job[u]
       => attempt[t] # attempt[u]

\* A lease is only ever committed over a row that is claimable at that very
\* moment: never over a live lease, a terminal step or a running backoff.
LeaseTakesClaimable ==
  \A s \in Steps :
    step'[s].attempt_count # step[s].attempt_count
    => /\ step[s].status \notin Terminal
       /\ step[s].status = "running" => step[s].lease_expires_at # "live"
       /\ step[s].next_attempt_at # "later"

LeaseOnlyClaimable == [][LeaseTakesClaimable]_vars

\* The tickets of AttemptLedger: an execution holds one from the commit of its
\* lease until its output is committed or given up.
Tickets == {[task |-> t, step |-> job[t], number |-> attempt[t]] :
              t \in {u \in Tasks : pc[u] \in Executing}}

Ledger == INSTANCE AttemptLedger WITH
  issued <- [s \in Steps |-> step[s].attempt_count],
  held <- Tickets,
  output <- [s \in Steps |-> step[s].output_asset_id]

\* The workers implement the ledger: an attempt number is issued once, and the
\* output of a step is only ever replaced by an execution that still holds the
\* number it is recorded under.
KeepsLedger == Ledger!Spec

\* No step is executed more often than max_attempts, but for what failures and
\* overruns cost: each lease that ends under its execution or with its worker
\* may be taken over once, and taken back once by the recovery scan of every
\* worker that saw it expired.
AttemptsWithinLimit ==
  \A s \in Steps :
    step[s].attempt_count <= MaxAttempts + (Cardinality(Workers) + 1) * (stalls + faults)

\* Until the first failure or overrun the code keeps promises that it breaks
\* afterwards.
Undisturbed == stalls = 0 /\ faults = 0

\* Until then a step whose output was accepted is never executed again.
CompletedStaysCompleted ==
  [][Undisturbed' => \A s \in Steps : step[s].status = "succeeded"
                                       => step'[s].status = "succeeded"]_vars

\* Until then two tasks never execute the same step at the same time.
SingleExecution ==
  Undisturbed => \A t, u \in Tasks : /\ t # u
                                      /\ {pc[t], pc[u]} \subseteq Executing
                                      => job[t] # job[u]

\* Until then the batch, and the revision of an edit batch, tell the same story
\* as the step.  A refused edit is the exception: see RefuseDisabled.
BatchFollowsStep ==
  Undisturbed => \A s \in Steps :
    /\ step[s].status \in {"queued", "running", "retry_queued", "failed"}
         => batch[s] = step[s].status
    /\ step[s].status = "succeeded"
         => /\ batch[s] \in {"review_pending", "failed"}
            /\ step[s].output_asset_id = step[s].attempt_count
    /\ Kind[s] = "edit" => (revision[s] = "ready" <=> batch[s] = "review_pending")

\* Every step comes to a final status and stays there, whatever crashes and
\* late sessions do: no step is lost and none is executed for ever.
StepsFinish == \A s \in Steps : <>[](step[s].status \in Terminal)

\* Every step ends, for good, in a status from which a person can go on:
\* under review, or failed and open to a retry by the user.
EventuallySettled ==
  \A s \in Steps : <>[](/\ step[s].status \in Terminal
                        /\ batch[s] \in {"review_pending", "failed"})
=============================================================================
