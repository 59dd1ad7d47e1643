----------------------- MODULE GenerationSteps_proofs -----------------------
(***************************************************************************)
(* Proofs about GenerationSteps for any number of steps, workers and tasks *)
(* and any number of crashes, stalls and retries.                          *)
(*                                                                         *)
(* Leases.  TypeInv is inductive by itself.  LeaseMatchesStatus is not:    *)
(* whether a late session leaves the row coherent depends on what it       *)
(* loaded, so Inv also says what every open session and recovery scan has  *)
(* loaded.                                                                 *)
(*                                                                         *)
(* The ledger.  Inv gives every execution an attempt number of its own;    *)
(* OutputInv adds that no output is recorded yet under the number of a     *)
(* running execution, so the flush of a completion does write the output,  *)
(* and GenerationSteps implements AttemptLedger.                           *)
(*                                                                         *)
(* Until the first failure or overrun every session finds the rows as it   *)
(* loaded them: QuietInv says so, and with it that one task at a time      *)
(* executes a step.                                                        *)
(*                                                                         *)
(* The attempts.  AttemptsWithinLimit bounds a counter that four different *)
(* events can raise again: a hint, a retry, a takeover, a late recovery.   *)
(* Potential adds to the counter what each of them can still cost.  No     *)
(* action raises it but the failures and overruns, each by at most one     *)
(* more than there are workers.                                            *)
(***************************************************************************)
EXTENDS GenerationSteps, FiniteSetTheorems, TLAPS

\* A task past its lease has a job; a task inside a session has its rows.
TaskTyped(t) ==
  /\ pc[t] # "idle" => job[t] \in Steps
  /\ pc[t] \in {"leasing", "marking", "completing", "flushed"} => session[t] \in Session

TypeInv == TypeOK /\ \A t \in Tasks : TaskTyped(t)

\* A session that will commit a lease or a completion owns the row lock.
LockInv == \A t \in Tasks : pc[t] \in LockHolding => lock[job[t]] = t

\* Under the row lock the loaded row is the committed one, up to the clock.
LeasingInv ==
  \A t \in Tasks : pc[t] = "leasing" =>
    LET row == step[job[t]]
        loaded == session[t].step
    IN /\ loaded.status = row.status
       /\ loaded.attempt_count = row.attempt_count
       /\ loaded.lease_owner = row.lease_owner
       /\ row.status \notin Terminal
       /\ row.status = "running" => row.lease_expires_at # "live"
       /\ row.next_attempt_at # "later"

\* No step goes back to "queued" once it was leased.
LeftQueue == \A t \in Tasks : pc[t] \in Executing => step[job[t]].status # "queued"

SessionInv ==
  \A t \in Tasks :
    /\ pc[t] \in {"marking", "completing", "flushed"} => Coherent(session[t].step)
    /\ pc[t] = "marking" => session[t].step.status \in {"running", "retry_queued"}
    /\ pc[t] \in {"completing", "flushed"} => session[t].step.status = "running"

ScanInv ==
  \A w \in Workers, s \in Steps :
    scan[w][s] # None => Coherent(scan[w][s]) /\ scan[w][s].status = "running"

Inv ==
  /\ TypeInv
  /\ LeaseMatchesStatus
  /\ LockInv
  /\ LeasingInv
  /\ LeftQueue
  /\ SessionInv
  /\ ScanInv
  /\ AttemptsAreCounted

-----------------------------------------------------------------------------
(* Rows: what a flush of each kind leaves behind.                          *)

\* Updating one column of a row gives a row.
LEMMA ColumnTypes ==
  \A row \in StepRow :
    /\ \A c \in StepStatus : [row EXCEPT !.status = c] \in StepRow
    /\ \A c \in {None, "live", "expired"} : [row EXCEPT !.lease_expires_at = c] \in StepRow
    /\ \A c \in {None, "later", "due"} : [row EXCEPT !.next_attempt_at = c] \in StepRow
  BY DEF StepRow

\* A flushed row is a row.
LEMMA RowTypes ==
  ASSUME NEW row \in StepRow, NEW loaded \in StepRow,
         NEW w \in Workers, NEW a \in Nat, NEW b \in BOOLEAN
  PROVE  /\ LeasedRow(row, loaded, w) \in StepRow
         /\ FailedRow(row, loaded, b) \in StepRow
         /\ SucceededRow(row, loaded, a) \in StepRow
         /\ RecoveredRow(row, loaded) \in StepRow
<1>1. LeasedRow(row, loaded, w) \in StepRow
  <2> DEFINE n == loaded.attempt_count + 1
             st == Flushed(row.status, loaded.status, "running")
             ow == Flushed(row.lease_owner, loaded.lease_owner, w)
             na == Flushed(row.next_attempt_at, loaded.next_attempt_at, None)
  <2>1. n \in Nat /\ st \in StepStatus /\ ow \in Workers \union {None}
        /\ na \in {None, "later", "due"}
    BY DEF StepRow, StepStatus, Flushed
  <2>2. LeasedRow(row, loaded, w)
        = [row EXCEPT !.status = st, !.attempt_count = n, !.lease_owner = ow,
                      !.lease_expires_at = "live", !.next_attempt_at = na]
    BY DEF LeasedRow, StepRow
  <2> HIDE DEF n, st, ow, na
  <2> QED BY <2>1, <2>2 DEF StepRow
<1>2. FailedRow(row, loaded, b) \in StepRow
  <2> DEFINE st == Flushed(row.status, loaded.status,
                           IF b THEN "retry_queued" ELSE "failed")
             ow == Flushed(row.lease_owner, loaded.lease_owner, None)
             le == Flushed(row.lease_expires_at, loaded.lease_expires_at, None)
             na == IF b THEN "later"
                   ELSE Flushed(row.next_attempt_at, loaded.next_attempt_at, None)
  <2>1. /\ st \in StepStatus /\ ow \in Workers \union {None}
        /\ le \in {None, "live", "expired"} /\ na \in {None, "later", "due"}
    BY DEF StepRow, StepStatus, Flushed
  <2>2. FailedRow(row, loaded, b)
        = [row EXCEPT !.status = st, !.lease_owner = ow,
                      !.lease_expires_at = le, !.next_attempt_at = na]
    BY DEF FailedRow, StepRow
  <2> HIDE DEF st, ow, le, na
  <2> QED BY <2>1, <2>2 DEF StepRow
<1>3. SucceededRow(row, loaded, a) \in StepRow
  BY DEF StepRow, StepStatus, Flushed, SucceededRow
<1>4. RecoveredRow(row, loaded) \in StepRow
  BY DEF StepRow, StepStatus, Flushed, RecoveredRow
<1> QED BY <1>1, <1>2, <1>3, <1>4

\* A flushed row is coherent when the loaded row was: a late session that
\* would write only half of a status and its lease writes neither.
LEMMA RowsCohere ==
  ASSUME NEW row \in StepRow, NEW loaded \in StepRow,
         NEW w \in Workers, NEW a \in Nat, NEW b \in BOOLEAN,
         Coherent(row), Coherent(loaded)
  PROVE  /\ loaded.status = row.status /\ loaded.lease_owner = row.lease_owner
            => Coherent(LeasedRow(row, loaded, w))
         /\ loaded.status \in {"running", "retry_queued"}
            => Coherent(FailedRow(row, loaded, b))
         /\ loaded.status = "running"
            => /\ Coherent(SucceededRow(row, loaded, a))
               /\ Coherent(RecoveredRow(row, loaded))
  BY NoneAssumption
  DEF StepRow, StepStatus, Flushed, Coherent, LeasedRow, FailedRow,
      SucceededRow, RecoveredRow

-----------------------------------------------------------------------------
(* Types.                                                                  *)

\* The initial state is well typed.
LEMMA InitTypes == Init => TypeInv
  BY NoneAssumption, ConstantsAssumption
  DEF Init, TypeInv, TypeOK, TaskTyped, NewStep, StepRow, StepStatus,
      BatchStatus, RevisionStatus, Executing

\* The batch is read once more: what the session has of the step stays.
LEMMA BatchReread ==
  ASSUME TypeInv, NEW t \in Tasks, MarkFailedBatch(t)
  PROVE  /\ UNCHANGED <<step, batch, revision, lock, pc, job, retryable, attempt, scan, stalls,
                        faults>>
         /\ pc[t] = "marking"
         /\ session' \in [Tasks -> Session \union {None}] /\ session'[t] \in Session
         /\ session'[t].step = session[t].step
         /\ \A u \in Tasks : u # t => session'[u] = session[u]
         /\ session[t].batch # batch[job[t]]
<1>1. session[t] \in Session /\ batch[job[t]] \in BatchStatus
  BY DEF MarkFailedBatch, TypeInv, TypeOK, TaskTyped
<1>2. [session[t] EXCEPT !.batch = batch[job[t]]] \in Session
  BY <1>1 DEF Session
<1> QED BY <1>1, <1>2 DEF MarkFailedBatch, TypeInv, TypeOK, Session, db

\* Every step keeps the types, and gives every busy task the job, session and
\* attempt its place in execute_step calls for.
LEMMA TypesStep == TypeInv /\ [Next]_vars => TypeInv'
<1> SUFFICES ASSUME TypeInv, [Next]_vars PROVE TypeInv'
  OBVIOUS
<1> USE DEF TypeInv, TypeOK, TaskTyped
<1>1. ASSUME NEW t \in Tasks, LeaseCommit(t) PROVE TypeInv'
  <2> DEFINE s == job[t]
  <2>1. s \in Steps /\ session[t] \in Session
    BY <1>1 DEF LeaseCommit
  <2>2. step' \in [Steps -> StepRow]
    BY <1>1, <2>1, RowTypes, ConstantsAssumption DEF LeaseCommit, Session
  <2>3. attempt' \in [Tasks -> Nat]
    BY <1>1, <2>1 DEF LeaseCommit, Session, StepRow
  <2>4. batch' \in [Steps -> BatchStatus]
    BY <1>1, <2>1 DEF LeaseCommit, Flushed, BatchStatus
  <2> QED BY <1>1, <2>1, <2>2, <2>3, <2>4 DEF LeaseCommit, Unlock, Executing
<1>2. ASSUME NEW t \in Tasks, NEW passed \in BOOLEAN, CompleteCommit(t, passed)
      PROVE TypeInv'
  <2>1. job[t] \in Steps /\ session[t] \in Session
    BY <1>2 DEF CompleteCommit
  <2>2. step' \in [Steps -> StepRow]
    BY <1>2, <2>1, RowTypes, ConstantsAssumption DEF CompleteCommit, Session
  <2>3. batch' \in [Steps -> BatchStatus]
    BY <1>2, <2>1 DEF CompleteCommit, BatchVerdict, Flushed, BatchStatus
  <2>4. revision' \in [Steps -> RevisionStatus]
    BY <1>2, <2>1 DEF CompleteCommit, RevisionStatus
  <2> QED BY <1>2, <2>2, <2>3, <2>4 DEF CompleteCommit, Unlock, Finish
<1>3. ASSUME NEW t \in Tasks, MarkFailedCommit(t) PROVE TypeInv'
  <2>1. job[t] \in Steps /\ session[t] \in Session /\ ShouldRetry(t) \in BOOLEAN
    BY <1>3 DEF MarkFailedCommit, ShouldRetry
  <2>2. step' \in [Steps -> StepRow]
    BY <1>3, <2>1, RowTypes, ConstantsAssumption DEF MarkFailedCommit, Session
  <2>3. batch' \in [Steps -> BatchStatus]
    BY <1>3, <2>1 DEF MarkFailedCommit, Flushed, BatchStatus
  <2>4. revision' \in [Steps -> RevisionStatus]
    BY <1>3, <2>1 DEF MarkFailedCommit, RevisionStatus
  <2> QED BY <1>3, <2>2, <2>3, <2>4 DEF MarkFailedCommit, Finish
<1>4. ASSUME NEW t \in Tasks, NEW s \in Steps, LeaseRead(t, s) PROVE TypeInv'
  BY <1>4 DEF LeaseRead, Load, Session, db, Executing
<1>5. ASSUME NEW t \in Tasks, NEW s \in Steps, RefuseDisabled(t, s) PROVE TypeInv'
  <2>1. [step[s] EXCEPT !.status = "failed"] \in StepRow
    BY ColumnTypes DEF StepStatus
  <2> QED BY <1>5, <2>1 DEF RefuseDisabled, task, BatchStatus
<1>6. ASSUME NEW t \in Tasks,
             DenyAuthorization(t) \/ LoadFails(t) \/ CallProvider(t)
             \/ ProviderFails(t) \/ OutputInvalid(t) \/ StoreOutput(t)
      PROVE  TypeInv'
  BY <1>6 DEF DenyAuthorization, LoadFails, CallProvider, ProviderFails,
              OutputInvalid, StoreOutput, Fail, Goto, db, Executing
<1>7. ASSUME NEW t \in Tasks, MarkFailedRead(t) \/ CompleteRead(t) PROVE TypeInv'
  <2>1. Load(job[t]) \in Session
    BY <1>7 DEF MarkFailedRead, CompleteRead, Load, Session
  <2>2. CASE Finish(t)
    BY <1>7, <2>2 DEF MarkFailedRead, CompleteRead, Finish, db
  <2>3. ASSUME NEW where \in {"marking", "completing"}, Goto(t, where),
               session' = [session EXCEPT ![t] = Load(job[t])], UNCHANGED retryable
        PROVE  TypeInv'
    BY <1>7, <2>1, <2>3 DEF MarkFailedRead, CompleteRead, Goto, db, Executing
  <2> QED BY <1>7, <2>2, <2>3 DEF MarkFailedRead, CompleteRead
<1>8. ASSUME NEW t \in Tasks, CompleteFlush(t) PROVE TypeInv'
  BY <1>8 DEF CompleteFlush, Goto, Load, Session, db, Executing
<1>9. ASSUME NEW t \in Tasks, Raise(t) PROVE TypeInv'
  BY <1>9 DEF Raise, Unlock, Finish, db
<1>10. ASSUME NEW w \in Workers, RecoverRead(w) PROVE TypeInv'
  BY <1>10 DEF RecoverRead, db, task
<1>11. ASSUME NEW w \in Workers, RecoverCommit(w) PROVE TypeInv'
  <2>1. step' \in [Steps -> StepRow]
    <3> DEFINE found == {s \in Steps : scan[w][s] # None}
    <3>1. ASSUME NEW s \in found PROVE RecoveredRow(step[s], scan[w][s]) \in StepRow
      <4>1. step[s] \in StepRow /\ scan[w][s] \in StepRow
        OBVIOUS
      <4> QED BY <4>1, RowTypes, ConstantsAssumption
    <3> QED BY <1>11, <3>1 DEF RecoverCommit
  <2> QED BY <1>11, <2>1 DEF RecoverCommit, task
<1>12. ASSUME NEW w \in Workers, Crash(w) PROVE TypeInv'
  <2> DEFINE dead == {t \in Tasks : WorkerOf[t] = w}
  <2>1. /\ pc' = [t \in Tasks |-> IF t \in dead THEN "idle" ELSE pc[t]]
        /\ job' = [t \in Tasks |-> IF t \in dead THEN None ELSE job[t]]
        /\ session' = [t \in Tasks |-> IF t \in dead THEN None ELSE session[t]]
        /\ retryable' = [t \in Tasks |-> IF t \in dead THEN FALSE ELSE retryable[t]]
        /\ attempt' = [t \in Tasks |-> IF t \in dead THEN 0 ELSE attempt[t]]
        /\ lock' = [s \in Steps |-> IF lock[s] \in dead THEN None ELSE lock[s]]
    BY <1>12 DEF Crash
  <2>2. scan' \in [Workers -> [Steps -> StepRow \union {None}]] /\ faults' \in Nat
    BY <1>12 DEF Crash
  <2>3. UNCHANGED <<step, batch, revision, stalls>>
    BY <1>12 DEF Crash, db
  <2> HIDE DEF dead
  <2> QED BY <2>1, <2>2, <2>3
<1>13. ASSUME NEW s \in Steps, LeaseExpires(s) \/ BackoffElapses(s) PROVE TypeInv'
  <2>1. /\ [step[s] EXCEPT !.lease_expires_at = "expired"] \in StepRow
        /\ [step[s] EXCEPT !.next_attempt_at = "due"] \in StepRow
    BY ColumnTypes
  <2>2. step' \in [Steps -> StepRow] /\ stalls' \in Nat
    BY <1>13, <2>1 DEF LeaseExpires, BackoffElapses
  <2> QED BY <1>13, <2>2 DEF LeaseExpires, BackoffElapses, task
<1>14. CASE UNCHANGED vars
  BY <1>14 DEF vars
<1>15. ASSUME NEW t \in Tasks, MarkFailedBatch(t) PROVE TypeInv'
  BY <1>15, BatchReread
<1> QED
  BY <1>1, <1>2, <1>3, <1>4, <1>5, <1>6, <1>7, <1>8, <1>9, <1>10, <1>11, <1>12,
     <1>13, <1>14, <1>15
  DEF Next, TaskStep, Hint

\* Every variable has its type in every reachable state, for any number of
\* steps, workers and tasks.
THEOREM TypeCorrect == Spec => []TypeOK
<1>1. Spec => []TypeInv
  BY InitTypes, TypesStep, PTL DEF Spec
<1> QED
  BY <1>1, PTL DEF TypeInv

-----------------------------------------------------------------------------
(* Leases.                                                                 *)

\* The invariant holds initially.
LEMMA InitInv == Init => Inv
<1>1. Init => LeaseMatchesStatus
  BY DEF Init, LeaseMatchesStatus, Coherent, NewStep
<1> QED
  BY <1>1, InitTypes, NoneAssumption
  DEF Init, Inv, LockInv, LeasingInv, LeftQueue, SessionInv, ScanInv,
      AttemptsAreCounted, LockHolding, Executing

\* How a row may change while nobody's lease or completion is being written:
\* it keeps its attempts, stays out of the queue and stays coherent.
RowKept(s) ==
  /\ step'[s].attempt_count = step[s].attempt_count
  /\ step[s].status # "queued" => step'[s].status # "queued"
  /\ Coherent(step'[s])

\* How a locked row may change: only with the clock.
RowTicks(s) ==
  /\ step'[s].status = step[s].status
  /\ step'[s].lease_owner = step[s].lease_owner
  /\ step'[s].lease_expires_at = "live" => step[s].lease_expires_at = "live"
  /\ step'[s].next_attempt_at = "later" => step[s].next_attempt_at = "later"

TaskKept(t) ==
  /\ pc'[t] = pc[t]
  /\ job'[t] = job[t]
  /\ session'[t] = session[t] \/ session'[t].step = session[t].step
  /\ attempt'[t] = attempt[t]
  /\ pc[t] \in LockHolding => lock'[job[t]] = t
  /\ pc[t] = "leasing" => RowTicks(job[t])

\* A step that ends some tasks, leaves the others alone and keeps every row.
LEMMA FrameStep ==
  ASSUME Inv, TypeInv', ScanInv',
         \A s \in Steps : RowKept(s),
         \A t \in Tasks : pc'[t] = "idle" \/ TaskKept(t)
  PROVE  Inv'
<1>1. LeaseMatchesStatus'
  BY DEF RowKept, LeaseMatchesStatus
<1>2. LockInv' /\ SessionInv'
  BY DEF Inv, LockInv, SessionInv, LockHolding, TaskKept
<1>3. LeasingInv'
  BY DEF Inv, TypeInv, TaskTyped, LeasingInv, TaskKept, RowTicks, RowKept
<1>4. LeftQueue' /\ AttemptsAreCounted'
  BY DEF Inv, TypeInv, TaskTyped, LeftQueue, AttemptsAreCounted, TaskKept, RowKept,
         Executing
<1> QED BY <1>1, <1>2, <1>3, <1>4 DEF Inv

\* The invariant is inductive: one case per action, most of them by FrameStep.
LEMMA InvStep == Inv /\ [Next]_vars => Inv'
<1> SUFFICES ASSUME Inv, [Next]_vars PROVE Inv'
  OBVIOUS
<1>0. TypeInv /\ TypeInv'
  BY TypesStep DEF Inv
<1>1. ASSUME NEW t \in Tasks, NEW s \in Steps, LeaseRead(t, s) PROVE Inv'
  <2>1. UNCHANGED <<step, scan, attempt>> /\ lock[s] = None
    BY <1>1 DEF LeaseRead, db, Unlocked
  <2>2. /\ pc' = [pc EXCEPT ![t] = "leasing"]
        /\ job' = [job EXCEPT ![t] = s]
        /\ session' = [session EXCEPT ![t] = Load(s)]
        /\ lock' = [lock EXCEPT ![s] = t]
    BY <1>1 DEF LeaseRead
  <2>3. LockInv'
    BY <1>0, <2>1, <2>2, NoneAssumption DEF Inv, TypeInv, TypeOK, LockInv, LockHolding
  <2>4. LeasingInv'
    BY <1>0, <1>1, <2>1, <2>2
    DEF Inv, TypeInv, TypeOK, LeasingInv, LeaseRead, Claimable, Terminal, Load
  <2>5. LeftQueue' /\ SessionInv' /\ AttemptsAreCounted'
    BY <1>0, <2>1, <2>2
    DEF Inv, TypeInv, TypeOK, LeftQueue, SessionInv, AttemptsAreCounted, Executing
  <2>6. LeaseMatchesStatus' /\ ScanInv'
    BY <2>1 DEF Inv, LeaseMatchesStatus, ScanInv
  <2> QED BY <1>0, <2>3, <2>4, <2>5, <2>6 DEF Inv
<1>2. ASSUME NEW t \in Tasks,
             DenyAuthorization(t) \/ LoadFails(t) \/ CallProvider(t)
             \/ ProviderFails(t) \/ OutputInvalid(t) \/ StoreOutput(t)
      PROVE  Inv'
  <2>1. UNCHANGED <<step, scan, attempt, lock, session, job>>
    BY <1>2 DEF DenyAuthorization, LoadFails, CallProvider, ProviderFails,
                OutputInvalid, StoreOutput, Fail, Goto, db
  <2>2. /\ pc[t] \in {"leased", "generating"}
        /\ \E where \in {"failing", "generating", "stored"} :
             pc' = [pc EXCEPT ![t] = where]
    BY <1>2 DEF DenyAuthorization, LoadFails, CallProvider, ProviderFails,
                OutputInvalid, StoreOutput, Fail, Goto
  <2>3. LockInv' /\ LeasingInv' /\ SessionInv'
    BY <1>0, <2>1, <2>2
    DEF Inv, TypeInv, TypeOK, LockInv, LockHolding, LeasingInv, SessionInv
  <2>4. LeftQueue' /\ AttemptsAreCounted'
    BY <1>0, <2>1, <2>2
    DEF Inv, TypeInv, TypeOK, LeftQueue, AttemptsAreCounted, Executing
  <2>5. LeaseMatchesStatus' /\ ScanInv'
    BY <2>1 DEF Inv, LeaseMatchesStatus, ScanInv
  <2> QED BY <1>0, <2>3, <2>4, <2>5 DEF Inv
<1>3. ASSUME NEW t \in Tasks, LeaseCommit(t) PROVE Inv'
  <2> DEFINE s == job[t]
             loaded == session[t].step
             row == LeasedRow(step[s], loaded, WorkerOf[t])
  <2>1. /\ pc[t] = "leasing" /\ s \in Steps /\ lock[s] = t
        /\ loaded \in StepRow /\ step[s] \in StepRow /\ WorkerOf[t] \in Workers
    BY <1>0, <1>3, ConstantsAssumption
    DEF Inv, TypeInv, TypeOK, TaskTyped, Session, LockInv, LockHolding, LeaseCommit
  <2>2. /\ step' = [step EXCEPT ![s] = row]
        /\ pc' = [pc EXCEPT ![t] = "leased"]
        /\ session' = [session EXCEPT ![t] = None]
        /\ attempt' = [attempt EXCEPT ![t] = loaded.attempt_count + 1]
        /\ lock' = [r \in Steps |-> IF lock[r] = t THEN None ELSE lock[r]]
        /\ UNCHANGED <<job, scan>>
    BY <1>3 DEF LeaseCommit, Unlock
  <2>3. /\ loaded.status = step[s].status
        /\ loaded.attempt_count = step[s].attempt_count
        /\ loaded.lease_owner = step[s].lease_owner
    BY <2>1 DEF Inv, LeasingInv
  <2>4. Coherent(row)
    BY <2>1, <2>3, NoneAssumption
    DEF Inv, LeaseMatchesStatus, Coherent, LeasedRow, Flushed, StepRow
  <2>5. row.attempt_count = step[s].attempt_count + 1 /\ row.status = "running"
    BY <2>1, <2>3 DEF LeasedRow, Flushed, StepRow
  <2> HIDE DEF loaded, row, s
  <2>6. step'[s] = row /\ \A r \in Steps : r # s => step'[r] = step[r]
    BY <1>0, <2>1, <2>2 DEF TypeInv, TypeOK
  <2>7. LeaseMatchesStatus' /\ ScanInv'
    BY <2>2, <2>4, <2>6 DEF Inv, LeaseMatchesStatus, ScanInv
  <2>8. LockInv' /\ SessionInv'
    BY <1>0, <2>1, <2>2
    DEF Inv, TypeInv, TypeOK, TaskTyped, LockInv, SessionInv, LockHolding
  <2>9. LeasingInv'
    <3> SUFFICES ASSUME NEW u \in Tasks, pc[u] = "leasing", u # t
                 PROVE  job[u] \in Steps /\ job[u] # s
      BY <1>0, <2>2, <2>6 DEF Inv, TypeInv, TypeOK, TaskTyped, LeasingInv
    <3> QED BY <1>0, <2>1 DEF Inv, LockInv, LockHolding, TypeInv, TaskTyped
  <2>10. LeftQueue'
    BY <1>0, <2>1, <2>2, <2>5, <2>6
    DEF Inv, TypeInv, TypeOK, TaskTyped, LeftQueue, Executing, s
  <2>11. AttemptsAreCounted'
    <3>1. step[s].attempt_count \in Nat /\ \A u \in Tasks : attempt[u] \in Nat
      BY <1>0, <2>1 DEF TypeInv, TypeOK, StepRow
    <3>2. ASSUME NEW u \in Tasks, pc'[u] \in Executing
          PROVE  attempt'[u] \in 1..step'[job'[u]].attempt_count
      BY <1>0, <2>1, <2>2, <2>3, <2>5, <2>6, <3>1, <3>2
      DEF Inv, TypeInv, TypeOK, TaskTyped, AttemptsAreCounted, Executing, s
    <3>3. ASSUME NEW u \in Tasks, u # t, pc[u] \in Executing, job[u] = s
          PROVE  attempt[u] # loaded.attempt_count + 1
      BY <2>3, <3>1, <3>3 DEF Inv, AttemptsAreCounted
    <3> QED BY <1>0, <2>2, <3>2, <3>3
        DEF Inv, TypeInv, TypeOK, AttemptsAreCounted, Executing, s
  <2> QED BY <1>0, <2>7, <2>8, <2>9, <2>10, <2>11 DEF Inv
<1>4. ASSUME NEW t \in Tasks, NEW s \in Steps, RefuseDisabled(t, s) PROVE Inv'
  <2>1. /\ step' = [step EXCEPT ![s] = [step[s] EXCEPT !.status = "failed"]]
        /\ UNCHANGED <<pc, job, session, attempt, lock, scan>>
        /\ lock[s] = None
    BY <1>4 DEF RefuseDisabled, task, Unlocked
  <2>2. \A r \in Steps : RowKept(r) /\ (r # s => RowTicks(r))
    BY <1>0, <2>1
    DEF TypeInv, TypeOK, Inv, LeaseMatchesStatus, RowKept, RowTicks, Coherent, StepRow
  <2>3. \A u \in Tasks : TaskKept(u)
    BY <1>0, <2>1, <2>2, NoneAssumption
    DEF Inv, TypeInv, TaskTyped, LockInv, LockHolding, TaskKept
  <2>4. ScanInv'
    BY <2>1 DEF Inv, ScanInv
  <2> QED BY <1>0, <2>2, <2>3, <2>4, FrameStep
<1>5. ASSUME NEW t \in Tasks, MarkFailedRead(t) \/ CompleteRead(t) PROVE Inv'
  <2>1. /\ UNCHANGED <<step, scan, lock>>
        /\ pc[t] \in {"failing", "stored"} /\ job[t] \in Steps
    BY <1>0, <1>5 DEF MarkFailedRead, CompleteRead, db, TypeInv, TaskTyped
  <2>2. \A s \in Steps : RowKept(s) /\ RowTicks(s)
    BY <2>1 DEF Inv, LeaseMatchesStatus, RowKept, RowTicks
  <2>3. ScanInv'
    BY <2>1 DEF Inv, ScanInv
  <2>4. CASE Finish(t)
    <3>1. \A u \in Tasks : pc'[u] = "idle" \/ TaskKept(u)
      BY <1>0, <2>1, <2>2, <2>4
      DEF Finish, TaskKept, Inv, TypeInv, TypeOK, TaskTyped, LockInv
    <3> QED BY <1>0, <2>2, <2>3, <3>1, FrameStep
  <2>5. ASSUME NEW where \in {"marking", "completing"}, Goto(t, where),
               where = "marking" => step[job[t]].status \notin Terminal,
               where = "completing" => step[job[t]].status = "running",
               session' = [session EXCEPT ![t] = Load(job[t])]
        PROVE  Inv'
    <3>1. pc' = [pc EXCEPT ![t] = where] /\ UNCHANGED <<job, attempt>>
      BY <2>5 DEF Goto
    <3>2. session'[t].step = step[job[t]]
      BY <1>0, <2>5 DEF TypeInv, TypeOK, Load
    <3>3. step[job[t]] \in StepRow /\ step[job[t]].status # "queued"
          /\ Coherent(step[job[t]])
      BY <1>0, <2>1
      DEF Inv, TypeInv, TypeOK, LeftQueue, LeaseMatchesStatus, Executing
    <3>4. SessionInv'
      BY <1>0, <2>5, <3>1, <3>2, <3>3
      DEF Inv, TypeInv, TypeOK, SessionInv, StepRow, StepStatus, Terminal
    <3>5. LockInv' /\ LeasingInv'
      BY <1>0, <2>1, <2>5, <3>1
      DEF Inv, TypeInv, TypeOK, LockInv, LockHolding, LeasingInv
    <3>6. LeftQueue' /\ AttemptsAreCounted'
      BY <1>0, <2>1, <3>1
      DEF Inv, TypeInv, TypeOK, LeftQueue, AttemptsAreCounted, Executing
    <3> QED BY <1>0, <2>1, <2>3, <3>4, <3>5, <3>6 DEF Inv, LeaseMatchesStatus
  <2> QED BY <1>5, <2>4, <2>5 DEF MarkFailedRead, CompleteRead
<1>6. ASSUME NEW t \in Tasks, MarkFailedCommit(t) PROVE Inv'
  <2> DEFINE s == job[t]
             row == FailedRow(step[s], session[t].step, ShouldRetry(t))
  <2>1. /\ pc[t] = "marking" /\ s \in Steps /\ lock[s] = None
        /\ session[t].step \in StepRow /\ step[s] \in StepRow
        /\ ShouldRetry(t) \in BOOLEAN
    BY <1>0, <1>6
    DEF TypeInv, TypeOK, TaskTyped, Session, MarkFailedCommit, Unlocked, ShouldRetry
  <2>2. Coherent(row)
    BY <2>1, RowsCohere, ConstantsAssumption DEF Inv, SessionInv, LeaseMatchesStatus
  <2>3. row.attempt_count = step[s].attempt_count
        /\ (step[s].status # "queued" => row.status # "queued")
    BY <2>1 DEF FailedRow, Flushed, StepRow
  <2>4. /\ step' = [step EXCEPT ![s] = row]
        /\ Finish(t) /\ UNCHANGED <<lock, scan>>
    BY <1>6 DEF MarkFailedCommit
  <2> HIDE DEF row, s
  <2>5. \A r \in Steps : RowKept(r) /\ (r # s => RowTicks(r))
    BY <1>0, <2>1, <2>2, <2>3, <2>4
    DEF Inv, TypeInv, TypeOK, LeaseMatchesStatus, RowKept, RowTicks
  <2>6. \A u \in Tasks : pc'[u] = "idle" \/ TaskKept(u)
    BY <1>0, <2>1, <2>4, <2>5, NoneAssumption
    DEF Finish, TaskKept, Inv, TypeInv, TypeOK, TaskTyped, LockInv, LockHolding
  <2>7. ScanInv'
    BY <2>4 DEF Inv, ScanInv
  <2> QED BY <1>0, <2>5, <2>6, <2>7, FrameStep
<1>7. ASSUME NEW t \in Tasks, CompleteFlush(t) PROVE Inv'
  <2>1. /\ UNCHANGED <<step, scan, job, attempt>>
        /\ pc[t] = "completing" /\ job[t] \in Steps /\ lock[job[t]] = None
        /\ pc' = [pc EXCEPT ![t] = "flushed"]
        /\ lock' = [lock EXCEPT ![job[t]] = t]
        /\ session' = [session EXCEPT ![t] =
                         [Load(job[t]) EXCEPT !.step = session[t].step]]
    BY <1>0, <1>7 DEF CompleteFlush, Goto, db, TypeInv, TaskTyped, Unlocked
  <2>2. session'[t].step = session[t].step
    BY <1>0, <2>1 DEF TypeInv, TypeOK, Load
  <2>3. SessionInv'
    BY <1>0, <2>1, <2>2 DEF Inv, TypeInv, TypeOK, SessionInv
  <2>4. LockInv' /\ LeasingInv'
    BY <1>0, <2>1, NoneAssumption
    DEF Inv, TypeInv, TypeOK, TaskTyped, LockInv, LockHolding, LeasingInv
  <2>5. LeftQueue' /\ AttemptsAreCounted'
    BY <1>0, <2>1 DEF Inv, TypeInv, TypeOK, LeftQueue, AttemptsAreCounted, Executing
  <2>6. LeaseMatchesStatus' /\ ScanInv'
    BY <2>1 DEF Inv, LeaseMatchesStatus, ScanInv
  <2> QED BY <1>0, <2>3, <2>4, <2>5, <2>6 DEF Inv
<1>8. ASSUME NEW t \in Tasks, NEW passed \in BOOLEAN, CompleteCommit(t, passed)
      PROVE Inv'
  <2> DEFINE s == job[t]
             row == SucceededRow(step[s], session[t].step, attempt[t])
  <2>1. /\ pc[t] = "flushed" /\ s \in Steps /\ lock[s] = t
        /\ session[t].step \in StepRow /\ step[s] \in StepRow /\ attempt[t] \in Nat
    BY <1>0, <1>8
    DEF Inv, TypeInv, TypeOK, TaskTyped, Session, CompleteCommit, LockInv, LockHolding
  <2>2. Coherent(row)
    BY <2>1, RowsCohere, ConstantsAssumption DEF Inv, SessionInv, LeaseMatchesStatus
  <2>3. row.attempt_count = step[s].attempt_count
        /\ (step[s].status # "queued" => row.status # "queued")
    BY <2>1 DEF SucceededRow, Flushed, StepRow
  <2>4. /\ step' = [step EXCEPT ![s] = row]
        /\ lock' = [r \in Steps |-> IF lock[r] = t THEN None ELSE lock[r]]
        /\ Finish(t) /\ UNCHANGED scan
    BY <1>8 DEF CompleteCommit, Unlock
  <2> HIDE DEF row, s
  <2>5. \A r \in Steps : RowKept(r) /\ (r # s => RowTicks(r))
    BY <1>0, <2>1, <2>2, <2>3, <2>4
    DEF Inv, TypeInv, TypeOK, LeaseMatchesStatus, RowKept, RowTicks
  <2>6. \A u \in Tasks : pc'[u] = "idle" \/ TaskKept(u)
    BY <1>0, <2>1, <2>4, <2>5
    DEF Finish, TaskKept, Inv, TypeInv, TypeOK, TaskTyped, LockInv, LockHolding
  <2>7. ScanInv'
    BY <2>4 DEF Inv, ScanInv
  <2> QED BY <1>0, <2>5, <2>6, <2>7, FrameStep
<1>9. ASSUME NEW t \in Tasks, Raise(t) PROVE Inv'
  <2>1. /\ UNCHANGED <<step, scan>> /\ Finish(t)
        /\ lock' = [r \in Steps |-> IF lock[r] = t THEN None ELSE lock[r]]
    BY <1>9 DEF Raise, Unlock, db
  <2>2. \A s \in Steps : RowKept(s) /\ RowTicks(s)
    BY <2>1 DEF Inv, LeaseMatchesStatus, RowKept, RowTicks
  <2>3. \A u \in Tasks : pc'[u] = "idle" \/ TaskKept(u)
    BY <1>0, <2>1, <2>2
    DEF Finish, TaskKept, Inv, TypeInv, TypeOK, TaskTyped, LockInv, LockHolding
  <2>4. ScanInv'
    BY <2>1 DEF Inv, ScanInv
  <2> QED BY <1>0, <2>2, <2>3, <2>4, FrameStep
<1>10. ASSUME NEW w \in Workers, RecoverRead(w) PROVE Inv'
  <2>1. UNCHANGED <<step, pc, job, session, attempt, lock>>
    BY <1>10 DEF RecoverRead, db, task
  <2>2. \A s \in Steps : RowKept(s) /\ RowTicks(s)
    BY <2>1 DEF Inv, LeaseMatchesStatus, RowKept, RowTicks
  <2>3. \A u \in Tasks : TaskKept(u)
    BY <1>0, <2>1, <2>2 DEF Inv, TypeInv, TaskTyped, LockInv, LockHolding, TaskKept
  <2>4. ScanInv'
    BY <1>0, <1>10, <2>1
    DEF RecoverRead, Expired, Inv, TypeInv, TypeOK, ScanInv, LeaseMatchesStatus
  <2> QED BY <1>0, <2>2, <2>3, <2>4, FrameStep
<1>11. ASSUME NEW w \in Workers, RecoverCommit(w) PROVE Inv'
  <2> DEFINE found == {s \in Steps : scan[w][s] # None}
  <2>1. /\ \A s \in found : lock[s] = None
        /\ step' = [s \in Steps |-> IF s \in found THEN RecoveredRow(step[s], scan[w][s])
                                     ELSE step[s]]
        /\ scan' = [scan EXCEPT ![w] = [s \in Steps |-> None]]
        /\ UNCHANGED <<pc, job, session, attempt, lock>>
    BY <1>11 DEF RecoverCommit, Unlocked, task
  <2>2. ASSUME NEW s \in found
        PROVE  LET row == RecoveredRow(step[s], scan[w][s])
               IN /\ Coherent(row)
                  /\ row.attempt_count = step[s].attempt_count
                  /\ step[s].status # "queued" => row.status # "queued"
    <3>1. /\ scan[w][s] \in StepRow /\ step[s] \in StepRow
          /\ Coherent(scan[w][s]) /\ scan[w][s].status = "running"
      BY <1>0 DEF Inv, TypeInv, TypeOK, ScanInv
    <3>2. Coherent(RecoveredRow(step[s], scan[w][s]))
      BY <3>1, RowsCohere, 0 \in Nat DEF Inv, LeaseMatchesStatus
    <3> QED BY <3>1, <3>2 DEF RecoveredRow, Flushed, StepRow
  <2>3. \A s \in Steps : RowKept(s) /\ (s \notin found => RowTicks(s))
    BY <2>1, <2>2 DEF Inv, LeaseMatchesStatus, RowKept, RowTicks
  <2>4. \A u \in Tasks : TaskKept(u)
    BY <1>0, <2>1, <2>3, NoneAssumption
    DEF Inv, TypeInv, TaskTyped, LockInv, LockHolding, TaskKept
  <2>5. ScanInv'
    BY <1>0, <2>1 DEF Inv, TypeInv, TypeOK, ScanInv
  <2> QED BY <1>0, <2>3, <2>4, <2>5, FrameStep
<1>12. ASSUME NEW w \in Workers, Crash(w) PROVE Inv'
  <2> DEFINE dead == {t \in Tasks : WorkerOf[t] = w}
  <2>1. /\ pc' = [t \in Tasks |-> IF t \in dead THEN "idle" ELSE pc[t]]
        /\ job' = [t \in Tasks |-> IF t \in dead THEN None ELSE job[t]]
        /\ session' = [t \in Tasks |-> IF t \in dead THEN None ELSE session[t]]
        /\ attempt' = [t \in Tasks |-> IF t \in dead THEN 0 ELSE attempt[t]]
        /\ lock' = [s \in Steps |-> IF lock[s] \in dead THEN None ELSE lock[s]]
        /\ scan' = [scan EXCEPT ![w] = [s \in Steps |-> None]]
        /\ UNCHANGED step
    BY <1>12 DEF Crash, db
  <2> HIDE DEF dead
  <2>2. \A s \in Steps : RowKept(s) /\ RowTicks(s)
    BY <2>1 DEF Inv, LeaseMatchesStatus, RowKept, RowTicks
  <2>3. \A u \in Tasks : pc'[u] = "idle" \/ TaskKept(u)
    BY <1>0, <2>1, <2>2
    DEF TaskKept, Inv, TypeInv, TypeOK, TaskTyped, LockInv, LockHolding
  <2>4. ScanInv'
    BY <1>0, <2>1 DEF Inv, TypeInv, TypeOK, ScanInv
  <2> QED BY <1>0, <2>2, <2>3, <2>4, FrameStep
<1>13. ASSUME NEW s \in Steps, LeaseExpires(s) \/ BackoffElapses(s) PROVE Inv'
  <2>1. UNCHANGED <<pc, job, session, attempt, lock, scan>>
    BY <1>13 DEF LeaseExpires, BackoffElapses, task
  <2>2. \A r \in Steps : RowKept(r) /\ RowTicks(r)
    <3>1. CASE LeaseExpires(s)
      <4>1. /\ step[s].lease_expires_at = "live" /\ step[s] \in StepRow
            /\ step' = [step EXCEPT ![s] = [step[s] EXCEPT !.lease_expires_at = "expired"]]
        BY <1>0, <3>1 DEF LeaseExpires, TypeInv, TypeOK
      <4> QED BY <1>0, <4>1, NoneAssumption
          DEF TypeInv, TypeOK, StepRow, Inv, LeaseMatchesStatus, Coherent, RowKept, RowTicks
    <3>2. CASE BackoffElapses(s)
      <4>1. /\ step[s] \in StepRow
            /\ step' = [step EXCEPT ![s] = [step[s] EXCEPT !.next_attempt_at = "due"]]
        BY <1>0, <3>2 DEF BackoffElapses, TypeInv, TypeOK
      <4> QED BY <1>0, <4>1
          DEF TypeInv, TypeOK, StepRow, Inv, LeaseMatchesStatus, Coherent, RowKept, RowTicks
    <3> QED BY <1>13, <3>1, <3>2
  <2>3. \A u \in Tasks : TaskKept(u)
    BY <1>0, <2>1, <2>2 DEF Inv, TypeInv, TaskTyped, LockInv, LockHolding, TaskKept
  <2>4. ScanInv'
    BY <2>1 DEF Inv, ScanInv
  <2> QED BY <1>0, <2>2, <2>3, <2>4, FrameStep
<1>14. CASE UNCHANGED vars
  <2>1. UNCHANGED <<step, pc, job, session, attempt, lock, scan>>
    BY <1>14 DEF vars
  <2> QED BY <1>0, <2>1
    DEF Inv, LeaseMatchesStatus, LockInv, LeasingInv, LeftQueue, SessionInv, ScanInv,
        AttemptsAreCounted
<1>15. ASSUME NEW t \in Tasks, MarkFailedBatch(t) PROVE Inv'
  <2>1. /\ UNCHANGED <<step, pc, job, attempt, lock, scan>>
        /\ \A u \in Tasks : session'[u] = session[u] \/ session'[u].step = session[u].step
    BY <1>0, <1>15, BatchReread DEF Inv
  <2>2. \A s \in Steps : RowKept(s) /\ RowTicks(s)
    BY <2>1 DEF Inv, LeaseMatchesStatus, RowKept, RowTicks
  <2>3. \A u \in Tasks : TaskKept(u)
    BY <1>0, <2>1, <2>2 DEF TaskKept, Inv, TypeInv, TaskTyped, LockInv
  <2>4. ScanInv'
    BY <2>1 DEF Inv, ScanInv
  <2> QED BY <1>0, <2>2, <2>3, <2>4, FrameStep
<1> QED
  BY <1>1, <1>2, <1>3, <1>4, <1>5, <1>6, <1>7, <1>8, <1>9, <1>10, <1>11, <1>12,
     <1>13, <1>14, <1>15
  DEF Next, TaskStep, Hint

\* The invariant holds in every reachable state.
THEOREM Invariance == Spec => []Inv
  BY InitInv, InvStep, PTL DEF Spec

\* A running step always has a lease and a waiting step never has one, so no
\* interleaving of late sessions hides a step from the recovery query.
THEOREM LeasesCorrect == Spec => []LeaseMatchesStatus
<1>1. Inv => LeaseMatchesStatus
  BY DEF Inv
<1> QED BY <1>1, Invariance, PTL

\* Executions of one step never share an attempt number, and each number was
\* counted on the row first.
THEOREM AttemptsCorrect == Spec => []AttemptsAreCounted
<1>1. Inv => AttemptsAreCounted
  BY DEF Inv
<1> QED BY <1>1, Invariance, PTL

\* Only a lease changes an attempt count.
LEMMA OnlyLeasesCount ==
  ASSUME Inv, Next, NEW s \in Steps, step'[s].attempt_count # step[s].attempt_count
  PROVE  \E t \in Tasks : LeaseCommit(t)
<1>0. step \in [Steps -> StepRow]
  BY DEF Inv, TypeInv, TypeOK
<1>1. ASSUME NEW t \in Tasks, MarkFailedCommit(t) PROVE FALSE
  BY <1>0, <1>1 DEF MarkFailedCommit, FailedRow, StepRow
<1>2. ASSUME NEW t \in Tasks, NEW passed \in BOOLEAN, CompleteCommit(t, passed) PROVE FALSE
  BY <1>0, <1>2 DEF CompleteCommit, SucceededRow, StepRow
<1>3. ASSUME NEW w \in Workers, RecoverCommit(w) PROVE FALSE
  BY <1>0, <1>3 DEF RecoverCommit, RecoveredRow, StepRow
<1>4. ASSUME NEW t \in Tasks, NEW r \in Steps, RefuseDisabled(t, r) PROVE FALSE
  BY <1>0, <1>4 DEF RefuseDisabled, StepRow
<1>5. ASSUME NEW r \in Steps, LeaseExpires(r) \/ BackoffElapses(r) PROVE FALSE
  BY <1>0, <1>5 DEF LeaseExpires, BackoffElapses, StepRow
<1> QED
  BY <1>1, <1>2, <1>3, <1>4, <1>5
  DEF Next, TaskStep, Hint, db, LeaseRead, DenyAuthorization, LoadFails, CallProvider,
      ProviderFails, OutputInvalid, StoreOutput, MarkFailedRead, MarkFailedBatch, CompleteRead,
      CompleteFlush, Raise, RecoverRead, Crash

\* A lease is only ever committed over a row that is claimable at that moment.
THEOREM LeasesExclusive == Spec => LeaseOnlyClaimable
<1>1. Inv /\ [Next]_vars => [LeaseTakesClaimable]_vars
  <2> SUFFICES ASSUME Inv, Next, NEW s \in Steps,
                      step'[s].attempt_count # step[s].attempt_count
               PROVE  /\ step[s].status \notin Terminal
                      /\ step[s].status = "running" => step[s].lease_expires_at # "live"
                      /\ step[s].next_attempt_at # "later"
    BY DEF LeaseTakesClaimable
  <2>1. ASSUME NEW t \in Tasks, LeaseCommit(t)
        PROVE  pc[t] = "leasing" /\ job[t] = s
    BY <2>1 DEF LeaseCommit, Inv, TypeInv, TypeOK
  <2>2. \E t \in Tasks : LeaseCommit(t)
    BY OnlyLeasesCount
  <2> QED BY <2>1, <2>2 DEF Inv, LeasingInv
<1> QED BY <1>1, Invariance, PTL DEF LeaseOnlyClaimable, Spec

-----------------------------------------------------------------------------
(* The ledger of attempts: GenerationSteps implements AttemptLedger.       *)

OutputInv ==
  /\ \A s \in Steps : step[s].output_asset_id <= step[s].attempt_count
  /\ \A t \in Tasks : pc[t] \in Executing => step[job[t]].output_asset_id # attempt[t]
  /\ \A t \in Tasks : pc[t] \in {"completing", "flushed"} =>
       session[t].step.output_asset_id # attempt[t]

LedgerInv == Inv /\ OutputInv

\* No row changes what the ledger sees of it.
LedgerColumnsKept ==
  \A s \in Steps : /\ step'[s].attempt_count = step[s].attempt_count
                   /\ step'[s].output_asset_id = step[s].output_asset_id

\* A task keeps its ticket or has none after the step; a session it completes
\* with has loaded the output that is or was committed.
TicketKept(t) ==
  \/ pc'[t] \notin Executing
  \/ /\ pc[t] \in Executing
     /\ job'[t] = job[t]
     /\ attempt'[t] = attempt[t]
     /\ pc'[t] \in {"completing", "flushed"} =>
          \/ session'[t].step.output_asset_id = step[job[t]].output_asset_id
          \/ /\ pc[t] \in {"completing", "flushed"}
             /\ session'[t].step.output_asset_id = session[t].step.output_asset_id

\* A step that keeps the columns and takes tickets at most away retires them.
LEMMA RetireStep ==
  ASSUME LedgerInv, Inv', LedgerColumnsKept, \A t \in Tasks : TicketKept(t)
  PROVE  OutputInv' /\ [Ledger!Next]_Ledger!vars
<1>1. OutputInv'
  BY DEF LedgerInv, Inv, TypeInv, TaskTyped, OutputInv, LedgerColumnsKept, TicketKept,
         Executing
<1>2. Tickets' \subseteq Tickets
  BY DEF Tickets, TicketKept
<1>3. Tickets' = Tickets \ (Tickets \ Tickets')
  BY <1>2
<1>4. UNCHANGED <<[s \in Steps |-> step[s].attempt_count],
                  [s \in Steps |-> step[s].output_asset_id]>>
  BY DEF LedgerColumnsKept
<1>5. Ledger!Retire(Tickets \ Tickets')
  BY <1>3, <1>4 DEF Ledger!Retire
<1> QED BY <1>1, <1>5 DEF Ledger!Next

\* Which columns of a row the flushes of a late session leave alone.
LEMMA LedgerColumns ==
  ASSUME NEW row \in StepRow, NEW loaded \in StepRow
  PROVE  /\ \A retry \in BOOLEAN :
              /\ FailedRow(row, loaded, retry).attempt_count = row.attempt_count
              /\ FailedRow(row, loaded, retry).output_asset_id = row.output_asset_id
         /\ RecoveredRow(row, loaded).attempt_count = row.attempt_count
         /\ RecoveredRow(row, loaded).output_asset_id = row.output_asset_id
  BY DEF FailedRow, RecoveredRow, StepRow

\* The committed lease is the ticket the ledger issues.
LEMMA LeaseCommitIssues ==
  ASSUME LedgerInv, Inv', NEW t \in Tasks, LeaseCommit(t)
  PROVE  OutputInv' /\ Ledger!Issue(t, job[t])
<1> DEFINE s == job[t]
           n == step[s].attempt_count + 1
           row == LeasedRow(step[s], session[t].step, WorkerOf[t])
<1>1. /\ pc[t] = "leasing" /\ s \in Steps /\ step[s] \in StepRow
      /\ session[t].step.attempt_count = step[s].attempt_count
  BY DEF LedgerInv, Inv, TypeInv, TypeOK, TaskTyped, LeasingInv, LeaseCommit
<1>2. /\ step' = [step EXCEPT ![s] = row]
      /\ pc' = [pc EXCEPT ![t] = "leased"]
      /\ session' = [session EXCEPT ![t] = None]
      /\ attempt' = [attempt EXCEPT ![t] = n]
      /\ UNCHANGED job
  BY <1>1 DEF LeaseCommit
<1>3. row.attempt_count = n /\ row.output_asset_id = step[s].output_asset_id
  BY <1>1 DEF LeasedRow, StepRow
<1> HIDE DEF row
<1>4. /\ step'[s] = row /\ \A r \in Steps : r # s => step'[r] = step[r]
      /\ n \in Nat /\ step[s].output_asset_id \in Nat
      /\ step[s].output_asset_id < n /\ step[s].attempt_count < n
  BY <1>1, <1>2 DEF LedgerInv, Inv, TypeInv, TypeOK, OutputInv, StepRow
<1> HIDE DEF n
<1>5. OutputInv'
  <2>1. \A r \in Steps : step'[r].output_asset_id <= step'[r].attempt_count
    BY <1>3, <1>4 DEF LedgerInv, OutputInv
  <2>2. \A u \in Tasks : pc'[u] \in Executing =>
          step'[job'[u]].output_asset_id # attempt'[u]
    BY <1>1, <1>2, <1>3, <1>4
    DEF LedgerInv, Inv, TypeInv, TypeOK, TaskTyped, OutputInv, Executing
  <2>3. \A u \in Tasks : pc'[u] \in {"completing", "flushed"} =>
          session'[u].step.output_asset_id # attempt'[u]
    BY <1>2 DEF LedgerInv, Inv, TypeInv, TypeOK, OutputInv
  <2> QED BY <2>1, <2>2, <2>3 DEF OutputInv
<1>6. Tickets' = Tickets \union {[task |-> t, step |-> s, number |-> n]}
  <2>1. /\ pc[t] \notin Executing /\ pc'[t] \in Executing
        /\ \A u \in Tasks : u # t => /\ pc'[u] = pc[u]
                                     /\ attempt'[u] = attempt[u]
        /\ attempt'[t] = n /\ job' = job
    BY <1>1, <1>2 DEF LedgerInv, Inv, TypeInv, TypeOK, Executing
  <2> QED BY <2>1 DEF Tickets
<1>7. [r \in Steps |-> step[r].attempt_count]' =
        [[r \in Steps |-> step[r].attempt_count] EXCEPT ![s] = @ + 1]
  BY <1>1, <1>3, <1>4 DEF n
<1>8. UNCHANGED [r \in Steps |-> step[r].output_asset_id]
  BY <1>3, <1>4
<1> QED BY <1>1, <1>5, <1>6, <1>7, <1>8 DEF Ledger!Issue, n

\* A committed completion delivers the ticket of its task.
LEMMA CompleteCommitDelivers ==
  ASSUME LedgerInv, Inv', NEW t \in Tasks, NEW passed \in BOOLEAN,
         CompleteCommit(t, passed)
  PROVE  LET ticket == [task |-> t, step |-> job[t], number |-> attempt[t]]
         IN  OutputInv' /\ ticket \in Tickets /\ Ledger!Deliver(ticket)
<1> DEFINE s == job[t]
           ticket == [task |-> t, step |-> job[t], number |-> attempt[t]]
           row == SucceededRow(step[s], session[t].step, attempt[t])
<1>1. /\ pc[t] = "flushed" /\ s \in Steps /\ step[s] \in StepRow
      /\ session[t].step \in StepRow /\ attempt[t] \in 1..step[s].attempt_count
      /\ session[t].step.output_asset_id # attempt[t]
  BY DEF LedgerInv, Inv, TypeInv, TypeOK, TaskTyped, Session, OutputInv,
         AttemptsAreCounted, CompleteCommit, Executing
<1>2. step' = [step EXCEPT ![s] = row] /\ Finish(t)
  BY DEF CompleteCommit
<1>3. row.attempt_count = step[s].attempt_count /\ row.output_asset_id = attempt[t]
  BY <1>1 DEF SucceededRow, Flushed, StepRow
<1> HIDE DEF row
<1>4. step'[s] = row /\ \A r \in Steps : r # s => step'[r] = step[r]
  BY <1>1, <1>2 DEF LedgerInv, Inv, TypeInv, TypeOK
<1>5. /\ pc'[t] \notin Executing
      /\ \A u \in Tasks : u # t => /\ pc'[u] = pc[u] /\ job'[u] = job[u]
                                   /\ attempt'[u] = attempt[u]
                                   /\ session'[u] = session[u]
  BY <1>2 DEF Finish, LedgerInv, Inv, TypeInv, TypeOK, Executing
<1>6. OutputInv'
  <2>1. \A r \in Steps : step'[r].output_asset_id <= step'[r].attempt_count
    BY <1>1, <1>3, <1>4 DEF LedgerInv, OutputInv, StepRow
  <2>2. ASSUME NEW u \in Tasks, pc'[u] \in Executing
        PROVE  step'[job'[u]].output_asset_id # attempt'[u]
    <3>1. /\ u # t /\ pc[u] \in Executing /\ pc[t] \in Executing
          /\ job[u] \in Steps
      BY <1>1, <1>5, <2>2 DEF LedgerInv, Inv, TypeInv, TaskTyped, Executing
    <3>2. CASE job[u] = s
      BY <1>3, <1>4, <1>5, <3>1, <3>2 DEF LedgerInv, Inv, AttemptsAreCounted
    <3>3. CASE job[u] # s
      BY <1>4, <1>5, <3>1, <3>3 DEF LedgerInv, OutputInv
    <3> QED BY <3>2, <3>3
  <2>3. \A u \in Tasks : pc'[u] \in {"completing", "flushed"} =>
          session'[u].step.output_asset_id # attempt'[u]
    BY <1>5 DEF LedgerInv, OutputInv, Executing
  <2> QED BY <2>1, <2>2, <2>3 DEF OutputInv
<1>7. ticket \in Tickets
  BY <1>1 DEF Tickets, Executing
<1>8. Tickets' = Tickets \ {ticket}
  BY <1>5 DEF Tickets
<1>9. [r \in Steps |-> step[r].output_asset_id]' =
        [[r \in Steps |-> step[r].output_asset_id] EXCEPT ![s] = attempt[t]]
  BY <1>1, <1>3, <1>4
<1>10. UNCHANGED [r \in Steps |-> step[r].attempt_count]
  BY <1>3, <1>4
<1> QED BY <1>6, <1>7, <1>8, <1>9, <1>10 DEF Ledger!Deliver

\* Every step of a task, of recovery, of a crash or of the clock is a step of
\* the ledger.
LEMMA LedgerStep ==
  LedgerInv /\ Inv' /\ [Next]_vars => OutputInv' /\ [Ledger!Next]_Ledger!vars
<1> SUFFICES ASSUME LedgerInv, Inv', [Next]_vars
             PROVE  OutputInv' /\ [Ledger!Next]_Ledger!vars
  OBVIOUS
<1>0. TypeOK /\ \A t \in Tasks : TaskTyped(t)
  BY DEF LedgerInv, Inv, TypeInv
<1>1. ASSUME NEW t \in Tasks, LeaseCommit(t)
      PROVE  OutputInv' /\ [Ledger!Next]_Ledger!vars
  <2>1. OutputInv' /\ Ledger!Issue(t, job[t])
    BY <1>1, LeaseCommitIssues
  <2>2. job[t] \in Steps
    BY <1>0, <1>1 DEF LeaseCommit, TaskTyped
  <2> QED BY <2>1, <2>2 DEF Ledger!Next, Ledger!Issue
<1>2. ASSUME NEW t \in Tasks, NEW passed \in BOOLEAN, CompleteCommit(t, passed)
      PROVE  OutputInv' /\ [Ledger!Next]_Ledger!vars
  <2> DEFINE ticket == [task |-> t, step |-> job[t], number |-> attempt[t]]
  <2>1. OutputInv' /\ ticket \in Tickets /\ Ledger!Deliver(ticket)
    BY <1>2, CompleteCommitDelivers
  <2> HIDE DEF ticket
  <2> QED BY <2>1 DEF Ledger!Next, Ledger!Deliver
<1>3. ASSUME NEW t \in Tasks, NEW s \in Steps, LeaseRead(t, s) \/ RefuseDisabled(t, s)
      PROVE  OutputInv' /\ [Ledger!Next]_Ledger!vars
  <2>1. LedgerColumnsKept
    BY <1>0, <1>3
    DEF LeaseRead, RefuseDisabled, db, LedgerColumnsKept, TypeOK, StepRow
  <2>2. \A u \in Tasks : TicketKept(u)
    BY <1>0, <1>3
    DEF LeaseRead, RefuseDisabled, task, TicketKept, TypeOK, Executing
  <2> QED BY <2>1, <2>2, RetireStep
<1>4. ASSUME NEW t \in Tasks,
             DenyAuthorization(t) \/ LoadFails(t) \/ CallProvider(t)
             \/ ProviderFails(t) \/ OutputInvalid(t) \/ StoreOutput(t)
      PROVE  OutputInv' /\ [Ledger!Next]_Ledger!vars
  <2>1. /\ UNCHANGED <<step, job, attempt, session>>
        /\ pc[t] \in {"leased", "generating"}
        /\ \E where \in {"failing", "generating", "stored"} :
             pc' = [pc EXCEPT ![t] = where]
    BY <1>4 DEF DenyAuthorization, LoadFails, CallProvider, ProviderFails,
                OutputInvalid, StoreOutput, Fail, Goto, db
  <2>2. LedgerColumnsKept /\ \A u \in Tasks : TicketKept(u)
    BY <1>0, <2>1 DEF LedgerColumnsKept, TicketKept, TypeOK, Executing
  <2> QED BY <2>2, RetireStep
<1>5. ASSUME NEW t \in Tasks,
             MarkFailedRead(t) \/ CompleteRead(t) \/ CompleteFlush(t) \/ Raise(t)
      PROVE  OutputInv' /\ [Ledger!Next]_Ledger!vars
  <2>1. LedgerColumnsKept
    BY <1>5 DEF MarkFailedRead, CompleteRead, CompleteFlush, Raise, db,
                LedgerColumnsKept
  <2>2. CASE Finish(t)
    <3>1. \A u \in Tasks : TicketKept(u)
      BY <1>0, <2>2 DEF Finish, TicketKept, TypeOK, Executing
    <3> QED BY <2>1, <3>1, RetireStep
  <2>3. ASSUME NEW where \in {"marking", "completing", "flushed"}, Goto(t, where),
               pc[t] \in Executing,
               \/ session' = [session EXCEPT ![t] = Load(job[t])]
               \/ /\ pc[t] = "completing"
                  /\ session' = [session EXCEPT
                       ![t] = [Load(job[t]) EXCEPT !.step = session[t].step]]
        PROVE  OutputInv' /\ [Ledger!Next]_Ledger!vars
    <3>1. /\ pc' = [pc EXCEPT ![t] = where] /\ UNCHANGED <<job, attempt>>
      BY <2>3 DEF Goto
    <3>2. /\ \/ session'[t].step = step[job[t]]
             \/ /\ pc[t] = "completing"
                /\ session'[t].step = session[t].step
          /\ \A u \in Tasks : u # t => session'[u] = session[u]
      BY <1>0, <2>3 DEF TypeOK, Load
    <3>3. \A u \in Tasks : TicketKept(u)
      BY <1>0, <2>3, <3>1, <3>2 DEF TicketKept, TypeOK, Executing
    <3> QED BY <2>1, <3>3, RetireStep
  <2> QED BY <1>5, <2>2, <2>3
      DEF MarkFailedRead, CompleteRead, CompleteFlush, Raise, Executing
<1>6. ASSUME NEW t \in Tasks, MarkFailedCommit(t)
      PROVE  OutputInv' /\ [Ledger!Next]_Ledger!vars
  <2>1. /\ pc[t] = "marking" /\ job[t] \in Steps /\ step[job[t]] \in StepRow
        /\ session[t].step \in StepRow /\ ShouldRetry(t) \in BOOLEAN
    BY <1>0, <1>6 DEF TypeOK, TaskTyped, Session, MarkFailedCommit, ShouldRetry
  <2>2. /\ step' = [step EXCEPT ![job[t]] =
                      FailedRow(step[job[t]], session[t].step, ShouldRetry(t))]
        /\ Finish(t)
    BY <1>6 DEF MarkFailedCommit
  <2>3. LedgerColumnsKept
    BY <1>0, <2>1, <2>2, LedgerColumns DEF LedgerColumnsKept, TypeOK
  <2>4. \A u \in Tasks : TicketKept(u)
    BY <1>0, <2>2 DEF Finish, TicketKept, TypeOK, Executing
  <2> QED BY <2>3, <2>4, RetireStep
<1>7. ASSUME NEW w \in Workers, RecoverRead(w) \/ RecoverCommit(w)
      PROVE  OutputInv' /\ [Ledger!Next]_Ledger!vars
  <2>1. UNCHANGED task
    BY <1>7 DEF RecoverRead, RecoverCommit
  <2>2. \A u \in Tasks : TicketKept(u)
    BY <2>1 DEF task, TicketKept, Executing
  <2>3. CASE RecoverRead(w)
    BY <2>2, <2>3, RetireStep DEF RecoverRead, db, LedgerColumnsKept
  <2>4. CASE RecoverCommit(w)
    <3>1. \A s \in Steps : /\ step[s] \in StepRow
                           /\ scan[w][s] # None => scan[w][s] \in StepRow
      BY <1>0 DEF TypeOK
    <3>2. LedgerColumnsKept
      BY <2>4, <3>1, LedgerColumns DEF RecoverCommit, LedgerColumnsKept
    <3> QED BY <2>2, <3>2, RetireStep
  <2> QED BY <1>7, <2>3, <2>4
<1>8. ASSUME NEW w \in Workers, Crash(w)
      PROVE  OutputInv' /\ [Ledger!Next]_Ledger!vars
  <2>1. LedgerColumnsKept
    BY <1>8 DEF Crash, db, LedgerColumnsKept
  <2>2. \A u \in Tasks : TicketKept(u)
    BY <1>8 DEF Crash, TicketKept, Executing
  <2> QED BY <2>1, <2>2, RetireStep
<1>9. ASSUME NEW s \in Steps, LeaseExpires(s) \/ BackoffElapses(s)
      PROVE  OutputInv' /\ [Ledger!Next]_Ledger!vars
  <2>1. LedgerColumnsKept
    <3>1. CASE LeaseExpires(s)
      BY <1>0, <3>1 DEF LeaseExpires, LedgerColumnsKept, TypeOK, StepRow
    <3>2. CASE BackoffElapses(s)
      BY <1>0, <3>2 DEF BackoffElapses, LedgerColumnsKept, TypeOK, StepRow
    <3> QED BY <1>9, <3>1, <3>2
  <2>2. \A u \in Tasks : TicketKept(u)
    BY <1>9 DEF LeaseExpires, BackoffElapses, task, TicketKept, Executing
  <2> QED BY <2>1, <2>2, RetireStep
<1>10. ASSUME UNCHANGED vars
       PROVE  OutputInv' /\ [Ledger!Next]_Ledger!vars
  <2>1. LedgerColumnsKept /\ \A u \in Tasks : TicketKept(u)
    BY <1>10 DEF vars, LedgerColumnsKept, TicketKept, Executing
  <2> QED BY <2>1, RetireStep
<1>11. ASSUME NEW t \in Tasks, MarkFailedBatch(t)
       PROVE  OutputInv' /\ [Ledger!Next]_Ledger!vars
  <2>1. /\ UNCHANGED <<step, pc, job, attempt>> /\ pc[t] = "marking"
        /\ \A u \in Tasks : u # t => session'[u] = session[u]
    BY <1>11, BatchReread DEF LedgerInv, Inv
  <2>2. LedgerColumnsKept /\ \A u \in Tasks : TicketKept(u)
    BY <2>1 DEF LedgerColumnsKept, TicketKept, Executing
  <2> QED BY <2>2, RetireStep
<1> QED BY <1>1, <1>2, <1>3, <1>4, <1>5, <1>6, <1>7, <1>8, <1>9, <1>10, <1>11
    DEF Next, TaskStep, Hint

\* The workers implement the ledger of attempts: numbers are issued once, and
\* outputs are recorded only under the number of a running execution.
THEOREM LedgerKept == Spec => KeepsLedger
<1>1. Init => OutputInv /\ Ledger!Init
  <2> SUFFICES ASSUME Init PROVE OutputInv /\ Ledger!Init
    OBVIOUS
  <2>1. \A s \in Steps : step[s] = NewStep
    BY DEF Init
  <2>2. \A t \in Tasks : pc[t] \notin Executing
    BY DEF Init, Executing
  <2>3. Tickets = {}
    BY <2>2 DEF Tickets
  <2> QED BY <2>1, <2>2, <2>3 DEF OutputInv, NewStep, Ledger!Init, Executing
<1>2. LedgerInv /\ Inv' /\ [Next]_vars => LedgerInv'
  BY LedgerStep DEF LedgerInv
<1> QED
  BY <1>1, <1>2, InitInv, InvStep, Invariance, LedgerStep, PTL
  DEF Spec, KeepsLedger, Ledger!Spec, LedgerInv

-----------------------------------------------------------------------------
(* Until the first failure or overrun.                                     *)

Solitary ==
  \A t, u \in Tasks : t # u /\ {pc[t], pc[u]} \subseteq Executing => job[t] # job[u]

\* A lease is on the row exactly while the step runs, it never expires, and
\* attempts are left while the step waits.
RowQuiet(s) ==
  LET row == step[s] IN
  /\ row.lease_expires_at # "expired"
  /\ row.lease_expires_at = "live" <=> row.status = "running"
  /\ row.status = "running" => row.next_attempt_at # "later"
  /\ row.attempt_count <= MaxAttempts
  /\ row.status \in {"queued", "retry_queued"} => row.attempt_count < MaxAttempts

\* A session has loaded the rows as they are, and an execution has the number
\* of the newest attempt.
TaskQuiet(t) ==
  /\ pc[t] \in {"leasing", "marking", "completing", "flushed"} => session[t] = Load(job[t])
  /\ pc[t] = "leasing" => step[job[t]].status \in {"queued", "retry_queued"}
  /\ pc[t] \in Executing => /\ step[job[t]].status = "running"
                            /\ attempt[t] = step[job[t]].attempt_count

\* The batch and the revision of one step tell its story.
Follows(s) ==
  /\ step[s].status \in {"queued", "running", "retry_queued", "failed"}
       => batch[s] = step[s].status
  /\ step[s].status = "succeeded"
       => /\ batch[s] \in {"review_pending", "failed"}
          /\ step[s].output_asset_id = step[s].attempt_count
  /\ Kind[s] = "edit" => (revision[s] = "ready" <=> batch[s] = "review_pending")

StepQuiet(s) ==
  /\ RowQuiet(s) /\ Follows(s)
  /\ step[s].status = "running" => Held(s)

QuietInv ==
  /\ Inv
  /\ Undisturbed
  /\ \A w \in Workers : \A s \in Steps : scan[w][s] = None
  /\ Solitary
  /\ \A s \in Steps : StepQuiet(s)
  /\ \A t \in Tasks : TaskQuiet(t)

\* Nothing was written between the two reads of a failure.
LEMMA NoReread ==
  ASSUME QuietInv, NEW t \in Tasks
  PROVE  ~MarkFailedBatch(t)
<1> SUFFICES ASSUME MarkFailedBatch(t) PROVE FALSE
  OBVIOUS
<1>1. pc[t] = "marking" /\ session[t].batch # batch[job[t]]
  BY DEF MarkFailedBatch
<1>2. session[t] = Load(job[t])
  BY <1>1 DEF QuietInv, TaskQuiet
<1> QED BY <1>1, <1>2 DEF Load

LEMMA QuietTypes ==
  ASSUME QuietInv
  PROVE  /\ step \in [Steps -> StepRow] /\ batch \in [Steps -> BatchStatus]
         /\ revision \in [Steps -> RevisionStatus] /\ lock \in [Steps -> Tasks \union {None}]
         /\ pc \in [Tasks -> {"idle", "leasing"} \union Executing]
         /\ job \in [Tasks -> Steps \union {None}]
         /\ session \in [Tasks -> Session \union {None}]
         /\ attempt \in [Tasks -> Nat]
         /\ \A t \in Tasks : pc[t] # "idle" => job[t] \in Steps
  BY DEF QuietInv, Inv, TypeInv, TypeOK, TaskTyped

LEMMA InitQuiet == Init => QuietInv
<1> SUFFICES ASSUME Init PROVE QuietInv
  OBVIOUS
<1>1. ASSUME NEW s \in Steps PROVE StepQuiet(s)
  BY NoneAssumption, ConstantsAssumption
  DEF Init, NewStep, StepQuiet, RowQuiet, Follows
<1>2. \A t \in Tasks : pc[t] = "idle"
  BY DEF Init
<1>3. Solitary /\ \A t \in Tasks : TaskQuiet(t)
  BY <1>2 DEF Solitary, TaskQuiet, Executing
<1> QED BY <1>1, <1>3, InitInv DEF Init, QuietInv, Undisturbed

\* Two busy tasks have two steps: a lease is taken under the row lock of a
\* step that waits, and a step that waits is not executed.
LEMMA OneTaskPerStep ==
  ASSUME QuietInv, NEW t \in Tasks, NEW u \in Tasks, t # u, pc[t] # "idle", pc[u] # "idle"
  PROVE  job[t] # job[u]
<1>1. CASE pc[t] = "leasing" /\ pc[u] = "leasing"
  BY <1>1 DEF QuietInv, Inv, LockInv, LockHolding
<1>2. CASE pc[t] \in Executing /\ pc[u] \in Executing
  BY <1>2 DEF QuietInv, Solitary
<1>3. ASSUME NEW x \in Tasks, NEW y \in Tasks, pc[x] = "leasing", pc[y] \in Executing
      PROVE  job[x] # job[y]
  BY <1>3 DEF QuietInv, TaskQuiet
<1> QED BY <1>1, <1>2, <1>3, QuietTypes

\* A step that can be claimed, and whose row nobody has locked, has no task.
LEMMA ClaimableIsFree ==
  ASSUME QuietInv, NEW s \in Steps, Claimable(step[s]), Unlocked(s)
  PROVE  /\ step[s].status \in {"queued", "retry_queued"}
         /\ \A t \in Tasks : pc[t] # "idle" => job[t] # s
<1>1. step[s].status \in {"queued", "retry_queued"}
  BY DEF Claimable, QuietInv, StepQuiet, RowQuiet
<1>2. ASSUME NEW t \in Tasks, pc[t] # "idle", job[t] = s PROVE FALSE
  <2>1. pc[t] = "leasing"
    BY <1>1, <1>2, QuietTypes DEF QuietInv, TaskQuiet
  <2> QED BY <1>2, <2>1, NoneAssumption DEF QuietInv, Inv, LockInv, LockHolding, Unlocked
<1> QED BY <1>1, <1>2

\* A step of one task on the step it has, which no other task has.
LEMMA OwnStep ==
  ASSUME QuietInv, Inv', NEW t \in Tasks, NEW s \in Steps,
         \A u \in Tasks : u # t /\ pc[u] # "idle" => job[u] # s,
         \A u \in Tasks \ {t} : /\ pc'[u] = pc[u] /\ job'[u] = job[u]
                                /\ session'[u] = session[u] /\ attempt'[u] = attempt[u],
         \A r \in Steps \ {s} :
           step'[r] = step[r] /\ batch'[r] = batch[r] /\ revision'[r] = revision[r],
         pc[t] # "idle" => job[t] = s, pc'[t] # "idle" => job'[t] = s,
         UNCHANGED <<scan, stalls, faults>>,
         RowQuiet(s)', Follows(s)', TaskQuiet(t)',
         step'[s].status = "running" => pc'[t] \in Executing
  PROVE  QuietInv'
<1>1. \A u \in Tasks \ {t} : pc[u] # "idle" => job[u] \in Steps \ {s}
  BY QuietTypes
<1>2. ASSUME NEW u \in Tasks PROVE TaskQuiet(u)'
  <2>1. CASE u = t
    BY <2>1
  <2>2. CASE u # t
    BY <1>1, <2>2 DEF QuietInv, TaskQuiet, Load, Executing
  <2> QED BY <2>1, <2>2
<1>3. Solitary'
  BY <1>1 DEF QuietInv, Solitary, Executing
<1>4. ASSUME NEW r \in Steps PROVE StepQuiet(r)'
  <2>1. CASE r = s
    BY <2>1 DEF StepQuiet, Held, Executing
  <2>2. CASE r # s
    <3>1. RowQuiet(r)' /\ Follows(r)'
      BY <2>2 DEF QuietInv, StepQuiet, RowQuiet, Follows
    <3>2. Held(r) => Held(r)'
      BY <2>2 DEF Held, Executing
    <3> QED BY <2>2, <3>1, <3>2 DEF QuietInv, StepQuiet
  <2> QED BY <2>1, <2>2
<1> QED BY <1>2, <1>3, <1>4 DEF QuietInv, Undisturbed

\* A step that leaves the rows alone and whose session, if any, is up to date.
LEMMA RowsStay ==
  ASSUME QuietInv, Inv', NEW t \in Tasks, UNCHANGED db, UNCHANGED <<scan, stalls, faults>>,
         pc[t] \in Executing, pc'[t] \in Executing, job' = job, attempt' = attempt,
         \A u \in Tasks \ {t} : pc'[u] = pc[u] /\ session'[u] = session[u],
         pc'[t] \in {"marking", "completing", "flushed"} => session'[t] = Load(job[t])
  PROVE  QuietInv'
<1> DEFINE s == job[t]
<1>1. s \in Steps /\ pc[t] # "idle"
  BY QuietTypes DEF Executing
<1>2. \A u \in Tasks : u # t /\ pc[u] # "idle" => job[u] # s
  BY <1>1, OneTaskPerStep
<1>3. RowQuiet(s)' /\ Follows(s)'
  BY <1>1 DEF QuietInv, StepQuiet, RowQuiet, Follows, db
<1>4. TaskQuiet(t)'
  BY DEF QuietInv, TaskQuiet, Load, db, Executing
<1>5. \A r \in Steps : step'[r] = step[r] /\ batch'[r] = batch[r] /\ revision'[r] = revision[r]
  BY DEF db
<1> QED BY <1>1, <1>2, <1>3, <1>4, <1>5, OwnStep

\* A hint claims a waiting step, or gives it up with its batch.
LEMMA HintQuiet ==
  ASSUME QuietInv, Inv', NEW s \in Steps, Hint(s)
  PROVE  QuietInv'
<1>1. ASSUME NEW u \in Tasks, LeaseRead(u, s) PROVE QuietInv'
  <2>1. /\ UNCHANGED <<step, batch, revision, attempt, scan, stalls, faults>>
        /\ pc[u] = "idle" /\ Claimable(step[s]) /\ Unlocked(s)
        /\ pc' = [pc EXCEPT ![u] = "leasing"]
        /\ job' = [job EXCEPT ![u] = s]
        /\ session' = [session EXCEPT ![u] = Load(s)]
    BY <1>1 DEF LeaseRead, db
  <2>2. /\ step[s].status \in {"queued", "retry_queued"}
        /\ \A x \in Tasks : pc[x] # "idle" => job[x] # s
    BY <2>1, ClaimableIsFree
  <2>3. RowQuiet(s)' /\ Follows(s)'
    BY <2>1 DEF QuietInv, StepQuiet, RowQuiet, Follows
  <2>4. TaskQuiet(u)'
    BY <2>1, <2>2, QuietTypes DEF TaskQuiet, Load, Executing
  <2>5. \A x \in Tasks \ {u} : /\ pc'[x] = pc[x] /\ job'[x] = job[x]
                               /\ session'[x] = session[x] /\ attempt'[x] = attempt[x]
    BY <2>1, QuietTypes
  <2>6. pc'[u] = "leasing" /\ job'[u] = s
    BY <2>1, QuietTypes
  <2> QED BY <2>1, <2>2, <2>3, <2>4, <2>5, <2>6, OwnStep
<1>2. ASSUME NEW u \in Tasks, RefuseDisabled(u, s) PROVE QuietInv'
  <2>1. /\ UNCHANGED <<revision, pc, job, session, attempt, scan, stalls, faults>>
        /\ pc[u] = "idle" /\ Claimable(step[s]) /\ Unlocked(s)
        /\ step' = [step EXCEPT ![s] = [step[s] EXCEPT !.status = "failed"]]
        /\ batch' = [batch EXCEPT ![s] = "failed"]
    BY <1>2 DEF RefuseDisabled, task
  <2>2. /\ step[s].status \in {"queued", "retry_queued"}
        /\ \A x \in Tasks : pc[x] # "idle" => job[x] # s
    BY <2>1, ClaimableIsFree
  <2>3. RowQuiet(s)' /\ Follows(s)'
    BY <2>1, <2>2, QuietTypes DEF QuietInv, StepQuiet, RowQuiet, Follows, StepRow
  <2>4. TaskQuiet(u)'
    BY <2>1 DEF TaskQuiet, Executing
  <2>5. step'[s].status = "failed"
    BY <2>1, QuietTypes DEF StepRow
  <2>6. \A r \in Steps \ {s} : step'[r] = step[r] /\ batch'[r] = batch[r]
    BY <2>1, QuietTypes
  <2> QED BY <2>1, <2>2, <2>3, <2>4, <2>5, <2>6, OwnStep
<1> QED BY <1>1, <1>2 DEF Hint

\* A lease is written over the very row it was tested on.
LEMMA LeaseQuiet ==
  ASSUME QuietInv, Inv', NEW t \in Tasks, LeaseCommit(t)
  PROVE  QuietInv'
<1> DEFINE s == job[t]
           row == LeasedRow(step[s], step[s], WorkerOf[t])
<1>1. /\ pc[t] = "leasing" /\ s \in Steps /\ session[t] = Load(s)
      /\ step[s] \in StepRow /\ step[s].status \in {"queued", "retry_queued"}
      /\ step[s].next_attempt_at # "later"
  BY QuietTypes DEF LeaseCommit, QuietInv, TaskQuiet, Inv, LeasingInv
<1>2. /\ step' = [step EXCEPT ![s] = row]
      /\ batch' = [batch EXCEPT ![s] = "running"]
      /\ pc' = [pc EXCEPT ![t] = "leased"]
      /\ session' = [session EXCEPT ![t] = None]
      /\ attempt' = [attempt EXCEPT ![t] = step[s].attempt_count + 1]
      /\ UNCHANGED <<revision, job, scan, stalls, faults>>
  <2>1. session[t].step = step[s] /\ session[t].batch = batch[s]
    BY <1>1 DEF Load
  <2>2. Flushed(batch[s], batch[s], "running") = "running"
    BY DEF Flushed
  <2> QED BY <2>1, <2>2 DEF LeaseCommit
<1>3. \A u \in Tasks : u # t /\ pc[u] # "idle" => job[u] # s
  BY <1>1, OneTaskPerStep
<1>4. /\ row.status = "running" /\ row.lease_expires_at = "live"
      /\ row.attempt_count = step[s].attempt_count + 1 /\ row.next_attempt_at # "later"
  BY <1>1, NoneAssumption DEF LeasedRow, Flushed, StepRow
<1>5. step[s].attempt_count < MaxAttempts /\ step[s].attempt_count \in Nat
  BY <1>1 DEF QuietInv, StepQuiet, RowQuiet, StepRow
<1>6. batch[s] = step[s].status /\ (Kind[s] = "edit" => revision[s] # "ready")
  BY <1>1 DEF QuietInv, StepQuiet, Follows
<1> HIDE DEF row
<1>7. /\ step'[s] = row /\ batch'[s] = "running" /\ revision'[s] = revision[s]
      /\ pc'[t] = "leased" /\ job'[t] = s /\ attempt'[t] = step[s].attempt_count + 1
  BY <1>1, <1>2, QuietTypes
<1>8. RowQuiet(s)'
  BY <1>4, <1>5, <1>7, ConstantsAssumption DEF RowQuiet
<1>9. Follows(s)'
  BY <1>4, <1>6, <1>7 DEF Follows
<1>10. TaskQuiet(t)'
  BY <1>4, <1>7 DEF TaskQuiet, Executing
<1>11. \A r \in Steps \ {s} : step'[r] = step[r] /\ batch'[r] = batch[r]
  BY <1>1, <1>2, QuietTypes
<1>12. \A u \in Tasks \ {t} : /\ pc'[u] = pc[u] /\ job'[u] = job[u]
                              /\ session'[u] = session[u] /\ attempt'[u] = attempt[u]
  BY <1>2, QuietTypes
<1>13. pc'[t] \in Executing
  BY <1>7 DEF Executing
<1> HIDE DEF s
<1> QED BY <1>1, <1>2, <1>3, <1>7, <1>8, <1>9, <1>10, <1>11, <1>12, <1>13, OwnStep DEF s

\* Between lease and commit a task only moves on, with the rows as they are.
LEMMA MoveQuiet ==
  ASSUME QuietInv, Inv', NEW t \in Tasks,
         DenyAuthorization(t) \/ LoadFails(t) \/ CallProvider(t) \/ ProviderFails(t)
         \/ OutputInvalid(t) \/ StoreOutput(t)
  PROVE  QuietInv'
<1>1. /\ UNCHANGED db /\ UNCHANGED <<scan, stalls, faults>>
      /\ UNCHANGED <<job, session, attempt>>
      /\ pc[t] \in {"leased", "generating"}
      /\ \E where \in {"failing", "generating", "stored"} : pc' = [pc EXCEPT ![t] = where]
  BY DEF DenyAuthorization, LoadFails, CallProvider, ProviderFails, OutputInvalid,
         StoreOutput, Fail, Goto
<1>2. pc'[t] \in {"failing", "generating", "stored"}
      /\ \A u \in Tasks \ {t} : pc'[u] = pc[u]
  BY <1>1, QuietTypes
<1> QED BY <1>1, <1>2, RowsStay DEF Executing

\* The session of a failure or a completion opens on a row that still runs.
LEMMA ReadQuiet ==
  ASSUME QuietInv, Inv', NEW t \in Tasks, MarkFailedRead(t) \/ CompleteRead(t)
  PROVE  QuietInv'
<1>1. pc[t] \in {"failing", "stored"} /\ step[job[t]].status = "running"
  BY DEF MarkFailedRead, CompleteRead, QuietInv, TaskQuiet, Executing
<1>2. /\ UNCHANGED db /\ UNCHANGED <<scan, stalls, faults>>
      /\ UNCHANGED <<job, attempt>>
      /\ session' = [session EXCEPT ![t] = Load(job[t])]
      /\ \E where \in {"marking", "completing"} : pc' = [pc EXCEPT ![t] = where]
  BY <1>1 DEF MarkFailedRead, CompleteRead, Goto, Terminal
<1>3. /\ pc'[t] \in {"marking", "completing"} /\ session'[t] = Load(job[t])
      /\ \A u \in Tasks \ {t} : pc'[u] = pc[u] /\ session'[u] = session[u]
  BY <1>2, QuietTypes
<1> QED BY <1>1, <1>2, <1>3, RowsStay DEF Executing

\* The batch a completion loads is the one its step was loaded with.
LEMMA FlushQuiet ==
  ASSUME QuietInv, Inv', NEW t \in Tasks, CompleteFlush(t)
  PROVE  QuietInv'
<1>1. /\ UNCHANGED db /\ UNCHANGED <<scan, stalls, faults>>
      /\ UNCHANGED <<job, attempt>> /\ pc[t] = "completing"
      /\ session' = [session EXCEPT ![t] = [Load(job[t]) EXCEPT !.step = session[t].step]]
      /\ pc' = [pc EXCEPT ![t] = "flushed"]
  BY DEF CompleteFlush, Goto
<1>2. session[t] = Load(job[t])
  BY <1>1 DEF QuietInv, TaskQuiet
<1>3. [Load(job[t]) EXCEPT !.step = session[t].step] = Load(job[t])
  BY <1>2 DEF Load
<1>4. /\ pc'[t] = "flushed" /\ session'[t] = Load(job[t])
      /\ \A u \in Tasks \ {t} : pc'[u] = pc[u] /\ session'[u] = session[u]
  BY <1>1, <1>3, QuietTypes
<1> QED BY <1>1, <1>4, RowsStay DEF Executing

\* A failure is written over the running row it was read from, and retried
\* only while attempts are left.
LEMMA FailQuiet ==
  ASSUME QuietInv, Inv', NEW t \in Tasks, NEW s \in Steps, job[t] = s, MarkFailedCommit(t)
  PROVE  QuietInv'
<1> DEFINE retry == ShouldRetry(t)
           row == FailedRow(step[s], step[s], retry)
           verdict == IF retry THEN "retry_queued" ELSE "failed"
<1>1. /\ pc[t] = "marking" /\ s \in Steps /\ session[t] = Load(s)
      /\ step[s] \in StepRow /\ step[s].status = "running" /\ batch[s] = "running"
  BY QuietTypes DEF MarkFailedCommit, QuietInv, TaskQuiet, StepQuiet, Follows, Executing
<1>2. session[t].step = step[s] /\ session[t].batch = batch[s]
  BY <1>1 DEF Load
<1>3. /\ step' = [step EXCEPT ![s] = row]
      /\ batch' = [batch EXCEPT ![s] = verdict]
      /\ revision' = IF Kind[s] = "edit" THEN [revision EXCEPT ![s] = "failed"] ELSE revision
      /\ Finish(t) /\ UNCHANGED <<scan, stalls, faults>>
  <2>1. Flushed(batch[s], batch[s], verdict) = verdict
    BY <1>1 DEF Flushed
  <2> QED BY <1>2, <2>1 DEF MarkFailedCommit
<1>4. \A u \in Tasks : u # t /\ pc[u] # "idle" => job[u] # s
  BY <1>1, OneTaskPerStep
<1>5. /\ row.status = verdict /\ row.lease_expires_at = None
      /\ row.attempt_count = step[s].attempt_count
  BY <1>1, NoneAssumption DEF FailedRow, Flushed, StepRow
<1>6. retry => step[s].attempt_count < MaxAttempts
  BY <1>2 DEF ShouldRetry
<1>7. step[s].attempt_count <= MaxAttempts
  BY <1>1 DEF QuietInv, StepQuiet, RowQuiet
<1>8. batch[s] # "review_pending" /\ (Kind[s] = "edit" => revision[s] # "ready")
  BY <1>1 DEF QuietInv, StepQuiet, Follows
<1>9. verdict \in {"retry_queued", "failed"} /\ (verdict = "retry_queued" => retry)
  OBVIOUS
<1> HIDE DEF row, verdict, retry
<1>10. /\ step'[s] = row /\ batch'[s] = verdict /\ pc'[t] = "idle"
       /\ revision'[s] # "ready" \/ Kind[s] # "edit"
  BY <1>1, <1>3, QuietTypes DEF Finish
<1>11. RowQuiet(s)'
  BY <1>5, <1>6, <1>7, <1>9, <1>10, NoneAssumption DEF RowQuiet
<1>12. Follows(s)'
  BY <1>5, <1>9, <1>10 DEF Follows
<1>13. TaskQuiet(t)' /\ step'[s].status # "running"
  BY <1>5, <1>9, <1>10 DEF TaskQuiet, Executing
<1>14. \A r \in Steps \ {s} :
         step'[r] = step[r] /\ batch'[r] = batch[r] /\ revision'[r] = revision[r]
  BY <1>1, <1>3, QuietTypes
<1>15. \A u \in Tasks \ {t} : /\ pc'[u] = pc[u] /\ job'[u] = job[u]
                              /\ session'[u] = session[u] /\ attempt'[u] = attempt[u]
  BY <1>3, QuietTypes DEF Finish
<1> QED BY <1>1, <1>3, <1>4, <1>10, <1>11, <1>12, <1>13, <1>14, <1>15, OwnStep

\* A completion is written over the running row it was read from, with the
\* number of the newest attempt.
LEMMA CompleteQuiet ==
  ASSUME QuietInv, Inv', NEW t \in Tasks, NEW s \in Steps, job[t] = s,
         NEW passed \in BOOLEAN, CompleteCommit(t, passed)
  PROVE  QuietInv'
<1> DEFINE row == SucceededRow(step[s], step[s], attempt[t])
           verdict == IF passed THEN "review_pending" ELSE "failed"
<1>1. /\ pc[t] = "flushed" /\ s \in Steps /\ session[t] = Load(s)
      /\ step[s] \in StepRow /\ step[s].status = "running" /\ batch[s] = "running"
      /\ attempt[t] = step[s].attempt_count
  BY QuietTypes DEF CompleteCommit, QuietInv, TaskQuiet, StepQuiet, Follows, Executing
<1>2. session[t].step = step[s] /\ session[t].batch = batch[s]
  BY <1>1 DEF Load
<1>3. /\ step' = [step EXCEPT ![s] = row]
      /\ batch' = [batch EXCEPT ![s] = verdict]
      /\ revision' = IF Kind[s] = "edit"
                     THEN [revision EXCEPT ![s] = IF passed THEN "ready" ELSE "failed"]
                     ELSE revision
      /\ Finish(t) /\ UNCHANGED <<scan, stalls, faults>>
  <2>1. BatchVerdict(s, batch[s], passed) = verdict
    BY <1>1 DEF BatchVerdict, Flushed, CompleteCommit
  <2> QED BY <1>2, <2>1 DEF CompleteCommit
<1>4. \A u \in Tasks : u # t /\ pc[u] # "idle" => job[u] # s
  BY <1>1, OneTaskPerStep
<1>5. /\ row.status = "succeeded" /\ row.lease_expires_at = None
      /\ row.attempt_count = step[s].attempt_count
      /\ row.output_asset_id = step[s].attempt_count
  BY <1>1, NoneAssumption DEF SucceededRow, Flushed, StepRow
<1>6. step[s].attempt_count <= MaxAttempts
  BY <1>1 DEF QuietInv, StepQuiet, RowQuiet
<1>7. verdict \in {"review_pending", "failed"} /\ (verdict = "review_pending" <=> passed)
  OBVIOUS
<1> HIDE DEF row, verdict
<1>8. /\ step'[s] = row /\ batch'[s] = verdict /\ pc'[t] = "idle"
      /\ Kind[s] = "edit" => (revision'[s] = "ready" <=> passed)
  BY <1>1, <1>3, QuietTypes DEF Finish
<1>9. RowQuiet(s)'
  BY <1>5, <1>6, <1>8, NoneAssumption DEF RowQuiet
<1>10. Follows(s)'
  BY <1>5, <1>7, <1>8 DEF Follows
<1>11. TaskQuiet(t)' /\ step'[s].status # "running"
  BY <1>5, <1>8 DEF TaskQuiet, Executing
<1>12. \A r \in Steps \ {s} :
         step'[r] = step[r] /\ batch'[r] = batch[r] /\ revision'[r] = revision[r]
  BY <1>1, <1>3, QuietTypes
<1>13. \A u \in Tasks \ {t} : /\ pc'[u] = pc[u] /\ job'[u] = job[u]
                              /\ session'[u] = session[u] /\ attempt'[u] = attempt[u]
  BY <1>3, QuietTypes DEF Finish
<1> QED BY <1>1, <1>3, <1>4, <1>8, <1>9, <1>10, <1>11, <1>12, <1>13, OwnStep

\* A step that disturbs nothing is none of a failure, an overrun or a recovery.
LEMMA NoDisturbance ==
  ASSUME QuietInv, Undisturbed'
  PROVE  /\ \A t \in Tasks : ~Raise(t)
         /\ \A w \in Workers : ~RecoverRead(w) /\ ~RecoverCommit(w) /\ ~Crash(w)
         /\ \A s \in Steps : ~LeaseExpires(s)
<1>1. \A t \in Tasks : ~Raise(t)
  BY DEF Raise, QuietInv, Undisturbed
<1>2. \A w \in Workers : ~Crash(w)
  BY DEF Crash, QuietInv, Undisturbed
<1>3. \A w \in Workers : ~RecoverRead(w)
  BY DEF RecoverRead, Expired, QuietInv, StepQuiet, RowQuiet
<1>4. \A w \in Workers : ~RecoverCommit(w)
  BY DEF RecoverCommit, QuietInv
<1>5. \A s \in Steps : ~LeaseExpires(s)
  BY DEF LeaseExpires, QuietInv, StepQuiet, RowQuiet, Undisturbed
<1> QED BY <1>1, <1>2, <1>3, <1>4, <1>5

\* A backoff elapses on a row that waits or is final, which no task has.
LEMMA BackoffQuiet ==
  ASSUME QuietInv, Inv', NEW s \in Steps, BackoffElapses(s)
  PROVE  QuietInv'
<1>1. /\ step[s].next_attempt_at = "later" /\ step[s].status # "running"
      /\ step' = [step EXCEPT ![s] = [step[s] EXCEPT !.next_attempt_at = "due"]]
      /\ UNCHANGED <<batch, revision, pc, job, session, attempt, scan, stalls, faults>>
  BY DEF BackoffElapses, task, QuietInv, StepQuiet, RowQuiet
<1>2. ASSUME NEW u \in Tasks, pc[u] # "idle" PROVE job[u] # s
  BY <1>1, <1>2, QuietTypes DEF QuietInv, TaskQuiet, Inv, LeasingInv
<1>3. /\ \A c \in {"status", "attempt_count", "lease_expires_at", "output_asset_id"} :
           step'[s][c] = step[s][c]
      /\ \A r \in Steps \ {s} : step'[r] = step[r]
  BY <1>1, QuietTypes DEF StepRow
<1>4. ASSUME NEW u \in Tasks PROVE TaskQuiet(u)'
  BY <1>1, <1>2, <1>3, QuietTypes DEF QuietInv, TaskQuiet, Load, Executing
<1>5. ASSUME NEW r \in Steps PROVE StepQuiet(r)'
  <2>1. CASE r = s
    BY <1>1, <1>3, <2>1 DEF QuietInv, StepQuiet, RowQuiet, Follows
  <2>2. CASE r # s
    BY <1>1, <1>3, <2>2 DEF QuietInv, StepQuiet, RowQuiet, Follows, Held
  <2> QED BY <2>1, <2>2
<1>6. Solitary'
  BY <1>1 DEF QuietInv, Solitary
<1> QED BY <1>1, <1>4, <1>5, <1>6 DEF QuietInv, Undisturbed

\* QuietInv lasts as long as nothing is disturbed.
LEMMA QuietStep ==
  ASSUME QuietInv, [Next]_vars, Undisturbed'
  PROVE  QuietInv'
<1>1. Inv'
  BY InvStep DEF QuietInv
<1>2. CASE UNCHANGED vars
  BY <1>1, <1>2
  DEF vars, QuietInv, Solitary, StepQuiet, RowQuiet, Follows, Held, TaskQuiet, Load
<1>3. ASSUME NEW t \in Tasks, TaskStep(t) PROVE QuietInv'
  <2>1. MarkFailedCommit(t) \/ (\E passed \in BOOLEAN : CompleteCommit(t, passed))
        => job[t] \in Steps
    BY QuietTypes DEF MarkFailedCommit, CompleteCommit
  <2>2. MarkFailedCommit(t) \/ (\E passed \in BOOLEAN : CompleteCommit(t, passed)) => QuietInv'
    BY <1>1, <2>1, FailQuiet, CompleteQuiet
  <2> QED BY <1>1, <1>3, <2>2, LeaseQuiet, MoveQuiet, ReadQuiet, FlushQuiet DEF TaskStep
<1>4. CASE Next
  BY <1>1, <1>3, <1>4, HintQuiet, NoDisturbance, BackoffQuiet, NoReread DEF Next
<1> QED BY <1>2, <1>4

\* What was disturbed stays so: the counters only grow.
LEMMA DisturbedForGood ==
  ASSUME Inv, [Next]_vars, Undisturbed'
  PROVE  Undisturbed
<1>1. stalls \in Nat /\ faults \in Nat
  BY DEF Inv, TypeInv, TypeOK
<1>2. stalls' \in {stalls, stalls + 1} /\ faults' \in {faults, faults + 1}
  BY DEF Next, TaskStep, Hint, vars, LeaseCommit, MarkFailedCommit, CompleteCommit, LeaseRead,
         RefuseDisabled, DenyAuthorization, LoadFails, CallProvider, ProviderFails, OutputInvalid,
         StoreOutput, MarkFailedRead, MarkFailedBatch, CompleteRead, CompleteFlush, Raise, RecoverRead,
         RecoverCommit, Crash, LeaseExpires, BackoffElapses
<1> QED BY <1>1, <1>2 DEF Undisturbed

LEMMA QuietInvariant == Spec => [](Undisturbed => QuietInv)
<1>1. Inv /\ (Undisturbed => QuietInv) /\ [Next]_vars => (Undisturbed' => QuietInv')
  BY QuietStep, DisturbedForGood
<1> QED BY <1>1, InitQuiet, Invariance, PTL DEF Spec

\* Until a worker fails or a lease expires under its execution, no two tasks
\* ever execute one step at the same time, however many hints are delivered,
\* and in whatever order their sessions commit.
THEOREM ExecutionsExclusive == Spec => []SingleExecution
<1>1. (Undisturbed => QuietInv) => SingleExecution
  BY DEF QuietInv, Solitary, SingleExecution
<1> QED BY <1>1, QuietInvariant, PTL

\* Until then the batch and the revision always follow their step, and the
\* output of a step is the one of its newest attempt.
THEOREM BatchesFollow == Spec => []BatchFollowsStep
<1>1. (Undisturbed => QuietInv) => BatchFollowsStep
  BY DEF QuietInv, StepQuiet, Follows, BatchFollowsStep
<1> QED BY <1>1, QuietInvariant, PTL

\* Nobody claims a step that succeeded, and no late session writes over it.
LEMMA FinalWhileQuiet ==
  ASSUME QuietInv, Next, Undisturbed', NEW s \in Steps, step[s].status = "succeeded"
  PROVE  step'[s].status = "succeeded"
<1>1. ASSUME NEW t \in Tasks, TaskStep(t), step'[s] # step[s] PROVE FALSE
  <2>1. pc[t] # "idle" => job[t] # s
    BY QuietTypes DEF QuietInv, TaskQuiet, Inv, LeasingInv
  <2>2. step' = step \/ (pc[t] # "idle" /\ \E row : step' = [step EXCEPT ![job[t]] = row])
    BY <1>1 DEF TaskStep, LeaseCommit, MarkFailedCommit, CompleteCommit, db,
                DenyAuthorization, LoadFails, CallProvider, ProviderFails, OutputInvalid,
                StoreOutput, MarkFailedRead, CompleteRead, CompleteFlush
  <2> QED BY <1>1, <2>1, <2>2, QuietTypes
<1>2. ASSUME NEW r \in Steps, Hint(r), step'[s] # step[s] PROVE FALSE
  BY <1>2, ClaimableIsFree, QuietTypes DEF Hint, LeaseRead, RefuseDisabled, db
<1>3. ASSUME NEW r \in Steps, BackoffElapses(r) PROVE step'[s].status = "succeeded"
  BY <1>3, QuietTypes DEF BackoffElapses, StepRow
<1> QED BY <1>1, <1>2, <1>3, NoDisturbance, NoReread DEF Next

\* Until the first failure or overrun a step that succeeded is final: it is never
\* claimable again, whatever duplicated hints, refusals and retries of other steps
\* do (_lease_step tests the status under the row lock).
THEOREM CompletionIsFinal == Spec => CompletedStaysCompleted
<1>1. Inv /\ (Undisturbed => QuietInv) /\ [Next]_vars
      => [Undisturbed' => \A s \in Steps : step[s].status = "succeeded"
                                            => step'[s].status = "succeeded"]_vars
  <2> SUFFICES ASSUME Inv, Undisturbed => QuietInv, Next, Undisturbed',
                      NEW s \in Steps, step[s].status = "succeeded"
               PROVE  step'[s].status = "succeeded"
    OBVIOUS
  <2> QED BY DisturbedForGood, FinalWhileQuiet
<1> QED BY <1>1, QuietInvariant, Invariance, PTL DEF Spec, CompletedStaysCompleted

-----------------------------------------------------------------------------
(* The attempts, in any environment.                                       *)

\* Executions of a step that may still put it back in the queue.
Early(s) == {t \in Tasks : job[t] = s /\ pc[t] \in Executing /\ attempt[t] < MaxAttempts}

\* Recovery sessions that will put the step back in the queue.
Scanning(s) == {w \in Workers : scan[w][s] # None}

\* The newest attempt at a step is still executed.
Newest(s) ==
  \E t \in Tasks : /\ job[t] = s /\ pc[t] \in Executing
                   /\ attempt[t] = step[s].attempt_count

Waiting(row) == row.status \in {"queued", "retry_queued"}

\* Once the lease of a row is out, or nobody is left to end it, a task may take
\* the step over, and so may every worker that has not scanned it yet.
Takeovers(row, scanning, newest) ==
  IF row.status # "running" THEN 0
  ELSE IF row.lease_expires_at = "expired"
       THEN 1 + Cardinality(Workers) - Cardinality(scanning)
       ELSE IF newest THEN 0 ELSE 1 + Cardinality(Workers)

\* The attempts a row has, or may still get if nothing else fails or overruns.
Owed(row, early, scanning, newest) ==
  (IF row.attempt_count < MaxAttempts THEN MaxAttempts - 1 ELSE row.attempt_count)
  + (IF Waiting(row) THEN 1 ELSE 0)
  + Cardinality(early) + Cardinality(scanning) + Takeovers(row, scanning, newest)

Potential(s) == Owed(step[s], Early(s), Scanning(s), Newest(s))

Budget(n) == MaxAttempts + (Cardinality(Workers) + 1) * n

\* The session of a failure has loaded its own attempt or a later one, and its
\* own only while that runs.
MarkingInv ==
  \A t \in Tasks : pc[t] = "marking" =>
    /\ attempt[t] <= session[t].step.attempt_count
    /\ /\ step[job[t]].status = "running"
       /\ attempt[t] = step[job[t]].attempt_count
       => session[t].step.status = "running"

BoundInv ==
  /\ MarkingInv
  /\ \A s \in Steps : Potential(s) <= Budget(stalls + faults)

LEMMA Counting ==
  /\ Cardinality(Workers) \in Nat
  /\ \A C \in SUBSET Workers : /\ Cardinality(C) \in Nat
                               /\ Cardinality(C) <= Cardinality(Workers)
  /\ \A E \in SUBSET Tasks : Cardinality(E) \in Nat
<1>1. /\ IsFiniteSet(Workers) /\ IsFiniteSet(Tasks)
      /\ \A C \in SUBSET Workers : IsFiniteSet(C) /\ Cardinality(C) <= Cardinality(Workers)
      /\ \A E \in SUBSET Tasks : IsFiniteSet(E)
  BY ConstantsAssumption, FS_Subset
<1> QED BY <1>1, FS_CardinalityType

\* A part of a set has no more elements than the set, and less when it lacks one.
LEMMA PartsAreSmaller ==
  ASSUME NEW S, IsFiniteSet(S), NEW A \in SUBSET S
  PROVE  /\ Cardinality(A) \in Nat /\ Cardinality(S) \in Nat
         /\ Cardinality(A) <= Cardinality(S)
         /\ \A x \in S : x \notin A => Cardinality(A) + 1 <= Cardinality(S)
<1>1. IsFiniteSet(A) /\ Cardinality(A) <= Cardinality(S)
  BY FS_Subset
<1>2. Cardinality(A) \in Nat /\ Cardinality(S) \in Nat
  BY <1>1, FS_CardinalityType
<1>3. ASSUME NEW x \in S, x \notin A PROVE Cardinality(A) + 1 <= Cardinality(S)
  <2>1. A \union {x} \in SUBSET S
    BY <1>3
  <2>2. Cardinality(A \union {x}) = Cardinality(A) + 1
    BY <1>1, <1>3, FS_AddElement
  <2>3. Cardinality(A \union {x}) <= Cardinality(S)
    BY <2>1, FS_Subset
  <2> QED BY <2>2, <2>3
<1> QED BY <1>1, <1>2, <1>3

\* What one more element adds.
LEMMA OneMore ==
  ASSUME NEW S, IsFiniteSet(S), NEW x
  PROVE  /\ Cardinality(S \union {x}) \in Nat /\ Cardinality(S) \in Nat
         /\ Cardinality(S \union {x}) <= Cardinality(S) + 1
         /\ x \notin S => Cardinality(S \union {x}) = Cardinality(S) + 1
  BY FS_CardinalityType, FS_AddElement

LEMMA OwedTypes ==
  ASSUME NEW row \in StepRow, NEW E \in SUBSET Tasks, NEW C \in SUBSET Workers,
         NEW n \in BOOLEAN
  PROVE  /\ row.attempt_count \in Nat /\ Takeovers(row, C, n) \in Nat
         /\ Owed(row, E, C, n) \in Nat
         /\ row.attempt_count <= Owed(row, E, C, n)
<1>1. row.attempt_count \in Nat
  BY DEF StepRow
<1>2. Takeovers(row, C, n) \in Nat
  BY Counting DEF Takeovers
<1>3. Cardinality(E) \in Nat /\ Cardinality(C) \in Nat
  BY Counting
<1>4. MaxAttempts \in Nat \ {0}
  BY ConstantsAssumption
<1> HIDE DEF Takeovers
<1> QED BY <1>1, <1>2, <1>3, <1>4 DEF Owed

\* How an action may change what a row owes: nothing of it is spent by hints
\* and failures that only reorder it.
LEMMA OwedShrinks ==
  ASSUME NEW r1 \in StepRow, NEW E1 \in SUBSET Tasks, NEW C1 \in SUBSET Workers,
         NEW n1 \in BOOLEAN,
         NEW r2 \in StepRow, NEW E2 \in SUBSET E1, NEW C2 \in SUBSET C1, NEW n2 \in BOOLEAN,
         r2.attempt_count = r1.attempt_count
  PROVE  \* The row is as it was.
         /\ /\ r2.status = r1.status /\ C2 = C1
            /\ r1.status = "running" =>
                 r2.lease_expires_at = r1.lease_expires_at /\ (n1 => n2)
            => Owed(r2, E2, C2, n2) <= Owed(r1, E1, C1, n1)
         \* The step comes to an end.
         /\ r2.status \in Terminal => Owed(r2, E2, C2, n2) <= Owed(r1, E1, C1, n1)
         \* An execution, or a recovery session, puts the step back.
         /\ r2.status = "retry_queued" /\ (E2 # E1 \/ C2 # C1)
            => Owed(r2, E2, C2, n2) <= Owed(r1, E1, C1, n1)
         \* A lease without an execution expires.
         /\ /\ r2.status = r1.status /\ C2 = C1
            /\ r1.status = "running" => r1.lease_expires_at = "live" /\ ~n1
            => Owed(r2, E2, C2, n2) <= Owed(r1, E1, C1, n1)
         \* An execution or a worker is lost, or its lease expires.
         /\ r2.status = r1.status
            => Owed(r2, E2, C2, n2) <= Owed(r1, E1, C1, n1) + Cardinality(Workers) + 1
<1> DEFINE W == Cardinality(Workers)
           e1 == Cardinality(E1)  e2 == Cardinality(E2)
           c1 == Cardinality(C1)  c2 == Cardinality(C2)
<1>1. IsFiniteSet(E1) /\ IsFiniteSet(C1)
  BY ConstantsAssumption, FS_Subset
<1>2. /\ e1 \in Nat /\ e2 \in Nat /\ e2 <= e1 /\ (E2 # E1 => e2 + 1 <= e1)
      /\ c1 \in Nat /\ c2 \in Nat /\ c2 <= c1 /\ (C2 # C1 => c2 + 1 <= c1)
  BY <1>1, PartsAreSmaller
<1>3. W \in Nat /\ c1 <= W /\ c2 <= W
  BY Counting
<1>4. MaxAttempts \in Nat \ {0} /\ r1.attempt_count \in Nat
  BY ConstantsAssumption DEF StepRow
<1>5. C2 = C1 => c2 = c1
  OBVIOUS
<1> HIDE DEF W, e1, e2, c1, c2
<1> DEFINE m == IF r1.attempt_count < MaxAttempts THEN MaxAttempts - 1 ELSE r1.attempt_count
           x1 == IF Waiting(r1) THEN 1 ELSE 0
           x2 == IF Waiting(r2) THEN 1 ELSE 0
           k1 == Takeovers(r1, C1, n1)
           k2 == Takeovers(r2, C2, n2)
           o1 == Owed(r1, E1, C1, n1)
           o2 == Owed(r2, E2, C2, n2)
<1>6. o1 = m + x1 + e1 + c1 + k1 /\ o2 = m + x2 + e2 + c2 + k2
  BY DEF Owed, e1, e2, c1, c2
<1>7. m \in Nat /\ x1 \in 0..1 /\ x2 \in 0..1
  BY <1>4
<1>8. k1 \in 0..(W + 1) /\ k2 \in 0..(W + 1)
  BY <1>2, <1>3 DEF Takeovers, W, c1, c2
<1>9. /\ r2.status = r1.status => x2 = x1
      /\ r2.status \in Terminal => x2 = 0 /\ k2 = 0
      /\ r2.status = "retry_queued" => k2 = 0
  BY DEF Waiting, Terminal, Takeovers
<1>10. /\ r2.status = r1.status /\ C2 = C1
       /\ r1.status = "running" => r2.lease_expires_at = r1.lease_expires_at /\ (n1 => n2)
       => k2 <= k1
  BY <1>2, <1>3, <1>8 DEF Takeovers, W, c1, c2
<1>11. /\ r2.status = r1.status /\ C2 = C1
       /\ r1.status = "running" => r1.lease_expires_at = "live" /\ ~n1
       => k2 <= k1
  BY <1>2, <1>3, <1>8 DEF Takeovers, W, c1, c2
<1> HIDE DEF m, x1, x2, k1, k2, o1, o2
<1>12. ASSUME r2.status = r1.status, C2 = C1, k2 <= k1 PROVE o2 <= o1
  BY <1>2, <1>3, <1>5, <1>6, <1>7, <1>8, <1>9, <1>12
<1>13. ASSUME r2.status \in Terminal PROVE o2 <= o1
  BY <1>2, <1>3, <1>6, <1>7, <1>8, <1>9, <1>13
<1>14. ASSUME r2.status = "retry_queued", E2 # E1 \/ C2 # C1 PROVE o2 <= o1
  BY <1>2, <1>3, <1>6, <1>7, <1>8, <1>9, <1>14
<1>15. ASSUME r2.status = r1.status PROVE o2 <= o1 + W + 1
  BY <1>2, <1>3, <1>6, <1>7, <1>8, <1>9, <1>15
<1> QED BY <1>10, <1>11, <1>12, <1>13, <1>14, <1>15 DEF o1, o2, W

\* A lease spends what was owed to a waiting row or to an expired one.
LEMMA OwedLeased ==
  ASSUME NEW r1 \in StepRow, NEW E1 \in SUBSET Tasks, NEW C \in SUBSET Workers,
         NEW n1 \in BOOLEAN, NEW r2 \in StepRow, NEW E2 \in SUBSET Tasks, NEW t \in Tasks,
         Waiting(r1) \/ (r1.status = "running" /\ r1.lease_expires_at = "expired"),
         r2.status = "running", r2.lease_expires_at = "live",
         r2.attempt_count = r1.attempt_count + 1,
         E2 \subseteq E1 \union (IF r2.attempt_count < MaxAttempts THEN {t} ELSE {})
  PROVE  Owed(r2, E2, C, TRUE) <= Owed(r1, E1, C, n1)
<1> DEFINE W == Cardinality(Workers)
           e1 == Cardinality(E1)
           e2 == Cardinality(E2)
           c == Cardinality(C)
           a == r1.attempt_count
<1>1. IsFiniteSet(E1) /\ IsFiniteSet(E1 \union {t})
  BY ConstantsAssumption, FS_Subset
<1>2. e1 \in Nat /\ e2 \in Nat /\ c \in Nat /\ W \in Nat /\ c <= W
  BY Counting
<1>3. a + 1 < MaxAttempts => e2 <= e1 + 1
  <2>1. Cardinality(E1 \union {t}) \in Nat /\ Cardinality(E1 \union {t}) <= e1 + 1
    BY <1>1, OneMore
  <2>2. E2 \in SUBSET (E1 \union {t})
    OBVIOUS
  <2>3. e2 <= Cardinality(E1 \union {t})
    BY <1>1, <2>2, PartsAreSmaller
  <2> QED BY <1>2, <2>1, <2>3
<1>4. ~(a + 1 < MaxAttempts) => e2 <= e1
  <2>1. ~(a + 1 < MaxAttempts) => E2 \in SUBSET E1
    OBVIOUS
  <2> QED BY <1>1, <2>1, PartsAreSmaller
<1>5. MaxAttempts \in Nat \ {0} /\ a \in Nat
  BY ConstantsAssumption DEF StepRow
<1> DEFINE m1 == IF a < MaxAttempts THEN MaxAttempts - 1 ELSE a
           m2 == IF a + 1 < MaxAttempts THEN MaxAttempts - 1 ELSE a + 1
           o1 == Owed(r1, E1, C, n1)
           o2 == Owed(r2, E2, C, TRUE)
<1>6. /\ m1 \in Nat /\ m2 \in Nat
      /\ a + 1 < MaxAttempts => m2 = m1
      /\ ~(a + 1 < MaxAttempts) => m2 = m1 + 1
  BY <1>5
<1>7. o2 = m2 + 0 + e2 + c + 0
  BY DEF Owed, Takeovers, Waiting
<1>8. Waiting(r1) => o1 = m1 + 1 + e1 + c + 0
  BY DEF Owed, Takeovers, Waiting
<1>9. ~Waiting(r1) => o1 = m1 + 0 + e1 + c + (1 + W - c)
  BY DEF Owed, Takeovers
<1> HIDE DEF e1, e2, c, a, W, m1, m2, o1, o2
<1>10. m2 + e2 <= m1 + e1 + 1
  BY <1>2, <1>3, <1>4, <1>6
<1>11. o2 <= o1
  BY <1>2, <1>6, <1>7, <1>8, <1>9, <1>10
<1> QED BY <1>11 DEF o1, o2

\* A recovery session that sees the lease expired takes one of the takeovers.
LEMMA OwedScanned ==
  ASSUME NEW r \in StepRow, NEW E \in SUBSET Tasks, NEW C \in SUBSET Workers,
         NEW n \in BOOLEAN, NEW w \in Workers, w \notin C,
         r.status = "running", r.lease_expires_at = "expired"
  PROVE  Owed(r, E, C \union {w}, n) = Owed(r, E, C, n)
<1>1. IsFiniteSet(C)
  BY ConstantsAssumption, FS_Subset
<1>2. Cardinality(C \union {w}) = Cardinality(C) + 1 /\ Cardinality(C) \in Nat
  BY <1>1, OneMore
<1>3. Cardinality(Workers) \in Nat /\ Cardinality(E) \in Nat /\ r.attempt_count \in Nat
      /\ MaxAttempts \in Nat
  BY Counting, ConstantsAssumption DEF StepRow
<1> QED BY <1>2, <1>3 DEF Owed, Takeovers, Waiting

\* Each failure or overrun raises the budget by one more than there are workers.
LEMMA BudgetGrows ==
  ASSUME NEW n \in Nat
  PROVE  Budget(n) \in Nat /\ Budget(n + 1) = Budget(n) + Cardinality(Workers) + 1
<1> DEFINE W == Cardinality(Workers)
<1>1. W \in Nat /\ MaxAttempts \in Nat
  BY Counting, ConstantsAssumption
<1> HIDE DEF W
<1>2. (W + 1) * n \in Nat /\ (W + 1) * (n + 1) = (W + 1) * n + (W + 1)
  BY <1>1
<1> QED BY <1>1, <1>2 DEF Budget, W

\* What the lemmas about Owed need to know of a state and its successor.
LEMMA OwedParts ==
  ASSUME Inv, Inv', NEW s \in Steps
  PROVE  /\ step[s] \in StepRow /\ step'[s] \in StepRow
         /\ Early(s) \in SUBSET Tasks /\ Early(s)' \in SUBSET Tasks
         /\ Scanning(s) \in SUBSET Workers /\ Scanning(s)' \in SUBSET Workers
         /\ Newest(s) \in BOOLEAN /\ Newest(s)' \in BOOLEAN
         /\ Potential(s) = Owed(step[s], Early(s), Scanning(s), Newest(s))
         /\ Potential(s)' = Owed(step'[s], Early(s)', Scanning(s)', Newest(s)')
  BY DEF Inv, TypeInv, TypeOK, Early, Scanning, Newest, Potential

LEMMA PotentialShrinks ==
  ASSUME Inv, Inv', NEW s \in Steps, step'[s].attempt_count = step[s].attempt_count,
         Early(s)' \subseteq Early(s), Scanning(s)' \subseteq Scanning(s)
  PROVE  /\ /\ step'[s].status = step[s].status /\ Scanning(s)' = Scanning(s)
            /\ step[s].status = "running" =>
                 /\ step'[s].lease_expires_at = step[s].lease_expires_at
                 /\ Newest(s) => Newest(s)'
            => Potential(s)' <= Potential(s)
         /\ step'[s].status \in Terminal => Potential(s)' <= Potential(s)
         /\ /\ step'[s].status = "retry_queued"
            /\ Early(s)' # Early(s) \/ Scanning(s)' # Scanning(s)
            => Potential(s)' <= Potential(s)
         /\ /\ step'[s].status = step[s].status /\ Scanning(s)' = Scanning(s)
            /\ step[s].status = "running" =>
                 step[s].lease_expires_at = "live" /\ ~Newest(s)
            => Potential(s)' <= Potential(s)
         /\ step'[s].status = step[s].status
            => Potential(s)' <= Potential(s) + Cardinality(Workers) + 1
<1> PICK r1 \in StepRow, E1 \in SUBSET Tasks, C1 \in SUBSET Workers, n1 \in BOOLEAN :
      r1 = step[s] /\ E1 = Early(s) /\ C1 = Scanning(s) /\ n1 = Newest(s)
  BY OwedParts
<1> PICK r2 \in StepRow, E2 \in SUBSET E1, C2 \in SUBSET C1, n2 \in BOOLEAN :
      r2 = step'[s] /\ E2 = Early(s)' /\ C2 = Scanning(s)' /\ n2 = Newest(s)'
  BY OwedParts
<1>1. Potential(s) = Owed(r1, E1, C1, n1) /\ Potential(s)' = Owed(r2, E2, C2, n2)
  BY OwedParts
<1>2. r2.attempt_count = r1.attempt_count
  OBVIOUS
<1> QED BY <1>1, <1>2, OwedShrinks

\* A row whose executions stay, those at least that matter while it runs.
LEMMA RowSteady ==
  ASSUME Inv, Inv', NEW s \in Steps, scan' = scan,
         step'[s].status = step[s].status,
         step'[s].attempt_count = step[s].attempt_count,
         step[s].status = "running" => step'[s].lease_expires_at = step[s].lease_expires_at,
         \A u \in Tasks : pc'[u] \in Executing /\ job'[u] = s
           => pc[u] \in Executing /\ job[u] = s /\ attempt'[u] = attempt[u],
         \A u \in Tasks : /\ pc[u] \in Executing /\ job[u] = s
                          /\ step[s].status = "running"
                          /\ attempt[u] = step[s].attempt_count
           => pc'[u] \in Executing /\ job'[u] = s
  PROVE  Potential(s)' <= Potential(s)
<1>1. Early(s)' \subseteq Early(s) /\ Scanning(s)' = Scanning(s)
  BY DEF Early, Scanning
<1>2. step[s].status = "running" /\ Newest(s) => Newest(s)'
  BY DEF Newest
<1> QED BY <1>1, <1>2, PotentialShrinks

\* Nothing but a lease makes a row run or counts an attempt.
RowFrugal(s) ==
  /\ step'[s].attempt_count = step[s].attempt_count
  /\ step'[s].status = "running" => step[s].status = "running"

\* A task goes on with its attempt or leaves it; the session of a failure is
\* the one it had, or has just been loaded.
TaskFrugal(t) ==
  \/ pc'[t] \notin Executing
  \/ /\ pc[t] \in Executing
     /\ job'[t] = job[t]
     /\ attempt'[t] = attempt[t]
     /\ pc'[t] = "marking" =>
          \/ pc[t] = "marking" /\ session'[t] = session[t]
          \/ pc[t] = "marking" /\ session'[t].step = session[t].step
          \/ session'[t].step = step[job[t]]

LEMMA MarkingStep ==
  ASSUME Inv, MarkingInv, \A s \in Steps : RowFrugal(s), \A t \in Tasks : TaskFrugal(t)
  PROVE  MarkingInv' /\ \A s \in Steps : Early(s)' \subseteq Early(s)
<1>1. \A s \in Steps : Early(s)' \subseteq Early(s)
  BY DEF Early, TaskFrugal
<1>2. ASSUME NEW t \in Tasks, pc'[t] = "marking"
      PROVE  /\ attempt'[t] <= session'[t].step.attempt_count
             /\ /\ step'[job'[t]].status = "running"
                /\ attempt'[t] = step'[job'[t]].attempt_count
                => session'[t].step.status = "running"
  <2>1. /\ pc[t] \in Executing /\ job'[t] = job[t] /\ attempt'[t] = attempt[t]
        /\ \/ pc[t] = "marking" /\ session'[t].step = session[t].step
           \/ session'[t].step = step[job[t]]
    BY <1>2 DEF TaskFrugal, Executing
  <2>2. job[t] \in Steps /\ RowFrugal(job[t])
    BY <2>1 DEF Inv, TypeInv, TaskTyped, Executing
  <2>3. attempt[t] <= step[job[t]].attempt_count
    BY <2>1, <2>2 DEF Inv, AttemptsAreCounted, TypeInv, TypeOK, StepRow
  <2> QED BY <2>1, <2>2, <2>3 DEF MarkingInv, RowFrugal
<1> QED BY <1>1, <1>2 DEF MarkingInv

\* The budget is kept by what raises no potential, and by a failure or overrun
\* that raises it by as much as the budget grows.
LEMMA BudgetKept ==
  ASSUME Inv, Inv', BoundInv, MarkingInv',
         \/ /\ stalls' + faults' = stalls + faults
            /\ \A s \in Steps : Potential(s)' <= Potential(s)
         \/ /\ stalls' + faults' = stalls + faults + 1
            /\ \A s \in Steps : Potential(s)' <= Potential(s) + Cardinality(Workers) + 1
  PROVE  BoundInv'
<1>0. {stalls, faults, stalls', faults'} \subseteq Nat
  BY DEF Inv, TypeInv, TypeOK
<1> PICK n \in Nat, m \in Nat : n = stalls + faults /\ m = stalls' + faults'
  BY <1>0
<1>1. Budget(n) = Budget(stalls + faults) /\ Budget(m) = Budget(stalls + faults)'
  BY DEF Budget
<1>2. /\ Budget(n) \in Nat /\ Budget(m) \in Nat
      /\ Budget(n + 1) = Budget(n) + Cardinality(Workers) + 1
      /\ Cardinality(Workers) \in Nat
  BY BudgetGrows, Counting
<1>3. ASSUME NEW s \in Steps PROVE Potential(s) \in Nat /\ Potential(s)' \in Nat
  BY OwedParts, OwedTypes
<1>4. ASSUME NEW s \in Steps PROVE Potential(s)' <= Budget(m)
  <2>1. Potential(s) <= Budget(n)
    BY <1>1 DEF BoundInv
  <2> PICK p \in Nat, q \in Nat : p = Potential(s) /\ q = Potential(s)'
    BY <1>3
  <2>2. \/ m = n /\ q <= p
        \/ m = n + 1 /\ q <= p + Cardinality(Workers) + 1
    OBVIOUS
  <2> QED BY <1>2, <2>1, <2>2
<1> QED BY <1>1, <1>4 DEF BoundInv

LEMMA InvTypes ==
  ASSUME Inv
  PROVE  /\ step \in [Steps -> StepRow] /\ pc \in [Tasks -> {"idle", "leasing"} \union Executing]
         /\ job \in [Tasks -> Steps \union {None}]
         /\ session \in [Tasks -> Session \union {None}] /\ attempt \in [Tasks -> Nat]
         /\ scan \in [Workers -> [Steps -> StepRow \union {None}]]
         /\ stalls \in Nat /\ faults \in Nat
         /\ \A t \in Tasks : pc[t] # "idle" => job[t] \in Steps
         /\ \A t \in Tasks : pc[t] \in {"leasing", "marking", "completing", "flushed"}
                             => session[t].step \in StepRow
  BY DEF Inv, TypeInv, TypeOK, TaskTyped, Session

\* A step that leaves the rows to their status, and in which the executions of
\* running steps go on.
LEMMA RowsSteady ==
  ASSUME Inv, Inv', BoundInv, UNCHANGED <<scan, stalls, faults>>,
         \A s \in Steps : /\ step'[s].status = step[s].status
                          /\ step'[s].attempt_count = step[s].attempt_count
                          /\ step'[s].lease_expires_at = step[s].lease_expires_at,
         \A t \in Tasks : TaskFrugal(t),
         \A t \in Tasks : pc[t] \in Executing /\ step[job[t]].status = "running"
                          => pc'[t] \in Executing
  PROVE  BoundInv'
<1>1. \A s \in Steps : RowFrugal(s)
  BY DEF RowFrugal
<1>2. MarkingInv'
  BY <1>1, MarkingStep DEF BoundInv
<1>3. ASSUME NEW s \in Steps PROVE Potential(s)' <= Potential(s)
  BY <1>3, RowSteady DEF TaskFrugal
<1> QED BY <1>2, <1>3, BudgetKept

\* A step of a task that writes one row.
LEMMA RowWritten ==
  ASSUME Inv, Inv', BoundInv, NEW s \in Steps, UNCHANGED <<scan, stalls, faults>>,
         \A r \in Steps \ {s} : step'[r] = step[r],
         RowFrugal(s),
         \A t \in Tasks : TaskFrugal(t),
         \A t \in Tasks : pc[t] \in Executing /\ job[t] # s => pc'[t] \in Executing,
         Potential(s)' <= Potential(s)
  PROVE  BoundInv'
<1>1. \A r \in Steps : RowFrugal(r)
  BY DEF RowFrugal
<1>2. MarkingInv'
  BY <1>1, MarkingStep DEF BoundInv
<1>3. ASSUME NEW r \in Steps, r # s PROVE Potential(r)' <= Potential(r)
  BY <1>3, RowSteady DEF TaskFrugal
<1> QED BY <1>2, <1>3, BudgetKept

\* A hint either opens a session, which costs nothing yet, or ends a step.
LEMMA HintBound ==
  ASSUME Inv, Inv', BoundInv, NEW s \in Steps, Hint(s)
  PROVE  BoundInv'
<1>1. ASSUME NEW u \in Tasks, LeaseRead(u, s) PROVE BoundInv'
  <2>1. /\ UNCHANGED <<step, attempt, scan, stalls, faults>> /\ pc[u] = "idle"
        /\ pc' = [pc EXCEPT ![u] = "leasing"] /\ job' = [job EXCEPT ![u] = s]
        /\ session' = [session EXCEPT ![u] = Load(s)]
    BY <1>1 DEF LeaseRead, db
  <2>2. \A t \in Tasks : TaskFrugal(t)
    BY <2>1, InvTypes DEF TaskFrugal, Executing
  <2>3. \A t \in Tasks : pc[t] \in Executing => pc'[t] \in Executing
    BY <2>1, InvTypes DEF Executing
  <2> QED BY <2>1, <2>2, <2>3, RowsSteady
<1>2. ASSUME NEW u \in Tasks, RefuseDisabled(u, s) PROVE BoundInv'
  <2>1. /\ UNCHANGED <<pc, job, session, attempt, scan, stalls, faults>>
        /\ step' = [step EXCEPT ![s] = [step[s] EXCEPT !.status = "failed"]]
    BY <1>2 DEF RefuseDisabled, task
  <2>2. /\ step'[s].status = "failed" /\ step'[s].attempt_count = step[s].attempt_count
        /\ \A r \in Steps \ {s} : step'[r] = step[r]
    BY <2>1, InvTypes DEF StepRow
  <2>3. RowFrugal(s) /\ \A t \in Tasks : TaskFrugal(t)
    BY <2>1, <2>2 DEF RowFrugal, TaskFrugal
  <2>4. Early(s)' = Early(s) /\ Scanning(s)' = Scanning(s)
    BY <2>1 DEF Early, Scanning
  <2>5. Potential(s)' <= Potential(s)
    BY <2>2, <2>4, PotentialShrinks DEF Terminal
  <2> QED BY <2>1, <2>2, <2>3, <2>5, RowWritten
<1> QED BY <1>1, <1>2 DEF Hint

\* Between lease and commit a task only moves on.
LEMMA MoveBound ==
  ASSUME Inv, Inv', BoundInv, NEW t \in Tasks,
         DenyAuthorization(t) \/ LoadFails(t) \/ CallProvider(t) \/ ProviderFails(t)
         \/ OutputInvalid(t) \/ StoreOutput(t) \/ CompleteFlush(t)
  PROVE  BoundInv'
<1>1. /\ UNCHANGED <<step, scan, stalls, faults, job, attempt>>
      /\ pc[t] \in Executing
      /\ \E where \in {"failing", "generating", "stored", "flushed"} :
           pc' = [pc EXCEPT ![t] = where]
      /\ \A u \in Tasks \ {t} : session'[u] = session[u]
  BY InvTypes DEF DenyAuthorization, LoadFails, CallProvider, ProviderFails, OutputInvalid,
     StoreOutput, CompleteFlush, Fail, Goto, db, Executing
<1>2. \A u \in Tasks : TaskFrugal(u) /\ (pc[u] \in Executing => pc'[u] \in Executing)
  BY <1>1, InvTypes DEF TaskFrugal, Executing
<1> QED BY <1>1, <1>2, RowsSteady

\* A failure or a completion opens its session, or finds the step not running.
LEMMA ReadBound ==
  ASSUME Inv, Inv', BoundInv, NEW t \in Tasks, MarkFailedRead(t) \/ CompleteRead(t)
  PROVE  BoundInv'
<1>1. UNCHANGED <<step, scan, stalls, faults>> /\ pc[t] \in {"failing", "stored"}
  BY DEF MarkFailedRead, CompleteRead, db
<1>2. CASE Finish(t) /\ step[job[t]].status # "running"
  <2>1. \A u \in Tasks : /\ TaskFrugal(u)
                         /\ pc[u] \in Executing /\ step[job[u]].status = "running"
                            => pc'[u] \in Executing
    BY <1>1, <1>2, InvTypes DEF Finish, TaskFrugal, Executing
  <2> QED BY <1>1, <2>1, RowsSteady
<1>3. CASE /\ Goto(t, "marking") \/ Goto(t, "completing")
           /\ session' = [session EXCEPT ![t] = Load(job[t])]
  <2>1. \A u \in Tasks : /\ TaskFrugal(u)
                         /\ pc[u] \in Executing => pc'[u] \in Executing
    BY <1>1, <1>3, InvTypes DEF Goto, Load, TaskFrugal, Executing
  <2> QED BY <1>1, <2>1, RowsSteady
<1> QED BY <1>2, <1>3 DEF MarkFailedRead, CompleteRead, Terminal

LEMMA RereadBound ==
  ASSUME Inv, Inv', BoundInv, NEW t \in Tasks, MarkFailedBatch(t)
  PROVE  BoundInv'
<1>1. /\ UNCHANGED <<step, scan, stalls, faults, pc, job, attempt>>
      /\ pc[t] = "marking" /\ session'[t].step = session[t].step
      /\ \A u \in Tasks : u # t => session'[u] = session[u]
  BY BatchReread DEF Inv
<1>2. \A u \in Tasks : TaskFrugal(u) /\ (pc[u] \in Executing => pc'[u] \in Executing)
  BY <1>1 DEF TaskFrugal, Executing
<1> QED BY <1>1, <1>2, RowsSteady

\* A lease spends what its row was owed: the turn of a waiting step, or the
\* takeover of an expired one.
LEMMA LeaseBound ==
  ASSUME Inv, Inv', BoundInv, NEW t \in Tasks, NEW s \in Steps, job[t] = s, LeaseCommit(t)
  PROVE  BoundInv'
<1> DEFINE loaded == session[t].step
           row == LeasedRow(step[s], loaded, WorkerOf[t])
<1>1. /\ pc[t] = "leasing" /\ step[s] \in StepRow /\ loaded \in StepRow
      /\ loaded.status = step[s].status /\ loaded.attempt_count = step[s].attempt_count
      /\ step[s].status \notin Terminal
      /\ step[s].status = "running" => step[s].lease_expires_at = "expired"
  BY InvTypes DEF LeaseCommit, Inv, LeasingInv, LeaseMatchesStatus, Coherent, StepRow
<1>2. /\ step' = [step EXCEPT ![s] = row]
      /\ pc' = [pc EXCEPT ![t] = "leased"]
      /\ session' = [session EXCEPT ![t] = None]
      /\ attempt' = [attempt EXCEPT ![t] = step[s].attempt_count + 1]
      /\ UNCHANGED <<job, scan, stalls, faults>>
  BY <1>1 DEF LeaseCommit
<1>3. /\ row.status = "running" /\ row.lease_expires_at = "live"
      /\ row.attempt_count = step[s].attempt_count + 1
  BY <1>1 DEF LeasedRow, Flushed, StepRow
<1> HIDE DEF loaded, row
<1>4. /\ step'[s] = row /\ \A r \in Steps \ {s} : step'[r] = step[r]
      /\ pc'[t] = "leased" /\ attempt'[t] = row.attempt_count /\ pc[t] \notin Executing
      /\ \A u \in Tasks \ {t} : /\ pc'[u] = pc[u] /\ session'[u] = session[u]
                                /\ attempt'[u] = attempt[u]
  BY <1>1, <1>2, <1>3, InvTypes DEF Executing
<1>5. ASSUME NEW r \in Steps, r # s PROVE Potential(r)' <= Potential(r)
  BY <1>2, <1>4, <1>5, RowSteady
<1>6. Potential(s)' <= Potential(s)
  <2>1. Early(s)' \subseteq Early(s) \union (IF row.attempt_count < MaxAttempts THEN {t} ELSE {})
    BY <1>2, <1>4 DEF Early
  <2>2. Scanning(s)' = Scanning(s)
    BY <1>2 DEF Scanning
  <2>3. Newest(s)' = TRUE
    BY <1>2, <1>4 DEF Newest, Executing
  <2>4. Waiting(step[s]) \/ (step[s].status = "running" /\ step[s].lease_expires_at = "expired")
    BY <1>1 DEF Waiting, Terminal, StepRow, StepStatus
  <2> PICK r1 \in StepRow, E1 \in SUBSET Tasks, C1 \in SUBSET Workers, n1 \in BOOLEAN :
        r1 = step[s] /\ E1 = Early(s) /\ C1 = Scanning(s) /\ n1 = Newest(s)
    BY OwedParts
  <2> PICK r2 \in StepRow, E2 \in SUBSET Tasks : r2 = row /\ E2 = Early(s)'
    BY <1>4, OwedParts
  <2>5. Potential(s) = Owed(r1, E1, C1, n1) /\ Potential(s)' = Owed(r2, E2, C1, TRUE)
    BY <1>4, <2>2, <2>3, OwedParts
  <2>6. Owed(r2, E2, C1, TRUE) <= Owed(r1, E1, C1, n1)
    BY <1>3, <2>1, <2>4, OwedLeased
  <2> QED BY <2>5, <2>6
<1>7. MarkingInv'
  <2> SUFFICES ASSUME NEW u \in Tasks, pc'[u] = "marking"
               PROVE  /\ attempt'[u] <= session'[u].step.attempt_count
                      /\ /\ step'[job'[u]].status = "running"
                         /\ attempt'[u] = step'[job'[u]].attempt_count
                         => session'[u].step.status = "running"
    BY DEF MarkingInv
  <2>1. u # t /\ pc[u] = "marking" /\ job[u] \in Steps
    BY <1>4, InvTypes
  <2>2. job[u] = s => attempt[u] <= step[s].attempt_count
    BY <2>1, InvTypes DEF Inv, AttemptsAreCounted, Executing, StepRow
  <2>3. attempt[u] \in Nat /\ step[s].attempt_count \in Nat
    BY InvTypes DEF StepRow
  <2> QED BY <1>2, <1>3, <1>4, <2>1, <2>2, <2>3 DEF BoundInv, MarkingInv
<1> QED BY <1>2, <1>5, <1>6, <1>7, BudgetKept

\* A failure that puts its step back spends its own execution.  A late one,
\* whose session found the step back in the queue already, writes nothing that
\* counts.
LEMMA FailBound ==
  ASSUME Inv, Inv', BoundInv, NEW t \in Tasks, NEW s \in Steps, job[t] = s, MarkFailedCommit(t)
  PROVE  BoundInv'
<1> DEFINE loaded == session[t].step
           retry == ShouldRetry(t)
           row == FailedRow(step[s], loaded, retry)
<1>1. /\ pc[t] = "marking" /\ step[s] \in StepRow /\ loaded \in StepRow
      /\ loaded.status \in {"running", "retry_queued"} /\ Coherent(loaded)
  BY InvTypes DEF MarkFailedCommit, Inv, SessionInv
<1>2. /\ step' = [step EXCEPT ![s] = row]
      /\ Finish(t) /\ UNCHANGED <<scan, stalls, faults>>
  BY DEF MarkFailedCommit
<1>3. /\ row.attempt_count = step[s].attempt_count
      /\ ~retry => row.status = "failed"
      /\ retry /\ loaded.status = "running" => row.status = "retry_queued"
      /\ retry /\ loaded.status = "retry_queued" =>
           row.status = step[s].status /\ row.lease_expires_at = step[s].lease_expires_at
  BY <1>1, NoneAssumption DEF FailedRow, Flushed, Coherent, StepRow
<1>4. retry => loaded.attempt_count < MaxAttempts
  BY DEF ShouldRetry
<1>5. loaded.attempt_count \in Nat /\ attempt[t] \in Nat /\ MaxAttempts \in Nat
  BY <1>1, InvTypes, ConstantsAssumption DEF StepRow
<1> HIDE DEF row, retry
<1>6. /\ step'[s] = row /\ \A r \in Steps \ {s} : step'[r] = step[r]
      /\ pc'[t] = "idle" /\ pc[t] \in Executing
      /\ \A u \in Tasks \ {t} : /\ pc'[u] = pc[u] /\ job'[u] = job[u]
                                /\ session'[u] = session[u] /\ attempt'[u] = attempt[u]
  BY <1>1, <1>2, InvTypes DEF Finish, Executing
<1>7. \A u \in Tasks : TaskFrugal(u)
  BY <1>6 DEF TaskFrugal, Executing
<1>8. Early(s)' = Early(s) \ {t} /\ Scanning(s)' = Scanning(s)
  BY <1>2, <1>6 DEF Early, Scanning, Executing
<1>9. RowFrugal(s) /\ Potential(s)' <= Potential(s)
  <2>1. CASE ~retry
    BY <1>3, <1>6, <1>8, <2>1, PotentialShrinks DEF RowFrugal, Terminal
  <2>2. CASE retry /\ loaded.status = "running"
    <3>1. attempt[t] < MaxAttempts
      BY <1>1, <1>4, <1>5, <2>2 DEF BoundInv, MarkingInv
    <3>2. t \in Early(s)
      BY <1>6, <3>1 DEF Early
    <3> QED BY <1>3, <1>6, <1>8, <2>2, <3>2, PotentialShrinks DEF RowFrugal
  <2>3. CASE retry /\ loaded.status = "retry_queued"
    <3>1. step[s].status = "running" => attempt[t] # step[s].attempt_count
      BY <1>1, <2>3 DEF BoundInv, MarkingInv
    <3>2. step[s].status = "running" /\ Newest(s) => Newest(s)'
      BY <1>3, <1>6, <3>1 DEF Newest
    <3> QED BY <1>3, <1>6, <1>8, <2>3, <3>2, PotentialShrinks DEF RowFrugal
  <2> QED BY <1>1, <2>1, <2>2, <2>3
<1>10. \A u \in Tasks : pc[u] \in Executing /\ job[u] # s => pc'[u] \in Executing
  BY <1>6
<1> QED BY <1>2, <1>6, <1>7, <1>9, <1>10, RowWritten

\* A completion ends the step.
LEMMA CompleteBound ==
  ASSUME Inv, Inv', BoundInv, NEW t \in Tasks, NEW s \in Steps, job[t] = s,
         NEW passed \in BOOLEAN, CompleteCommit(t, passed)
  PROVE  BoundInv'
<1> DEFINE row == SucceededRow(step[s], session[t].step, attempt[t])
<1>1. /\ pc[t] = "flushed" /\ step[s] \in StepRow /\ session[t].step \in StepRow
      /\ session[t].step.status = "running"
  BY InvTypes DEF CompleteCommit, Inv, SessionInv
<1>2. /\ step' = [step EXCEPT ![s] = row]
      /\ Finish(t) /\ UNCHANGED <<scan, stalls, faults>>
  BY DEF CompleteCommit
<1>3. row.attempt_count = step[s].attempt_count /\ row.status = "succeeded"
  BY <1>1 DEF SucceededRow, Flushed, StepRow
<1> HIDE DEF row
<1>4. /\ step'[s] = row /\ \A r \in Steps \ {s} : step'[r] = step[r]
      /\ pc'[t] = "idle"
      /\ \A u \in Tasks \ {t} : /\ pc'[u] = pc[u] /\ job'[u] = job[u]
                                /\ session'[u] = session[u] /\ attempt'[u] = attempt[u]
  BY <1>1, <1>2, InvTypes DEF Finish
<1>5. (\A u \in Tasks : TaskFrugal(u)) /\ RowFrugal(s)
  BY <1>3, <1>4 DEF TaskFrugal, RowFrugal, Executing
<1>6. Early(s)' \subseteq Early(s) /\ Scanning(s)' = Scanning(s)
  BY <1>2, <1>4 DEF Early, Scanning, Executing
<1>7. Potential(s)' <= Potential(s)
  BY <1>3, <1>4, <1>6, PotentialShrinks DEF Terminal
<1>8. \A u \in Tasks : pc[u] \in Executing /\ job[u] # s => pc'[u] \in Executing
  BY <1>4
<1> QED BY <1>2, <1>4, <1>5, <1>7, <1>8, RowWritten

\* A failure of a task or a worker is paid for by the budget.
LEMMA FaultBound ==
  ASSUME Inv, Inv', BoundInv, (\E t \in Tasks : Raise(t)) \/ (\E w \in Workers : Crash(w))
  PROVE  BoundInv'
<1>1. step' = step /\ stalls' = stalls /\ faults' = faults + 1
  BY DEF Raise, Crash, db
<1>2. \A u \in Tasks : TaskFrugal(u)
  <2>1. ASSUME NEW t \in Tasks, Raise(t) PROVE \A u \in Tasks : TaskFrugal(u)
    BY <2>1, InvTypes DEF Raise, Finish, TaskFrugal, Executing
  <2>2. ASSUME NEW w \in Workers, Crash(w) PROVE \A u \in Tasks : TaskFrugal(u)
    BY <2>2 DEF Crash, TaskFrugal, Executing
  <2> QED BY <2>1, <2>2
<1>3. \A s \in Steps : Scanning(s)' \subseteq Scanning(s)
  <2>1. ASSUME NEW t \in Tasks, Raise(t) PROVE scan' = scan
    BY <2>1 DEF Raise
  <2>2. ASSUME NEW w \in Workers, Crash(w)
        PROVE  scan' = [scan EXCEPT ![w] = [s \in Steps |-> None]]
    BY <2>2 DEF Crash
  <2> QED BY <2>1, <2>2, InvTypes DEF Scanning
<1>4. \A s \in Steps : RowFrugal(s)
  BY <1>1 DEF RowFrugal
<1>5. MarkingInv' /\ \A s \in Steps : Early(s)' \subseteq Early(s)
  BY <1>2, <1>4, MarkingStep DEF BoundInv
<1>6. ASSUME NEW s \in Steps
      PROVE  Potential(s)' <= Potential(s) + Cardinality(Workers) + 1
  BY <1>1, <1>3, <1>5, PotentialShrinks
<1>7. stalls' + faults' = stalls + faults + 1
  BY <1>1, InvTypes
<1> QED BY <1>5, <1>6, <1>7, BudgetKept

\* A recovery session that sees a lease expired has taken one of its takeovers,
\* and spends it when it commits.
LEMMA RecoveryBound ==
  ASSUME Inv, Inv', BoundInv, NEW w \in Workers, RecoverRead(w) \/ RecoverCommit(w)
  PROVE  BoundInv'
<1>1. UNCHANGED <<pc, job, session, attempt, stalls, faults>>
  BY DEF RecoverRead, RecoverCommit, task
<1>2. \A u \in Tasks : TaskFrugal(u)
  BY <1>1 DEF TaskFrugal
<1>3. \A s \in Steps : Early(s)' = Early(s)
  BY <1>1 DEF Early
<1>4. CASE RecoverRead(w)
  <2>1. /\ step' = step /\ \A s \in Steps : scan[w][s] = None
        /\ \A x \in Workers \ {w} : scan'[x] = scan[x]
        /\ \A s \in Steps : scan'[w][s] = IF Expired(step[s]) THEN step[s] ELSE None
    BY <1>4, InvTypes DEF RecoverRead, db
  <2>2. ASSUME NEW s \in Steps PROVE Potential(s)' <= Potential(s)
    <3>1. Newest(s)' = Newest(s)
      BY <1>1, <2>1 DEF Newest
    <3>2. CASE ~Expired(step[s]) \/ step[s] = None
      <4>1. Scanning(s)' = Scanning(s)
        BY <2>1, <3>2 DEF Scanning
      <4> QED BY <1>3, <2>1, <3>1, <4>1, PotentialShrinks
    <3>3. CASE Expired(step[s]) /\ step[s] # None
      <4>1. Scanning(s)' = Scanning(s) \union {w} /\ w \notin Scanning(s)
        BY <2>1, <3>3 DEF Scanning
      <4> PICK r \in StepRow, E \in SUBSET Tasks, C \in SUBSET Workers, n \in BOOLEAN :
            r = step[s] /\ E = Early(s) /\ C = Scanning(s) /\ n = Newest(s)
        BY OwedParts
      <4>2. Potential(s) = Owed(r, E, C, n) /\ Potential(s)' = Owed(r, E, C \union {w}, n)
        BY <1>3, <2>1, <3>1, <4>1, OwedParts
      <4>3. Owed(r, E, C \union {w}, n) = Owed(r, E, C, n)
        BY <3>3, <4>1, OwedScanned DEF Expired
      <4>4. Owed(r, E, C, n) \in Nat
        BY OwedTypes
      <4> QED BY <4>2, <4>3, <4>4
    <3> QED BY <3>2, <3>3
  <2>3. \A s \in Steps : RowFrugal(s)
    BY <2>1 DEF RowFrugal
  <2> QED BY <1>1, <1>2, <2>2, <2>3, MarkingStep, BudgetKept DEF BoundInv
<1>5. CASE RecoverCommit(w)
  <2>1. /\ \A s \in Steps : step'[s] = IF scan[w][s] # None
                                       THEN RecoveredRow(step[s], scan[w][s]) ELSE step[s]
        /\ \A x \in Workers \ {w} : scan'[x] = scan[x]
        /\ \A s \in Steps : scan'[w][s] = None
    BY <1>5, InvTypes DEF RecoverCommit
  <2>2. ASSUME NEW s \in Steps, scan[w][s] # None
        PROVE  /\ step'[s].status = "retry_queued"
               /\ step'[s].attempt_count = step[s].attempt_count
    <3>1. /\ step[s] \in StepRow /\ scan[w][s].status = "running"
          /\ step'[s] = RecoveredRow(step[s], scan[w][s])
      BY <2>1, <2>2, InvTypes DEF Inv, ScanInv
    <3> QED BY <3>1 DEF RecoveredRow, Flushed, StepRow
  <2>3. ASSUME NEW s \in Steps, scan[w][s] = None PROVE step'[s] = step[s]
    BY <2>1, <2>3
  <2>4. \A s \in Steps : RowFrugal(s)
    BY <2>2, <2>3 DEF RowFrugal
  <2>5. ASSUME NEW s \in Steps PROVE Potential(s)' <= Potential(s)
    <3>1. Scanning(s)' = Scanning(s) \ {w}
      BY <2>1 DEF Scanning
    <3>2. CASE scan[w][s] # None
      <4>1. w \in Scanning(s)
        BY <3>2 DEF Scanning
      <4> QED BY <1>3, <2>2, <3>1, <3>2, <4>1, PotentialShrinks
    <3>3. CASE scan[w][s] = None
      <4>1. Scanning(s)' = Scanning(s)
        BY <3>1, <3>3 DEF Scanning
      <4>2. Newest(s) => Newest(s)'
        BY <1>1, <2>3, <3>3 DEF Newest
      <4> QED BY <1>3, <2>3, <3>3, <4>1, <4>2, PotentialShrinks
    <3> QED BY <3>2, <3>3
  <2> QED BY <1>1, <1>2, <2>4, <2>5, MarkingStep, BudgetKept DEF BoundInv
<1> QED BY <1>4, <1>5

\* A lease that expires under an execution is paid for by the budget; one
\* without an execution was counted as lost already.
LEMMA TimeBound ==
  ASSUME Inv, Inv', BoundInv, NEW s \in Steps, LeaseExpires(s) \/ BackoffElapses(s)
  PROVE  BoundInv'
<1>1. UNCHANGED <<pc, job, session, attempt, scan>>
  BY DEF LeaseExpires, BackoffElapses, task
<1>2. \A u \in Tasks : TaskFrugal(u) /\ (pc[u] \in Executing => pc'[u] \in Executing)
  BY <1>1 DEF TaskFrugal
<1>3. CASE BackoffElapses(s)
  <2>1. UNCHANGED <<stalls, faults>>
    BY <1>3 DEF BackoffElapses
  <2>2. \A r \in Steps : /\ step'[r].status = step[r].status
                         /\ step'[r].attempt_count = step[r].attempt_count
                         /\ step'[r].lease_expires_at = step[r].lease_expires_at
    BY <1>3, InvTypes DEF BackoffElapses, StepRow
  <2> QED BY <1>1, <1>2, <2>1, <2>2, RowsSteady
<1>4. CASE LeaseExpires(s)
  <2>1. /\ step' = [step EXCEPT ![s] = [step[s] EXCEPT !.lease_expires_at = "expired"]]
        /\ stalls' = IF Held(s) THEN stalls + 1 ELSE stalls
        /\ faults' = faults /\ step[s].lease_expires_at = "live"
    BY <1>4 DEF LeaseExpires
  <2>2. /\ step'[s].status = step[s].status
        /\ step'[s].attempt_count = step[s].attempt_count
        /\ \A r \in Steps \ {s} : step'[r] = step[r]
    BY <2>1, InvTypes DEF StepRow
  <2>3. \A r \in Steps : RowFrugal(r)
    BY <2>2 DEF RowFrugal
  <2>4. MarkingInv' /\ Early(s)' = Early(s) /\ Scanning(s)' = Scanning(s)
    BY <1>1, <1>2, <2>3, MarkingStep DEF BoundInv, Early, Scanning
  <2>5. ASSUME NEW r \in Steps, r # s PROVE Potential(r)' <= Potential(r)
    BY <1>1, <2>2, <2>5, RowSteady
  <2>6. CASE ~Held(s)
    <3>1. ~Newest(s)
      BY <2>6 DEF Newest, Held
    <3>2. Potential(s)' <= Potential(s)
      BY <2>1, <2>2, <2>4, <3>1, PotentialShrinks
    <3>3. stalls' + faults' = stalls + faults
      BY <2>1, <2>6
    <3> QED BY <2>4, <2>5, <3>2, <3>3, BudgetKept
  <2>7. CASE Held(s)
    <3>1. Potential(s)' <= Potential(s) + Cardinality(Workers) + 1
      BY <2>2, <2>4, PotentialShrinks
    <3>2. ASSUME NEW r \in Steps
          PROVE  Potential(r) \in Nat /\ Potential(r)' \in Nat
      BY OwedParts, OwedTypes
    <3>3. ASSUME NEW r \in Steps
          PROVE  Potential(r)' <= Potential(r) + Cardinality(Workers) + 1
      BY <2>5, <3>1, <3>2, Counting
    <3>4. stalls' + faults' = stalls + faults + 1
      BY <2>1, <2>7, InvTypes
    <3> QED BY <2>4, <3>3, <3>4, BudgetKept
  <2> QED BY <2>6, <2>7
<1> QED BY <1>3, <1>4

LEMMA InitBound == Init => BoundInv
<1> SUFFICES ASSUME Init PROVE BoundInv
  OBVIOUS
<1>1. MarkingInv
  BY DEF Init, MarkingInv
<1>2. ASSUME NEW s \in Steps PROVE Potential(s) <= Budget(stalls + faults)
  <2>1. Early(s) = {} /\ Scanning(s) = {}
    BY DEF Init, Early, Scanning, Executing
  <2>2. /\ step[s].status = "queued" /\ step[s].attempt_count = 0
        /\ stalls + faults = 0
    BY DEF Init, NewStep
  <2>3. MaxAttempts \in Nat \ {0} /\ Cardinality(Workers) \in Nat
    BY ConstantsAssumption, Counting
  <2>4. Cardinality({}) = 0
    BY FS_EmptySet
  <2>5. Potential(s) = MaxAttempts - 1 + 1 + 0 + 0 + 0
    BY <2>1, <2>2, <2>3, <2>4 DEF Potential, Owed, Waiting, Takeovers
  <2>6. Budget(stalls + faults) = MaxAttempts
    BY <2>2, <2>3 DEF Budget
  <2> QED BY <2>3, <2>5, <2>6
<1> QED BY <1>1, <1>2 DEF BoundInv

\* No action overdraws the budget.
LEMMA BoundStep == Inv /\ Inv' /\ BoundInv /\ [Next]_vars => BoundInv'
<1> SUFFICES ASSUME Inv, Inv', BoundInv, [Next]_vars PROVE BoundInv'
  OBVIOUS
<1>1. ASSUME NEW t \in Tasks, TaskStep(t) PROVE BoundInv'
  <2>1. pc[t] # "idle" => job[t] \in Steps
    BY InvTypes
  <2>2. LeaseCommit(t) \/ MarkFailedCommit(t)
        \/ (\E passed \in BOOLEAN : CompleteCommit(t, passed)) => job[t] \in Steps
    BY <2>1 DEF LeaseCommit, MarkFailedCommit, CompleteCommit
  <2>3. LeaseCommit(t) \/ MarkFailedCommit(t)
        \/ (\E passed \in BOOLEAN : CompleteCommit(t, passed)) => BoundInv'
    BY <2>2, LeaseBound, FailBound, CompleteBound
  <2> QED BY <1>1, <2>3, MoveBound, ReadBound DEF TaskStep
<1>2. CASE UNCHANGED vars
  <2>1. \A t \in Tasks : TaskFrugal(t) /\ (pc[t] \in Executing => pc'[t] \in Executing)
    BY <1>2 DEF vars, TaskFrugal
  <2> QED BY <1>2, <2>1, RowsSteady DEF vars
<1> QED BY <1>1, <1>2, HintBound, FaultBound, RecoveryBound, TimeBound, RereadBound DEF Next

\* No step is executed more often than max_attempts, but for what failures and
\* overruns cost: any number of workers, tasks and steps, and any number of
\* crashes, exceptions, overruns and late recoveries.
THEOREM AttemptsLimited == Spec => []AttemptsWithinLimit
<1>1. Inv /\ BoundInv => AttemptsWithinLimit
  <2> SUFFICES ASSUME Inv, BoundInv, NEW s \in Steps
               PROVE  step[s].attempt_count
                      <= MaxAttempts + (Cardinality(Workers) + 1) * (stalls + faults)
    BY DEF AttemptsWithinLimit
  <2> PICK r \in StepRow, E \in SUBSET Tasks, C \in SUBSET Workers, n \in BOOLEAN :
        r = step[s] /\ E = Early(s) /\ C = Scanning(s) /\ n = Newest(s)
    BY DEF Inv, TypeInv, TypeOK, Early, Scanning, Newest
  <2> PICK k \in Nat : k = stalls + faults
    BY InvTypes
  <2>1. Owed(r, E, C, n) <= Budget(k)
    BY DEF BoundInv, Potential
  <2>2. r.attempt_count \in Nat /\ r.attempt_count <= Owed(r, E, C, n)
        /\ Owed(r, E, C, n) \in Nat /\ Budget(k) \in Nat
    BY OwedTypes, BudgetGrows
  <2>3. r.attempt_count <= Budget(k)
    BY <2>1, <2>2
  <2> QED BY <2>3 DEF Budget
<1>2. Spec => []BoundInv
  <2>1. Inv /\ Inv' /\ BoundInv /\ [Next]_vars => BoundInv'
    BY BoundStep
  <2> QED BY <2>1, InitBound, Invariance, PTL DEF Spec
<1> QED BY <1>1, <1>2, Invariance, PTL
=============================================================================
