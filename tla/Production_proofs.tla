-------------------------- MODULE Production_proofs --------------------------
(***************************************************************************)
(* Proofs about the two ways a plan is executed: for the rows of a bulk    *)
(* import (BulkImport) and for its users (ProductionPlans), for any jobs,  *)
(* rows, workers, crashes, platforms, items and requests.                  *)
(*                                                                         *)
(* Until a lease ends under a worker that still runs (OnTime), a bulk job  *)
(* that is being processed has one session at most, and the rows this      *)
(* session has loaded are the rows as they are: what it writes is what is  *)
(* written.  A bulk plan is executed only when its row names it, and a row *)
(* that names a plan never names another.                                  *)
(*                                                                         *)
(* Two users' executions of one plan may load different items, because     *)
(* others are added and deleted between them.  But the items that all      *)
(* still exist are nested: one has loaded all that the other has, since    *)
(* an id is never given twice.  So either one of them produces nothing, or *)
(* they share an item, which the first to commit produces and the unique   *)
(* constraint refuses to the second.                                       *)
(***************************************************************************)
EXTENDS BulkImport, ProductionPlans, WellFoundedInduction, FiniteSetTheorems,
        SequenceTheorems, TLAPS

OnRow == {"validate", "product", "plan", "record", "find", "execute", "settle"}
Unsettled == {"pending", "processing"}

Active(w) == session[w].pc # "idle"
Mine(w) == RowsOf(session[w].job)
Shared(r) == \E q \in Rows : JobOf[q] # JobOf[r] /\ Sku[q] = Sku[r]

\* A session works under the lease of its job.
Owner(w) ==
  /\ session[w].job \in Jobs
  /\ job[session[w].job].status = "processing"
  /\ job[session[w].job].leased

\* No two sessions have one job.
Apart == \A v, w \in Workers : Active(v) /\ Active(w) /\ v # w => session[v].job # session[w].job

\* What a session has loaded of the rows of its job is what they are.
Fresh(w) == \A r \in Mine(w) : session[w].cache[r] \in {NotLoaded, row[r]}

\* The rows that are left are the row a session is at and those it will come to.
Placed(w) ==
  /\ session[w].todo \subseteq Mine(w)
  /\ \A r \in session[w].todo : row[r].status \in Unsettled
  /\ session[w].pc \in OnRow =>
       /\ session[w].row \in Mine(w) /\ session[w].row \notin session[w].todo
       /\ row[session[w].row].status = "processing"
  /\ session[w].pc # "load" =>
       \A r \in Mine(w) : row[r].status \in Unsettled =>
         r \in session[w].todo \/ (session[w].pc \in OnRow /\ r = session[w].row)

\* What a session knows of the row it is at, and of its plan.
Informed(w) ==
  LET r == session[w].row IN
  /\ session[w].pc = "product" /\ ~session[w].known /\ Sku[r] \in products => Shared(r)
  /\ session[w].pc = "record" =>
       /\ row[r].plan = NoPlan
       /\ session[w].made \in DOMAIN plans
       /\ plans[session[w].made].row = r /\ ~plans[session[w].made].executed
  /\ session[w].pc \in {"find", "execute", "settle"} => row[r].plan # NoPlan
  /\ session[w].pc = "execute" => ~Executed(row[r].plan)
  /\ session[w].pc = "settle" => Executed(row[r].plan)

Work(w) == Active(w) => Owner(w) /\ Fresh(w) /\ Placed(w) /\ Informed(w)

\* A row names a plan that was made for it, and an executed plan is named by its row.
Named ==
  /\ \A r \in Rows : row[r].plan # NoPlan =>
       row[r].plan \in DOMAIN plans /\ plans[row[r].plan].row = r
  /\ \A n \in DOMAIN plans : plans[n].executed => row[plans[n].row].plan = n

Rowwise == Named /\ QueuedRowsHaveBatches /\ RowsFailForCause

Inv ==
  /\ TypeOK
  /\ Apart
  /\ \A w \in Workers : Work(w)
  /\ Rowwise
  /\ VerdictIsTrue

LEMMA ConstantTypes ==
  /\ Jobs \subseteq Nat /\ Rows \subseteq Nat /\ IsFiniteSet(Rows)
  /\ JobOf \in [Rows -> Jobs] /\ DOMAIN Sku = Rows /\ DryRuns \subseteq Jobs
  /\ Flaw \in [Rows -> Flaws] /\ NoPlan \notin Nat
  /\ MaxPlans \in Nat /\ MaxCrashes \in Nat /\ MaxOverruns \in Nat
BY ImportAssumption DEF ImportAssumption

LEMMA LeastIsMember ==
  ASSUME NEW S \in SUBSET Nat, S # {}
  PROVE  Least(S) \in S
<1>1. PICK r \in S : \A q \in S : <<q, r>> \notin OpToRel(<, Nat)
  BY WFMin, NatLessThanWellFounded, Zenon
<1>2. \A q \in S : ~(q < r)
  BY <1>1, Zenon DEF OpToRel
<1>3. \A q \in S : r <= q
  BY <1>2
<1> QED BY <1>3 DEF Least

\* The counter of a job is a number of rows.
LEMMA SucceededType ==
  ASSUME NEW S \in SUBSET Rows, NEW f \in [S -> RowStatus]
  PROVE  Succeeded(f) \in 0..Cardinality(Rows)
<1> DEFINE good == {r \in S : f[r] \in Good}
<1>1. good \subseteq Rows /\ Succeeded(f) = Cardinality(good)
  BY DEF Succeeded
<1>2. IsFiniteSet(good) /\ Cardinality(good) <= Cardinality(Rows)
  BY <1>1, ConstantTypes, FS_Subset
<1>3. Cardinality(good) \in Nat /\ Cardinality(Rows) \in Nat
  BY <1>2, ConstantTypes, FS_CardinalityType
<1> QED BY <1>1, <1>2, <1>3

LEMMA VerdictType ==
  ASSUME NEW dry \in BOOLEAN, NEW total \in Nat, NEW n \in Nat
  PROVE  Verdict(dry, total, n) \in JobStatus \ {"pending", "processing"}
BY DEF Verdict, JobStatus

LEMMA IdleTyped == Idle \in Session
BY ConstantTypes DEF Idle, Session

LEMMA RowsApart ==
  ASSUME NEW i, NEW j, i # j, NEW r \in RowsOf(i)
  PROVE  r \in Rows /\ JobOf[r] = i /\ r \notin RowsOf(j)
BY DEF RowsOf

LEMMA InitInv == Init => Inv
<1> SUFFICES ASSUME Init PROVE Inv
  OBVIOUS
<1>1. Cardinality(Rows) \in Nat
  BY ConstantTypes, FS_CardinalityType
<1>2. TypeOK
  BY <1>1, ConstantTypes, IdleTyped DEF Init, TypeOK, RowRecord, RowStatus, JobStatus
<1>3. \A w \in Workers : ~Active(w)
  BY DEF Init, Active, Idle
<1>4. Rowwise /\ VerdictIsTrue
  BY DEF Init, Rowwise, Named, QueuedRowsHaveBatches, RowsFailForCause, VerdictIsTrue
<1> QED BY <1>2, <1>3, <1>4 DEF Inv, Apart, Work

-----------------------------------------------------------------------------
(* What a step of one session leaves alone.                                *)

\* The work of a session is not disturbed by what happens to other rows.
LEMMA WorkKept ==
  ASSUME Inv, NEW v \in Workers, session'[v] = session[v],
         Active(v) =>
           /\ job'[session[v].job] = job[session[v].job]
           /\ \A r \in Mine(v) : row'[r] = row[r]
           /\ \A n \in DOMAIN plans :
                /\ n \in DOMAIN plans' /\ plans'[n].row = plans[n].row
                /\ plans[n].row \in Mine(v) => plans'[n] = plans[n]
           /\ \A r \in Mine(v) : Sku[r] \in products' => Sku[r] \in products \/ Shared(r)
  PROVE  Work(v)'
<1> SUFFICES ASSUME Active(v)
             PROVE  (Owner(v) /\ Fresh(v) /\ Placed(v) /\ Informed(v))'
  BY DEF Work, Active
<1>1. Owner(v) /\ Fresh(v) /\ Placed(v) /\ Informed(v) /\ Named
  BY DEF Inv, Work, Rowwise
<1>2. Owner(v)'
  BY <1>1 DEF Owner
<1>3. Fresh(v)'
  BY <1>1 DEF Fresh, Mine
<1>4. Placed(v)'
  BY <1>1 DEF Placed, Mine
<1>5. Informed(v)'
  <2> DEFINE r == session[v].row
  <2>1. CASE session[v].pc \notin OnRow
    BY <2>1 DEF Informed, OnRow
  <2>2. CASE session[v].pc \in OnRow
    <3>1. r \in Mine(v) /\ r \in Rows /\ row'[r] = row[r]
      BY <1>1, <2>2 DEF Placed, Mine, RowsOf
    <3> QED BY <1>1, <3>1 DEF Informed, Executed, Named, Shared
  <2> QED BY <2>1, <2>2
<1> QED BY <1>2, <1>3, <1>4, <1>5

\* The verdicts given stay true while a session writes rows of its own job.
LEMMA VerdictsKept ==
  ASSUME Inv, NEW w \in Workers, Active(w), job' = job,
         \A r \in Rows \ Mine(w) : row'[r] = row[r]
  PROVE  VerdictIsTrue'
<1> SUFFICES ASSUME NEW j \in Jobs, job[j].status \notin {"pending", "processing"}
             PROVE  /\ \A r \in RowsOf(j) : row'[r].status \notin {"pending", "processing"}
                    /\ job[j].succeeded = Succeeded([r \in RowsOf(j) |-> row'[r].status])
                    /\ job[j].status = Verdict(j \in DryRuns, Cardinality(RowsOf(j)), job[j].succeeded)
  BY DEF VerdictIsTrue
<1>1. session[w].job # j
  BY DEF Inv, Work, Owner
<1>2. \A r \in RowsOf(j) : row'[r] = row[r]
  BY <1>1, RowsApart DEF Mine
<1>3. [r \in RowsOf(j) |-> row'[r].status] = [r \in RowsOf(j) |-> row[r].status]
  BY <1>2
<1> QED BY <1>2, <1>3 DEF Inv, VerdictIsTrue

\* A step of one session within its job disturbs neither the others nor a verdict.
LEMMA Turn ==
  ASSUME Inv, NEW w \in Workers, Active(w), NEW s \in Session, s.job = session[w].job,
         session' = [session EXCEPT ![w] = s], job' = job,
         \A r \in Rows \ Mine(w) :
           row'[r] = row[r] /\ (Sku[r] \in products' => Sku[r] \in products \/ Shared(r)),
         \A n \in DOMAIN plans :
           /\ n \in DOMAIN plans' /\ plans'[n].row = plans[n].row
           /\ plans[n].row \notin Mine(w) => plans'[n] = plans[n],
         Work(w)'
  PROVE  Apart' /\ (\A v \in Workers : Work(v)') /\ VerdictIsTrue' /\ session' \in [Workers -> Session]
<1>1. session \in [Workers -> Session]
  BY DEF Inv, TypeOK
<1>2. session'[w] = s /\ \A v \in Workers \ {w} : session'[v] = session[v]
  BY <1>1
<1>3. Apart'
  BY <1>2 DEF Inv, Apart, Active
<1>4. ASSUME NEW v \in Workers PROVE Work(v)'
  <2>1. CASE v = w
    BY <2>1
  <2>2. CASE v # w
    <3>1. Active(v) => session[v].job # session[w].job
      BY <2>2 DEF Inv, Apart
    <3>2. Active(v) => \A r \in Mine(v) : r \in Rows \ Mine(w)
      BY <3>1, RowsApart DEF Mine
    <3> QED BY <1>2, <2>2, <3>2, WorkKept
  <2> QED BY <2>1, <2>2
<1>5. VerdictIsTrue'
  BY VerdictsKept
<1> QED BY <1>1, <1>3, <1>4, <1>5

\* A session that is at a row has loaded it, and writes what it means to write.
LEMMA AtRow ==
  ASSUME Inv, NEW w \in Workers, session[w].pc \in OnRow
  PROVE  LET r == session[w].row IN
         /\ Active(w) /\ session[w] \in Session
         /\ r \in Rows /\ r \in Mine(w) /\ row[r] \in RowRecord
         /\ row[r].status = "processing" /\ r \notin session[w].todo
         /\ Seen(w, r) = row[r]
         /\ \A new \in RowRecord : Flushed(r, Seen(w, r), new) = new
<1> DEFINE r == session[w].row
<1>1. Active(w) /\ session[w] \in Session /\ row \in [Rows -> RowRecord]
  BY DEF Inv, TypeOK, Active, OnRow
<1>2. Fresh(w) /\ Placed(w)
  BY <1>1 DEF Inv, Work
<1>3. r \in Rows /\ r \in Mine(w) /\ row[r].status = "processing" /\ r \notin session[w].todo
  BY <1>2 DEF Placed, Mine, RowsOf
<1>4. Seen(w, r) = row[r]
  BY <1>2, <1>3 DEF Fresh, Seen
<1>5. ASSUME NEW new \in RowRecord PROVE Flushed(r, Seen(w, r), new) = new
  BY <1>4 DEF Flushed, RowRecord
<1> QED BY <1>1, <1>3, <1>4, <1>5

\* The facts about rows and plans hold after a row has changed as rows may.
LEMMA RowwiseKept ==
  ASSUME Inv, NEW r \in Rows,
         row' \in [Rows -> RowRecord], \A q \in Rows \ {r} : row'[q] = row[q],
         \A n \in DOMAIN plans :
           n \in DOMAIN plans' /\ plans'[n].row = plans[n].row
             /\ (plans[n].executed => plans'[n].executed),
         \A n \in DOMAIN plans' : plans'[n].executed =>
           (n \in DOMAIN plans /\ plans[n].executed) \/ row'[plans'[n].row].plan = n,
         \/ row'[r].plan = row[r].plan
         \/ /\ row[r].plan = NoPlan
            /\ row'[r].plan \in DOMAIN plans' /\ plans'[row'[r].plan].row = r,
         row'[r].status = "queued" => Executed(row[r].plan) /\ row'[r].plan = row[r].plan,
         row'[r].status \in {"failed", "invalid"} => Flaw[r] # "none" \/ Shared(r)
  PROVE  Rowwise'
<1>1. Rowwise /\ plans \in Seq([row : Rows, executed : BOOLEAN])
  BY DEF Inv, TypeOK
<1>2. \A n \in DOMAIN plans : n # NoPlan /\ plans[n].row \in Rows
  <2> DEFINE Plan == [row : Rows, executed : BOOLEAN]
  <2>1. plans \in Seq(Plan)
    BY <1>1
  <2>2. DOMAIN plans = 1..Len(plans) /\ \A n \in DOMAIN plans : plans[n] \in Plan
    <3> HIDE DEF Plan
    <3> QED BY <2>1
  <2>3. \A n \in DOMAIN plans : n \in Nat /\ plans[n].row \in Rows
    BY <2>1, <2>2
  <2> QED BY <2>3, ConstantTypes
<1>3. Named'
  <2>1. ASSUME NEW q \in Rows, row'[q].plan # NoPlan
        PROVE  row'[q].plan \in DOMAIN plans' /\ plans'[row'[q].plan].row = q
    BY <1>1, <2>1 DEF Rowwise, Named
  <2>2. ASSUME NEW n \in DOMAIN plans', plans'[n].executed
        PROVE  row'[plans'[n].row].plan = n
    <3>1. CASE n \in DOMAIN plans /\ plans[n].executed
      <4>1. row[plans[n].row].plan = n /\ plans'[n].row = plans[n].row /\ n # NoPlan
        BY <1>1, <1>2, <3>1 DEF Rowwise, Named
      <4> QED BY <1>2, <3>1, <4>1
    <3> QED BY <2>2, <3>1
  <2> QED BY <2>1, <2>2 DEF Named
<1>4. QueuedRowsHaveBatches'
  BY <1>1 DEF Rowwise, QueuedRowsHaveBatches, Executed
<1>5. RowsFailForCause'
  BY <1>1 DEF Rowwise, RowsFailForCause, Shared
<1> QED BY <1>3, <1>4, <1>5 DEF Rowwise

\* A session that works on its row, or ends that work, keeps its place.
LEMMA PlaceKept ==
  ASSUME Inv, NEW w \in Workers, session[w].pc \in OnRow, NEW s \in Session,
         s.job = session[w].job, s.todo = session[w].todo, s.row = session[w].row,
         session'[w] = s, job' = job,
         \A q \in Rows \ {s.row} : row'[q] = row[q],
         \A q \in Rows \ {s.row} : s.cache[q] \in {NotLoaded, session[w].cache[q]},
         s.cache[s.row] \in {NotLoaded, session[w].cache[s.row], row'[s.row]},
         \/ s.pc = "next" /\ row'[s.row].status \notin Unsettled /\ s.cache[s.row] = row'[s.row]
         \/ s.pc \in OnRow /\ row'[s.row] = row[s.row]
         \/ s.pc \in OnRow /\ row'[s.row].status = "processing" /\ s.cache[s.row] = row'[s.row]
  PROVE  (Owner(w) /\ Fresh(w) /\ Placed(w))'
<1>1. Owner(w) /\ Fresh(w) /\ Placed(w)
  BY AtRow DEF Inv, Work
<1>2. s.row \in Mine(w) /\ s.row \notin s.todo /\ row[s.row].status = "processing" /\ Mine(w)' = Mine(w)
  BY AtRow DEF Mine
<1>3. Owner(w)'
  BY <1>1 DEF Owner
<1>4. Fresh(w)'
  <2> SUFFICES ASSUME NEW q \in Mine(w) PROVE s.cache[q] \in {NotLoaded, row'[q]}
    BY <1>2 DEF Fresh
  <2>1. q \in Rows /\ session[w].cache[q] \in {NotLoaded, row[q]}
    BY <1>1 DEF Fresh, Mine, RowsOf
  <2> QED BY <2>1
<1>5. Placed(w)'
  <2>1. \A q \in s.todo : q \in Rows /\ row'[q].status \in Unsettled
    BY <1>1, <1>2 DEF Placed, Mine, RowsOf
  <2>2. s.pc \in OnRow => row'[s.row].status = "processing"
    BY <1>2 DEF OnRow
  <2>3. \A q \in Mine(w) : row'[q].status \in Unsettled => q \in s.todo \/ (s.pc \in OnRow /\ q = s.row)
    <3>1. session[w].pc # "load"
      BY DEF OnRow
    <3>2. \A q \in Mine(w) : q \in Rows /\ (row[q].status \in Unsettled => q \in s.todo \/ q = s.row)
      BY <1>1, <3>1 DEF Placed, Mine, RowsOf
    <3> QED BY <3>2
  <2> QED BY <1>1, <1>2, <2>1, <2>2, <2>3 DEF Placed
<1> QED BY <1>3, <1>4, <1>5

\* A session that works on its row keeps the invariant when it knows what it
\* must and the rows and plans hold what they must.
LEMMA RowTurn ==
  ASSUME Inv, NEW w \in Workers, session[w].pc \in OnRow, NEW s \in Session,
         s.job = session[w].job, s.todo = session[w].todo, s.row = session[w].row,
         session' = [session EXCEPT ![w] = s], job' = job,
         UNCHANGED <<crashes, overruns>>,
         row' \in [Rows -> RowRecord],
         \A q \in Rows \ {s.row} : row'[q] = row[q],
         \A q \in Rows \ {s.row} : s.cache[q] \in {NotLoaded, session[w].cache[q]},
         s.cache[s.row] \in {NotLoaded, session[w].cache[s.row], row'[s.row]},
         \/ s.pc = "next" /\ row'[s.row].status \notin Unsettled /\ s.cache[s.row] = row'[s.row]
         \/ s.pc \in OnRow /\ row'[s.row] = row[s.row]
         \/ s.pc \in OnRow /\ row'[s.row].status = "processing" /\ s.cache[s.row] = row'[s.row],
         products' \in {products, products \union {Sku[s.row]}},
         plans' \in Seq([row : Rows, executed : BOOLEAN]), Len(plans') <= MaxPlans,
         \A n \in DOMAIN plans :
           /\ n \in DOMAIN plans' /\ plans'[n].row = plans[n].row
           /\ plans[n].row # s.row => plans'[n] = plans[n],
         Informed(w)', Rowwise'
  PROVE  Inv'
<1>1. s.row \in Rows /\ s.row \in Mine(w) /\ Active(w)
  BY AtRow
<1>2. session'[w] = s
  BY DEF Inv, TypeOK
<1>3. (Owner(w) /\ Fresh(w) /\ Placed(w))'
  BY <1>2, PlaceKept
<1>4. Work(w)'
  BY <1>3 DEF Work
<1>5. ASSUME NEW r \in Rows \ Mine(w)
      PROVE  row'[r] = row[r] /\ (Sku[r] \in products' => Sku[r] \in products \/ Shared(r))
  <2>1. r # s.row /\ JobOf[s.row] # JobOf[r]
    BY <1>1 DEF Mine, RowsOf
  <2> QED BY <1>1, <2>1 DEF Shared
<1>6. \A n \in DOMAIN plans : plans[n].row \notin Mine(w) => plans'[n] = plans[n]
  BY <1>1
<1>7. Apart' /\ (\A v \in Workers : Work(v)') /\ VerdictIsTrue' /\ session' \in [Workers -> Session]
  BY <1>1, <1>4, <1>5, <1>6, Turn
<1>8. TypeOK'
  <2>1. products' \subseteq {Sku[r] : r \in Rows}
    BY <1>1 DEF Inv, TypeOK
  <2> QED BY <1>7, <2>1 DEF Inv, TypeOK
<1> QED BY <1>7, <1>8 DEF Inv

-----------------------------------------------------------------------------
(* The steps of one row.                                                   *)

LEMMA FailStep ==
  ASSUME Inv, NEW w \in Workers, session[w].pc \in OnRow, FailRow(w),
         Flaw[session[w].row] # "none" \/ Shared(session[w].row)
  PROVE  Inv'
<1> DEFINE r == session[w].row
           new == [row[r] EXCEPT !.status = IF session[w].job \in DryRuns THEN "invalid" ELSE "failed"]
           s == [session[w] EXCEPT !.pc = "next",
                   !.cache = [q \in Rows |-> IF q = r THEN new ELSE NotLoaded]]
<1>1. r \in Rows /\ session[w] \in Session /\ row \in [Rows -> RowRecord] /\ row[r] \in RowRecord
  BY AtRow DEF Inv, TypeOK
<1>2. new \in RowRecord /\ new.status \in {"failed", "invalid"} /\ new.plan = row[r].plan
  BY <1>1 DEF RowRecord, RowStatus
<1>3. s \in Session
  BY <1>1, <1>2 DEF Session
<1>4. row' \in [Rows -> RowRecord] /\ row'[r] = new /\ \A q \in Rows \ {r} : row'[q] = row[q]
  BY <1>1, <1>2 DEF FailRow
<1>5. session' = [session EXCEPT ![w] = s] /\ UNCHANGED <<products, job, plans, crashes, overruns>>
  BY DEF FailRow, Become
<1>6. Rowwise'
  BY <1>1, <1>2, <1>4, <1>5, RowwiseKept
<1>7. Informed(w)'
  BY <1>5 DEF Informed, Inv, TypeOK
<1>8. /\ s.job = session[w].job /\ s.todo = session[w].todo /\ s.row = r /\ s.pc = "next"
      /\ s.cache[r] = new /\ \A q \in Rows \ {r} : s.cache[q] = NotLoaded
  BY <1>1 DEF Session
<1>9. plans \in Seq([row : Rows, executed : BOOLEAN]) /\ Len(plans) <= MaxPlans
  BY DEF Inv, TypeOK
<1>10. new.status \notin Unsettled
  BY <1>2 DEF Unsettled
<1> HIDE DEF s, new
<1> QED BY <1>1, <1>3, <1>4, <1>5, <1>6, <1>7, <1>8, <1>9, <1>10, RowTurn

\* A step that only moves the session on keeps the invariant.
LEMMA Onward ==
  ASSUME Inv, NEW w \in Workers, session[w].pc \in OnRow, NEW s \in Session,
         s.job = session[w].job, s.todo = session[w].todo, s.row = session[w].row,
         s.cache = session[w].cache, s.pc \in OnRow,
         session' = [session EXCEPT ![w] = s], UNCHANGED <<job, row, crashes, overruns>>,
         products' \in {products, products \union {Sku[s.row]}},
         plans' \in Seq([row : Rows, executed : BOOLEAN]), Len(plans') <= MaxPlans,
         \A n \in DOMAIN plans :
           /\ n \in DOMAIN plans' /\ plans'[n].row = plans[n].row
           /\ plans[n].executed => plans'[n].executed
           /\ plans[n].row # s.row => plans'[n] = plans[n],
         \A n \in DOMAIN plans' : plans'[n].executed =>
           (n \in DOMAIN plans /\ plans[n].executed) \/ row[plans'[n].row].plan = n,
         Informed(w)'
  PROVE  Inv'
<1>1. s.row \in Rows /\ row \in [Rows -> RowRecord] /\ row[s.row].status = "processing"
  BY AtRow DEF Inv, TypeOK
<1>2. Rowwise'
  BY <1>1, RowwiseKept
<1> QED BY <1>1, <1>2, RowTurn

\* What a commit at a row writes and remembers.
LEMMA CommitWrites ==
  ASSUME Inv, NEW w \in Workers, session[w].pc \in OnRow, NEW pc, NEW new \in RowRecord,
         Commit(w, session[w].row, new, pc),
         pc \in {"next"} \union OnRow
  PROVE  \E s \in Session :
         /\ session' = [session EXCEPT ![w] = s] /\ session'[w] = s
         /\ s.job = session[w].job /\ s.todo = session[w].todo /\ s.row = session[w].row
         /\ s.pc = pc /\ s.made = session[w].made /\ s.cache[s.row] = new
         /\ \A q \in Rows \ {s.row} : s.cache[q] = session[w].cache[q]
         /\ row' \in [Rows -> RowRecord] /\ row'[s.row] = new
         /\ \A q \in Rows \ {s.row} : row'[q] = row[q]
<1> DEFINE r == session[w].row
           s == [session[w] EXCEPT !.pc = pc, !.cache[r] = new]
<1>1. r \in Rows /\ session[w] \in Session /\ row \in [Rows -> RowRecord]
  BY AtRow DEF Inv, TypeOK
<1>2. Flushed(r, Seen(w, r), new) = new
  BY AtRow
<1>3. row' = [row EXCEPT ![r] = new]
  BY <1>2 DEF Commit
<1>4. session' = [session EXCEPT ![w] = [session[w] EXCEPT !.pc = pc, !.row = r, !.cache[r] = new]]
  BY DEF Commit, Become
<1>5. [session[w] EXCEPT !.pc = pc, !.row = r, !.cache[r] = new] = s
  BY <1>1 DEF Session
<1>6. s \in Session
  BY <1>1 DEF Session, OnRow
<1>7. session' = [session EXCEPT ![w] = s] /\ session'[w] = s
  BY <1>4, <1>5 DEF Inv, TypeOK
<1>8. /\ s.job = session[w].job /\ s.todo = session[w].todo /\ s.row = r /\ s.pc = pc
      /\ s.made = session[w].made
      /\ s.cache[r] = new /\ \A q \in Rows \ {r} : s.cache[q] = session[w].cache[q]
  BY <1>1 DEF Session
<1>9. row' \in [Rows -> RowRecord] /\ row'[r] = new /\ \A q \in Rows \ {r} : row'[q] = row[q]
  BY <1>1, <1>3
<1> HIDE DEF s
<1> QED BY <1>6, <1>7, <1>8, <1>9

LEMMA InvParts ==
  ASSUME Inv
  PROVE  /\ row \in [Rows -> RowRecord] /\ session \in [Workers -> Session]
         /\ plans \in Seq([row : Rows, executed : BOOLEAN]) /\ Len(plans) <= MaxPlans
         /\ Rowwise
         /\ \A w \in Workers : session[w].pc \in OnRow => Informed(w)
BY AtRow DEF Inv, TypeOK, Work

LEMMA ValidateStep ==
  ASSUME Inv, NEW w \in Workers, Validate(w)
  PROVE  Inv'
<1> DEFINE r == session[w].row
<1>1. session[w].pc \in OnRow
  BY DEF Validate, At, OnRow
<1>2. CASE Flaw[r] = "invalid" /\ FailRow(w)
  BY <1>1, <1>2, FailStep
<1>3. CASE session[w].job \in DryRuns /\ Commit(w, r, [Seen(w, r) EXCEPT !.status = "valid"], "next")
           /\ UNCHANGED <<products, job, plans, crashes, overruns>>
  <2> DEFINE new == [Seen(w, r) EXCEPT !.status = "valid"]
  <2>1. new \in RowRecord /\ new.status = "valid" /\ new.plan = row[r].plan /\ r \in Rows
    BY <1>1, AtRow DEF RowRecord, RowStatus
  <2>2. Commit(w, r, new, "next")
    BY <1>3
  <2> HIDE DEF new
  <2>3. PICK s \in Session :
          /\ session' = [session EXCEPT ![w] = s] /\ session'[w] = s
          /\ s.job = session[w].job /\ s.todo = session[w].todo /\ s.row = r
          /\ s.pc = "next" /\ s.made = session[w].made /\ s.cache[s.row] = new
          /\ \A q \in Rows \ {s.row} : s.cache[q] = session[w].cache[q]
          /\ row' \in [Rows -> RowRecord] /\ row'[s.row] = new
          /\ \A q \in Rows \ {s.row} : row'[q] = row[q]
    BY <1>1, <2>1, <2>2, CommitWrites
  <2>4. Rowwise'
    BY <1>3, <2>1, <2>3, RowwiseKept
  <2>5. Informed(w)'
    BY <2>3 DEF Informed
  <2>6. row'[r].status \notin Unsettled
    BY <2>1, <2>3 DEF Unsettled
  <2> QED BY <1>1, <1>3, <2>3, <2>4, <2>5, <2>6, InvParts, RowTurn
<1>4. CASE Become(w, [session[w] EXCEPT !.pc = "product", !.known = Known(r)])
           /\ UNCHANGED <<products, job, row, plans, crashes, overruns>>
  <2> DEFINE s == [session[w] EXCEPT !.pc = "product", !.known = Known(r)]
  <2>1. session[w] \in Session /\ Known(r) \in BOOLEAN
    BY InvParts DEF Known
  <2>2. /\ s \in Session /\ s.job = session[w].job /\ s.todo = session[w].todo /\ s.row = r
        /\ s.pc = "product" /\ s.cache = session[w].cache /\ s.known = Known(r)
    BY <2>1 DEF Session
  <2>3. session' = [session EXCEPT ![w] = s] /\ session'[w] = s
    BY <1>4, InvParts DEF Become
  <2> HIDE DEF s
  <2>4. Informed(w)'
    BY <1>4, <2>2, <2>3 DEF Informed, Known
  <2>5. s.pc \in OnRow
    BY <2>2 DEF OnRow
  <2> QED BY <1>1, <1>4, <2>2, <2>3, <2>4, <2>5, InvParts, Onward
<1> QED BY <1>2, <1>3, <1>4 DEF Validate

LEMMA SaveProductStep ==
  ASSUME Inv, NEW w \in Workers, SaveProduct(w)
  PROVE  Inv'
<1> DEFINE r == session[w].row
           s == [session[w] EXCEPT !.pc = "plan"]
<1>1. session[w].pc \in OnRow /\ session[w].pc = "product"
  BY DEF SaveProduct, At, OnRow
<1>2. CASE ~session[w].known /\ Sku[r] \in products /\ FailRow(w)
  <2>1. Shared(r)
    BY <1>1, <1>2, InvParts DEF Informed
  <2> QED BY <1>1, <1>2, <2>1, FailStep
<1>3. CASE /\ products' = products \union {Sku[r]} /\ Become(w, s)
           /\ UNCHANGED <<job, row, plans, crashes, overruns>>
  <2>1. session[w] \in Session
    BY InvParts
  <2>2. /\ s \in Session /\ s.job = session[w].job /\ s.todo = session[w].todo /\ s.row = r
        /\ s.pc = "plan" /\ s.cache = session[w].cache
    BY <2>1 DEF Session
  <2>3. session' = [session EXCEPT ![w] = s] /\ session'[w] = s
    BY <1>3, InvParts DEF Become
  <2> HIDE DEF s
  <2>4. Informed(w)'
    BY <2>2, <2>3 DEF Informed
  <2>5. s.pc \in OnRow
    BY <2>2 DEF OnRow
  <2> QED BY <1>1, <1>3, <2>2, <2>3, <2>4, <2>5, InvParts, Onward
<1> QED BY <1>2, <1>3 DEF SaveProduct

LEMMA MakePlanStep ==
  ASSUME Inv, NEW w \in Workers, MakePlan(w)
  PROVE  Inv'
<1> DEFINE r == session[w].row
           p == Len(plans) + 1
<1>1. session[w].pc \in OnRow /\ r \in Rows /\ Seen(w, r) = row[r]
  BY AtRow DEF MakePlan, At, OnRow
<1>2. session[w] \in Session
  BY InvParts
<1>3. CASE Flaw[r] = "uncompilable" /\ FailRow(w)
  BY <1>1, <1>3, FailStep
<1>4. CASE /\ NeedsPlan(w) /\ p <= MaxPlans
           /\ plans' = Append(plans, [row |-> r, executed |-> FALSE])
           /\ Become(w, [session[w] EXCEPT !.pc = "record", !.made = p])
           /\ UNCHANGED <<products, job, row, crashes, overruns>>
  <2> DEFINE s == [session[w] EXCEPT !.pc = "record", !.made = p]
             Plan == [row : Rows, executed : BOOLEAN]
             new == [row |-> r, executed |-> FALSE]
  <2>1. plans \in Seq(Plan) /\ new \in Plan
    BY <1>1, InvParts
  <2>2. new.row = r /\ new.executed = FALSE
    OBVIOUS
  <2>3. /\ p \in Nat /\ plans' \in Seq(Plan) /\ Len(plans') = p /\ p \in DOMAIN plans' /\ plans'[p] = new
        /\ \A n \in DOMAIN plans : n \in DOMAIN plans' /\ plans'[n] = plans[n]
        /\ \A n \in DOMAIN plans' : n = p \/ n \in DOMAIN plans
    <3> HIDE DEF Plan, new
    <3>1. plans' = Append(plans, new)
      BY <1>4 DEF new
    <3> QED BY <2>1, <3>1
  <2> HIDE DEF new
  <2>4. /\ s \in Session /\ s.job = session[w].job /\ s.todo = session[w].todo /\ s.row = r
        /\ s.pc = "record" /\ s.cache = session[w].cache /\ s.made = p
    BY <1>2, <2>3 DEF Session
  <2>5. session' = [session EXCEPT ![w] = s] /\ session'[w] = s
    BY <1>4, InvParts DEF Become
  <2> HIDE DEF s, p
  <2>6. row[r].plan = NoPlan
    BY <1>1, <1>4 DEF NeedsPlan
  <2>7. Informed(w)'
    BY <1>4, <2>2, <2>3, <2>4, <2>5, <2>6 DEF Informed
  <2>8. s.pc \in OnRow
    BY <2>4 DEF OnRow
  <2>9. \A n \in DOMAIN plans' : plans'[n].executed => n \in DOMAIN plans /\ plans[n].executed
    BY <2>2, <2>3
  <2>10. Len(plans') <= MaxPlans
    BY <1>4, <2>3 DEF p
  <2> QED BY <1>1, <1>4, <2>3, <2>4, <2>5, <2>7, <2>8, <2>9, <2>10, Onward
<1>5. CASE /\ ~NeedsPlan(w) /\ Become(w, [session[w] EXCEPT !.pc = "find"])
           /\ UNCHANGED <<products, job, row, plans, crashes, overruns>>
  <2> DEFINE s == [session[w] EXCEPT !.pc = "find"]
  <2>1. /\ s \in Session /\ s.job = session[w].job /\ s.todo = session[w].todo /\ s.row = r
        /\ s.pc = "find" /\ s.cache = session[w].cache
    BY <1>2 DEF Session
  <2>2. session' = [session EXCEPT ![w] = s] /\ session'[w] = s
    BY <1>5, InvParts DEF Become
  <2> HIDE DEF s
  <2>3. Informed(w)'
    BY <1>1, <1>5, <2>1, <2>2 DEF Informed, NeedsPlan
  <2>4. s.pc \in OnRow
    BY <2>1 DEF OnRow
  <2> QED BY <1>1, <1>5, <2>1, <2>2, <2>3, <2>4, InvParts, Onward
<1> QED BY <1>3, <1>4, <1>5 DEF MakePlan

LEMMA RecordPlanStep ==
  ASSUME Inv, NEW w \in Workers, RecordPlan(w)
  PROVE  Inv'
<1> DEFINE r == session[w].row
           new == [Seen(w, r) EXCEPT !.plan = session[w].made]
<1>1. session[w].pc \in OnRow /\ session[w].pc = "record"
  BY DEF RecordPlan, At, OnRow
<1>2. r \in Rows /\ Seen(w, r) = row[r] /\ row[r] \in RowRecord /\ row[r].status = "processing"
  BY <1>1, AtRow
<1>3. /\ row[r].plan = NoPlan /\ session[w].made \in DOMAIN plans
      /\ plans[session[w].made].row = r
  BY <1>1, InvParts DEF Informed
<1>4. session[w].made \in Nat /\ session[w].made # NoPlan
  BY <1>3, InvParts, ConstantTypes
<1>5. new \in RowRecord /\ new.status = "processing" /\ new.plan = session[w].made
  BY <1>2, <1>4 DEF RowRecord
<1>6. Commit(w, r, new, "find") /\ UNCHANGED <<products, job, plans, crashes, overruns>>
  BY DEF RecordPlan
<1> HIDE DEF new
<1>7. "find" \in OnRow
  BY DEF OnRow
<1>8. PICK s \in Session :
          /\ session' = [session EXCEPT ![w] = s] /\ session'[w] = s
          /\ s.job = session[w].job /\ s.todo = session[w].todo /\ s.row = r
          /\ s.pc = "find" /\ s.made = session[w].made /\ s.cache[s.row] = new
          /\ \A q \in Rows \ {s.row} : s.cache[q] = session[w].cache[q]
          /\ row' \in [Rows -> RowRecord] /\ row'[s.row] = new
          /\ \A q \in Rows \ {s.row} : row'[q] = row[q]
  BY <1>1, <1>5, <1>6, <1>7, CommitWrites
<1>9. Rowwise'
  BY <1>2, <1>3, <1>5, <1>6, <1>8, RowwiseKept
<1>10. Informed(w)'
  BY <1>4, <1>5, <1>8 DEF Informed
<1> QED BY <1>1, <1>5, <1>6, <1>7, <1>8, <1>9, <1>10, InvParts, RowTurn

LEMMA FindBatchesStep ==
  ASSUME Inv, NEW w \in Workers, FindBatches(w)
  PROVE  Inv'
<1> DEFINE r == session[w].row
           next == IF Executed(Seen(w, r).plan) THEN "settle" ELSE "execute"
           s == [session[w] EXCEPT !.pc = next]
<1>1. session[w].pc \in OnRow /\ session[w].pc = "find"
  BY DEF FindBatches, At, OnRow
<1>2. session[w] \in Session /\ Seen(w, r) = row[r] /\ row[r].plan # NoPlan
  BY <1>1, AtRow, InvParts DEF Informed
<1>3. next \in OnRow /\ next = IF Executed(row[r].plan) THEN "settle" ELSE "execute"
  BY <1>2 DEF OnRow
<1>4. Become(w, s) /\ UNCHANGED <<products, job, row, plans, crashes, overruns>>
  BY DEF FindBatches
<1> HIDE DEF next
<1>5. /\ s \in Session /\ s.job = session[w].job /\ s.todo = session[w].todo /\ s.row = r
      /\ s.pc = next /\ s.cache = session[w].cache
  BY <1>2, <1>3 DEF Session, OnRow
<1>6. session' = [session EXCEPT ![w] = s] /\ session'[w] = s
  BY <1>4, InvParts DEF Become
<1> HIDE DEF s
<1>7. Informed(w)'
  BY <1>2, <1>3, <1>4, <1>5, <1>6 DEF Informed, Executed
<1> QED BY <1>1, <1>3, <1>4, <1>5, <1>6, <1>7, InvParts, Onward

LEMMA ExecuteStep ==
  ASSUME Inv, NEW w \in Workers, Execute(w)
  PROVE  Inv'
<1> DEFINE r == session[w].row
           n == row[r].plan
           s == [session[w] EXCEPT !.pc = "settle"]
           Plan == [row : Rows, executed : BOOLEAN]
<1>1. session[w].pc \in OnRow /\ session[w].pc = "execute"
  BY DEF Execute, At, OnRow
<1>2. r \in Rows /\ Seen(w, r) = row[r] /\ session[w] \in Session
  BY <1>1, AtRow
<1>3. n # NoPlan /\ ~Executed(n)
  BY <1>1, InvParts DEF Informed
<1>4. n \in DOMAIN plans /\ plans[n].row = r
  BY <1>2, <1>3, InvParts DEF Rowwise, Named
<1>5. CASE Flaw[r] = "unexecutable" /\ FailRow(w)
  BY <1>1, <1>5, FailStep
<1>6. CASE /\ plans' = [plans EXCEPT ![n].executed = TRUE] /\ Become(w, s)
           /\ UNCHANGED <<products, job, row, crashes, overruns>>
  <2>1. plans \in Seq(Plan) /\ DOMAIN plans = 1..Len(plans)
    BY InvParts
  <2>2. plans[n] \in Plan
    <3> HIDE DEF Plan, n
    <3> QED BY <1>4, <2>1
  <2>3. /\ plans' \in Seq(Plan) /\ Len(plans') = Len(plans) /\ DOMAIN plans' = DOMAIN plans
        /\ plans'[n] = [plans[n] EXCEPT !.executed = TRUE]
        /\ \A m \in DOMAIN plans : m # n => plans'[m] = plans[m]
    <3> DEFINE done == [plans[n] EXCEPT !.executed = TRUE]
    <3>1. done \in Plan
      BY <2>2
    <3>2. plans' = [plans EXCEPT ![n] = done]
      BY <1>6
    <3> HIDE DEF Plan, n, done
    <3>3. plans' \in Seq(Plan) /\ Len(plans') = Len(plans)
      BY <1>4, <2>1, <3>1, <3>2
    <3>4. DOMAIN plans' = DOMAIN plans /\ plans'[n] = done
      BY <1>4, <3>2
    <3>5. \A m \in DOMAIN plans : m # n => plans'[m] = plans[m]
      BY <3>2
    <3> QED BY <3>3, <3>4, <3>5 DEF done
  <2>4. plans'[n].row = r /\ plans'[n].executed
    BY <1>4, <2>2, <2>3
  <2>5. /\ s \in Session /\ s.job = session[w].job /\ s.todo = session[w].todo /\ s.row = r
        /\ s.pc = "settle" /\ s.cache = session[w].cache
    BY <1>2 DEF Session
  <2>6. session' = [session EXCEPT ![w] = s] /\ session'[w] = s
    BY <1>6, InvParts DEF Become
  <2> HIDE DEF s
  <2>7. Informed(w)'
    BY <1>3, <1>4, <1>6, <2>3, <2>4, <2>5, <2>6 DEF Informed, Executed
  <2>8. s.pc \in OnRow
    BY <2>5 DEF OnRow
  <2>9. \A m \in DOMAIN plans :
          /\ m \in DOMAIN plans' /\ plans'[m].row = plans[m].row
          /\ plans[m].executed => plans'[m].executed
          /\ plans[m].row # s.row => plans'[m] = plans[m]
    BY <1>4, <2>3, <2>4, <2>5
  <2>10. \A m \in DOMAIN plans' : plans'[m].executed =>
           (m \in DOMAIN plans /\ plans[m].executed) \/ row[plans'[m].row].plan = m
    BY <2>3, <2>4
  <2>11. plans' \in Seq(Plan) /\ Len(plans') <= MaxPlans
    BY <2>3, InvParts
  <2>12. UNCHANGED <<job, row, crashes, overruns>> /\ products' = products
    BY <1>6
  <2> QED BY <1>1, <2>5, <2>6, <2>7, <2>8, <2>9, <2>10, <2>11, <2>12, Onward
<1> QED BY <1>2, <1>3, <1>5, <1>6 DEF Execute

LEMMA SettleStep ==
  ASSUME Inv, NEW w \in Workers, Settle(w)
  PROVE  Inv'
<1> DEFINE r == session[w].row
           new == [Seen(w, r) EXCEPT !.status = "queued"]
<1>1. session[w].pc \in OnRow /\ session[w].pc = "settle"
  BY DEF Settle, At, OnRow
<1>2. r \in Rows /\ Seen(w, r) = row[r] /\ row[r] \in RowRecord
  BY <1>1, AtRow
<1>3. Executed(row[r].plan)
  BY <1>1, InvParts DEF Informed
<1>4. new \in RowRecord /\ new.status = "queued" /\ new.plan = row[r].plan
  BY <1>2 DEF RowRecord, RowStatus
<1>5. Commit(w, r, new, "next") /\ UNCHANGED <<products, job, plans, crashes, overruns>>
  BY DEF Settle
<1> HIDE DEF new
<1>6. PICK s \in Session :
          /\ session' = [session EXCEPT ![w] = s] /\ session'[w] = s
          /\ s.job = session[w].job /\ s.todo = session[w].todo /\ s.row = r
          /\ s.pc = "next" /\ s.made = session[w].made /\ s.cache[s.row] = new
          /\ \A q \in Rows \ {s.row} : s.cache[q] = session[w].cache[q]
          /\ row' \in [Rows -> RowRecord] /\ row'[s.row] = new
          /\ \A q \in Rows \ {s.row} : row'[q] = row[q]
  BY <1>1, <1>4, <1>5, CommitWrites
<1>7. Rowwise'
  BY <1>2, <1>3, <1>4, <1>5, <1>6, RowwiseKept
<1>8. Informed(w)'
  BY <1>6 DEF Informed
<1>9. row'[r].status \notin Unsettled
  BY <1>4, <1>6 DEF Unsettled
<1> QED BY <1>1, <1>5, <1>6, <1>7, <1>8, <1>9, InvParts, RowTurn

-----------------------------------------------------------------------------
(* The steps of a job.                                                     *)

\* The work of a session is kept by a step that is about another job.
LEMMA OthersKept ==
  ASSUME Inv, UNCHANGED <<products, row, plans>>, NEW v \in Workers,
         session'[v] = session[v],
         Active(v) => job'[session[v].job] = job[session[v].job]
  PROVE  Work(v)'
<1>1. \A r \in Mine(v) : Sku[r] \in products' => Sku[r] \in products \/ Shared(r)
  OBVIOUS
<1>2. \A n \in DOMAIN plans :
        /\ n \in DOMAIN plans' /\ plans'[n].row = plans[n].row
        /\ plans[n].row \in Mine(v) => plans'[n] = plans[n]
  OBVIOUS
<1> QED BY <1>1, <1>2, WorkKept

LEMMA LoadStep ==
  ASSUME Inv, NEW w \in Workers, Load(w)
  PROVE  Inv'
<1> DEFINE todo == Unfinished(session[w].job)
           cache == [r \in Rows |-> IF r \in todo THEN row[r] ELSE NotLoaded]
           s == [session[w] EXCEPT !.pc = "next", !.todo = todo, !.cache = cache]
<1>1. Active(w) /\ session[w] \in Session /\ row \in [Rows -> RowRecord]
  BY InvParts DEF Load, At, Active
<1>2. Owner(w) /\ UNCHANGED <<products, job, row, plans, crashes, overruns>>
  BY <1>1 DEF Load, Inv, Work
<1>3. todo \subseteq Rows /\ cache \in [Rows -> RowRecord \union {NotLoaded}]
  BY <1>1 DEF Unfinished, RowsOf
<1>4. \A r \in Rows : cache[r] \in {NotLoaded, row[r]}
  OBVIOUS
<1>5. todo = {r \in Mine(w) : row[r].status \in Unsettled}
  BY DEF Unfinished, Mine, Unsettled
<1> HIDE DEF cache, todo
<1>6. s \in Session /\ s.job = session[w].job /\ s.todo = todo /\ s.pc = "next" /\ s.cache = cache
  BY <1>1, <1>3 DEF Session
<1>7. session' = [session EXCEPT ![w] = s] /\ session'[w] = s
  BY InvParts DEF Load, Become, todo, cache
<1> HIDE DEF s
<1>8. Owner(w)'
  BY <1>2, <1>6, <1>7 DEF Owner
<1>9. Fresh(w)'
  BY <1>2, <1>4, <1>6, <1>7 DEF Fresh, Mine, RowsOf
<1>10. Placed(w)'
  <2>1. Mine(w)' = Mine(w)
    BY <1>6, <1>7 DEF Mine
  <2>2. "next" \notin OnRow
    BY DEF OnRow
  <2> QED BY <1>2, <1>5, <1>6, <1>7, <2>1, <2>2 DEF Placed
<1>11. Informed(w)'
  BY <1>6, <1>7 DEF Informed
<1>12. Work(w)'
  BY <1>8, <1>9, <1>10, <1>11 DEF Work
<1>13. Apart' /\ (\A v \in Workers : Work(v)') /\ VerdictIsTrue' /\ session' \in [Workers -> Session]
  <2>1. \A r \in Rows \ Mine(w) :
          row'[r] = row[r] /\ (Sku[r] \in products' => Sku[r] \in products \/ Shared(r))
    BY <1>2
  <2>2. \A n \in DOMAIN plans :
          /\ n \in DOMAIN plans' /\ plans'[n].row = plans[n].row
          /\ plans[n].row \notin Mine(w) => plans'[n] = plans[n]
    BY <1>2
  <2> QED BY <1>1, <1>2, <1>6, <1>7, <1>12, <2>1, <2>2, Turn
<1>14. TypeOK' /\ Rowwise'
  BY <1>2, <1>13 DEF Inv, TypeOK, Rowwise, Named, QueuedRowsHaveBatches, RowsFailForCause, Executed
<1> QED BY <1>13, <1>14 DEF Inv

LEMMA StartStep ==
  ASSUME Inv, NEW w \in Workers, Start(w)
  PROVE  Inv'
<1> DEFINE r == Least(session[w].todo)
           new == [row[r] EXCEPT !.status = "processing"]
           s == [session[w] EXCEPT !.pc = "validate", !.row = r, !.todo = @ \ {r}, !.cache[r] = new]
<1>1. /\ Active(w) /\ session[w].pc = "next" /\ session[w] \in Session
      /\ row \in [Rows -> RowRecord] /\ job \in [Jobs -> [status : JobStatus,
                                         succeeded : 0..Cardinality(Rows), leased : BOOLEAN]]
  BY InvParts DEF Start, At, Active, Inv, TypeOK
<1>2. Owner(w) /\ Fresh(w) /\ Placed(w)
  BY <1>1 DEF Inv, Work
<1>3. r \in session[w].todo
  <2>1. session[w].todo \in SUBSET Nat /\ session[w].todo # {}
    BY <1>1, ConstantTypes DEF Start, Session
  <2> QED BY <2>1, LeastIsMember
<1>4. r \in Rows /\ r \in Mine(w) /\ row[r].status \in Unsettled /\ row[r] \in RowRecord
  BY <1>1, <1>2, <1>3 DEF Placed, Mine, RowsOf
<1>5. Seen(w, r) = row[r]
  BY <1>2, <1>4 DEF Fresh, Seen
<1>6. new \in RowRecord /\ new.status = "processing" /\ new.plan = row[r].plan
  BY <1>4 DEF RowRecord, RowStatus
<1>7. Flushed(r, Seen(w, r), new) = new
  BY <1>4, <1>5, <1>6 DEF Flushed, RowRecord
<1>8. row' = [row EXCEPT ![r] = new] /\ session' = [session EXCEPT ![w] = s]
  BY <1>5, <1>7 DEF Start, Become
<1>9. job' = job /\ UNCHANGED <<products, plans, crashes, overruns>>
  BY <1>1, <1>2 DEF Start, Owner
<1> HIDE DEF new
<1>10. s \in Session
  BY <1>1, <1>4, <1>6 DEF Session
<1>11. /\ s.job = session[w].job /\ s.todo = session[w].todo \ {r} /\ s.row = r /\ s.pc = "validate"
       /\ s.cache[r] = new /\ \A q \in Rows \ {r} : s.cache[q] = session[w].cache[q]
  BY <1>1, <1>4 DEF Session
<1>12. session'[w] = s
  BY <1>8, InvParts
<1> HIDE DEF s, r
<1>13. row' \in [Rows -> RowRecord] /\ row'[r] = new /\ \A q \in Rows \ {r} : row'[q] = row[q]
  BY <1>1, <1>4, <1>6, <1>8
<1>14. Owner(w)' /\ Mine(w)' = Mine(w)
  BY <1>2, <1>9, <1>11, <1>12 DEF Owner, Mine
<1>15. Fresh(w)'
  <2> SUFFICES ASSUME NEW q \in Mine(w) PROVE s.cache[q] \in {NotLoaded, row'[q]}
    BY <1>12, <1>14 DEF Fresh
  <2>1. q \in Rows /\ session[w].cache[q] \in {NotLoaded, row[q]}
    BY <1>2 DEF Fresh, Mine, RowsOf
  <2> QED BY <1>11, <1>13, <2>1
<1>16. Placed(w)'
  <2>1. \A q \in s.todo : q \in Mine(w) /\ q \in Rows /\ q # r /\ row'[q].status \in Unsettled
    BY <1>2, <1>11, <1>13 DEF Placed, Mine, RowsOf
  <2>2. \A q \in Mine(w) : row'[q].status \in Unsettled => q \in s.todo \/ q = r
    <3>1. session[w].pc # "load" /\ session[w].pc \notin OnRow
      BY <1>1 DEF OnRow
    <3>2. \A q \in Mine(w) : q \in Rows /\ (row[q].status \in Unsettled => q \in session[w].todo)
      BY <1>2, <3>1 DEF Placed, Mine, RowsOf
    <3> QED BY <1>11, <1>13, <3>2
  <2>3. "validate" \in OnRow
    BY DEF OnRow
  <2> QED BY <1>4, <1>6, <1>11, <1>12, <1>13, <1>14, <2>1, <2>2, <2>3 DEF Placed
<1>17. Work(w)'
  <2>1. Informed(w)'
    BY <1>11, <1>12 DEF Informed
  <2> QED BY <1>14, <1>15, <1>16, <2>1 DEF Work
<1>18. Apart' /\ (\A v \in Workers : Work(v)') /\ VerdictIsTrue' /\ session' \in [Workers -> Session]
  <2>1. \A q \in Rows \ Mine(w) :
          row'[q] = row[q] /\ (Sku[q] \in products' => Sku[q] \in products \/ Shared(q))
    BY <1>4, <1>9, <1>13
  <2>2. \A n \in DOMAIN plans :
          /\ n \in DOMAIN plans' /\ plans'[n].row = plans[n].row
          /\ plans[n].row \notin Mine(w) => plans'[n] = plans[n]
    BY <1>9
  <2> QED BY <1>1, <1>8, <1>9, <1>10, <1>11, <1>17, <2>1, <2>2, Turn
<1>19. Rowwise'
  <2>1. \A n \in DOMAIN plans' : plans'[n].executed => n \in DOMAIN plans /\ plans[n].executed
    BY <1>9
  <2> QED BY <1>4, <1>6, <1>9, <1>13, <2>1, RowwiseKept
<1>20. TypeOK'
  BY <1>9, <1>13, <1>18 DEF Inv, TypeOK
<1> QED BY <1>18, <1>19, <1>20 DEF Inv

\* A step of the job table keeps what it says of rows and plans.
LEMMA RowwiseStays ==
  ASSUME Inv, UNCHANGED <<row, plans>>
  PROVE  Rowwise'
BY DEF Inv, Rowwise, Named, QueuedRowsHaveBatches, RowsFailForCause, Executed

LEMMA ClaimStep ==
  ASSUME Inv, NEW w \in Workers, Claim(w)
  PROVE  Inv'
<1> DEFINE j == Least(Claimable)
           s == [Idle EXCEPT !.pc = "load", !.job = j]
<1>1. j \in Jobs /\ (job[j].status = "pending" \/ (job[j].status = "processing" /\ ~job[j].leased))
  <2>1. Claimable \in SUBSET Nat /\ Claimable # {}
    BY ConstantTypes DEF Claim, Claimable
  <2>2. j \in Claimable
    BY <2>1, LeastIsMember
  <2> QED BY <2>2 DEF Claimable
<1>2. /\ job' = [job EXCEPT ![j].status = "processing", ![j].leased = TRUE]
      /\ session' = [session EXCEPT ![w] = s]
      /\ UNCHANGED <<products, row, plans, crashes, overruns>>
  BY DEF Claim, Become
<1> HIDE DEF j
<1>3. /\ s \in Session /\ s.job = j /\ s.pc = "load" /\ s.todo = {}
      /\ \A r \in Rows : s.cache[r] = NotLoaded
  BY <1>1, IdleTyped DEF Session, Idle
<1> HIDE DEF s
<1>4. /\ session' \in [Workers -> Session] /\ session'[w] = s
      /\ \A v \in Workers \ {w} : session'[v] = session[v]
  BY <1>2, <1>3, InvParts
<1>5. job \in [Jobs -> [status : JobStatus, succeeded : 0..Cardinality(Rows), leased : BOOLEAN]]
  BY DEF Inv, TypeOK
<1>6. /\ job' \in [Jobs -> [status : JobStatus, succeeded : 0..Cardinality(Rows), leased : BOOLEAN]]
      /\ job'[j].status = "processing" /\ job'[j].leased
      /\ \A k \in Jobs \ {j} : job'[k] = job[k]
  BY <1>1, <1>2, <1>5 DEF JobStatus
<1>7. \A v \in Workers : Active(v) => session[v].job \in Jobs \ {j}
  BY <1>1 DEF Inv, Work, Owner
<1>8. Apart'
  BY <1>3, <1>4, <1>7 DEF Inv, Apart, Active
<1>9. ASSUME NEW v \in Workers PROVE Work(v)'
  <2>1. CASE v = w
    <3>1. Owner(w)'
      BY <1>1, <1>3, <1>4, <1>6 DEF Owner
    <3>2. Fresh(w)'
      BY <1>3, <1>4 DEF Fresh, Mine, RowsOf
    <3>3. Placed(w)' /\ Informed(w)'
      BY <1>3, <1>4 DEF Placed, Informed, OnRow
    <3> QED BY <2>1, <3>1, <3>2, <3>3 DEF Work
  <2>2. CASE v # w
    BY <1>2, <1>4, <1>6, <1>7, <2>2, OthersKept
  <2> QED BY <2>1, <2>2
<1>10. VerdictIsTrue'
  <2> SUFFICES ASSUME NEW k \in Jobs, job'[k].status \notin {"pending", "processing"}
               PROVE  /\ \A r \in RowsOf(k) : row[r].status \notin {"pending", "processing"}
                      /\ job'[k].succeeded = Succeeded([r \in RowsOf(k) |-> row[r].status])
                      /\ job'[k].status = Verdict(k \in DryRuns, Cardinality(RowsOf(k)), job'[k].succeeded)
    BY <1>2 DEF VerdictIsTrue
  <2>1. job'[k] = job[k]
    BY <1>6
  <2> QED BY <2>1 DEF Inv, VerdictIsTrue
<1>11. TypeOK'
  BY <1>2, <1>4, <1>6 DEF Inv, TypeOK
<1> QED BY <1>2, <1>8, <1>9, <1>10, <1>11, RowwiseStays DEF Inv

LEMMA FinishStep ==
  ASSUME Inv, NEW w \in Workers, Finish(w)
  PROVE  Inv'
<1> DEFINE j == session[w].job
           n == Succeeded([r \in RowsOf(j) |-> Seen(w, r).status])
           done == [status |-> Verdict(j \in DryRuns, Cardinality(RowsOf(j)), n),
                    succeeded |-> n, leased |-> FALSE]
<1>1. /\ Active(w) /\ session[w].pc = "next" /\ session[w].todo = {}
      /\ job' = [job EXCEPT ![j] = done] /\ session' = [session EXCEPT ![w] = Idle]
      /\ UNCHANGED <<products, row, plans, crashes, overruns>>
  BY DEF Finish, At, Active, Become
<1>2. Owner(w) /\ Fresh(w) /\ Placed(w) /\ j \in Jobs
  BY <1>1 DEF Inv, Work, Owner
<1>3. \A r \in RowsOf(j) : r \in Rows /\ row[r].status \notin Unsettled /\ Seen(w, r) = row[r]
  BY <1>1, <1>2 DEF Fresh, Placed, Mine, Seen, OnRow, RowsOf
<1>4. n = Succeeded([r \in RowsOf(j) |-> row[r].status])
  <2>1. [r \in RowsOf(j) |-> Seen(w, r).status] = [r \in RowsOf(j) |-> row[r].status]
    BY <1>3
  <2> QED BY <2>1
<1>5. n \in 0..Cardinality(Rows) /\ n \in Nat
  <2>1. RowsOf(j) \in SUBSET Rows
    BY DEF RowsOf
  <2>2. [r \in RowsOf(j) |-> row[r].status] \in [RowsOf(j) -> RowStatus]
    BY <2>1, InvParts DEF RowRecord
  <2>3. Cardinality(Rows) \in Nat
    BY ConstantTypes, FS_CardinalityType
  <2> HIDE DEF n
  <2>4. n \in 0..Cardinality(Rows)
    BY <1>4, <2>1, <2>2, SucceededType
  <2> QED BY <2>3, <2>4
<1>6. done.status \in JobStatus \ {"pending", "processing"}
  <2>1. Cardinality(RowsOf(j)) \in Nat
    BY ConstantTypes, FS_Subset, FS_CardinalityType DEF RowsOf
  <2>2. (j \in DryRuns) \in BOOLEAN
    OBVIOUS
  <2> HIDE DEF n
  <2> QED BY <1>5, <2>1, <2>2, VerdictType
<1>7. /\ done.succeeded = n /\ done.leased = FALSE
      /\ done.status = Verdict(j \in DryRuns, Cardinality(RowsOf(j)), n)
      /\ done = [status |-> done.status, succeeded |-> done.succeeded, leased |-> done.leased]
  OBVIOUS
<1> HIDE DEF n, done
<1>8. done \in [status : JobStatus, succeeded : 0..Cardinality(Rows), leased : BOOLEAN]
  BY <1>5, <1>6, <1>7
<1>9. job \in [Jobs -> [status : JobStatus, succeeded : 0..Cardinality(Rows), leased : BOOLEAN]]
  BY DEF Inv, TypeOK
<1>10. /\ job' \in [Jobs -> [status : JobStatus, succeeded : 0..Cardinality(Rows), leased : BOOLEAN]]
       /\ job'[j] = done /\ \A k \in Jobs \ {j} : job'[k] = job[k]
  BY <1>1, <1>2, <1>8, <1>9
<1>11. /\ session' \in [Workers -> Session] /\ ~Active(w)'
       /\ \A v \in Workers \ {w} : session'[v] = session[v]
  BY <1>1, IdleTyped, InvParts DEF Active, Idle
<1>12. Apart'
  BY <1>11 DEF Inv, Apart, Active
<1>13. ASSUME NEW v \in Workers PROVE Work(v)'
  <2>1. CASE v = w
    BY <1>11, <2>1 DEF Work
  <2>2. CASE v # w
    <3>1. Active(v) => session[v].job \in Jobs \ {j}
      BY <1>1, <2>2 DEF Inv, Apart, Work, Owner
    <3> QED BY <1>1, <1>10, <1>11, <2>2, <3>1, OthersKept
  <2> QED BY <2>1, <2>2
<1>14. VerdictIsTrue'
  <2> SUFFICES ASSUME NEW k \in Jobs, job'[k].status \notin {"pending", "processing"}
               PROVE  /\ \A r \in RowsOf(k) : row[r].status \notin {"pending", "processing"}
                      /\ job'[k].succeeded = Succeeded([r \in RowsOf(k) |-> row[r].status])
                      /\ job'[k].status = Verdict(k \in DryRuns, Cardinality(RowsOf(k)), job'[k].succeeded)
    BY <1>1 DEF VerdictIsTrue
  <2>1. CASE k = j
    BY <1>3, <1>4, <1>7, <1>10, <2>1 DEF Unsettled
  <2>2. CASE k # j
    BY <1>10, <2>2 DEF Inv, VerdictIsTrue
  <2> QED BY <2>1, <2>2
<1>15. TypeOK'
  BY <1>1, <1>10, <1>11 DEF Inv, TypeOK
<1> QED BY <1>1, <1>12, <1>13, <1>14, <1>15, RowwiseStays DEF Inv

LEMMA CrashStep ==
  ASSUME Inv, NEW w \in Workers, Crash(w)
  PROVE  Inv'
<1>1. /\ session' = [session EXCEPT ![w] = Idle] /\ crashes' = crashes + 1 /\ crashes < MaxCrashes
      /\ UNCHANGED <<products, job, row, plans, overruns>>
  BY DEF Crash, Become
<1>2. /\ session' \in [Workers -> Session] /\ ~Active(w)'
      /\ \A v \in Workers \ {w} : session'[v] = session[v]
  BY <1>1, IdleTyped, InvParts DEF Active, Idle
<1>3. Apart'
  BY <1>2 DEF Inv, Apart, Active
<1>4. ASSUME NEW v \in Workers PROVE Work(v)'
  <2>1. CASE v = w
    BY <1>2, <2>1 DEF Work
  <2>2. CASE v # w
    BY <1>1, <1>2, <2>2, OthersKept
  <2> QED BY <2>1, <2>2
<1>5. VerdictIsTrue'
  BY <1>1 DEF Inv, VerdictIsTrue
<1>6. TypeOK'
  BY <1>1, <1>2, ConstantTypes DEF Inv, TypeOK
<1> QED BY <1>1, <1>3, <1>4, <1>5, <1>6, RowwiseStays DEF Inv

LEMMA LeaseEndsStep ==
  ASSUME OnTime', Inv, NEW j \in Jobs, LeaseEnds(j)
  PROVE  Inv'
<1>1. ~Working(j) /\ UNCHANGED overruns
  <2>1. overruns \in Nat /\ overruns' = 0
    BY ConstantTypes DEF OnTime, Inv, TypeOK
  <2> QED BY <2>1 DEF LeaseEnds
<1>2. /\ job[j].status = "processing" /\ job' = [job EXCEPT ![j].leased = FALSE]
      /\ UNCHANGED <<products, row, plans, session, crashes, overruns>>
  BY <1>1 DEF LeaseEnds
<1>3. /\ job' \in [Jobs -> [status : JobStatus, succeeded : 0..Cardinality(Rows), leased : BOOLEAN]]
      /\ \A k \in Jobs : /\ job'[k].status = job[k].status /\ job'[k].succeeded = job[k].succeeded
                         /\ k # j => job'[k] = job[k]
  BY <1>2 DEF Inv, TypeOK
<1>4. ASSUME NEW v \in Workers PROVE Work(v)'
  <2>1. Active(v) => session[v].job \in Jobs \ {j}
    BY <1>1 DEF Working, At, Active, Inv, Work, Owner
  <2> QED BY <1>2, <1>3, <2>1, OthersKept
<1>5. Apart'
  BY <1>2 DEF Inv, Apart, Active
<1>6. VerdictIsTrue'
  BY <1>2, <1>3 DEF Inv, VerdictIsTrue
<1>7. TypeOK'
  BY <1>2, <1>3 DEF Inv, TypeOK
<1> QED BY <1>2, <1>4, <1>5, <1>6, <1>7, RowwiseStays DEF Inv

-----------------------------------------------------------------------------
LEMMA InvStep ==
  ASSUME OnTime', Inv, [Next]_vars
  PROVE  Inv'
<1>1. ASSUME UNCHANGED vars
      PROVE  Inv'
  <2>1. \A w \in Workers : Work(w)'
    BY <1>1, OthersKept DEF vars
  <2>2. Apart' /\ TypeOK' /\ VerdictIsTrue'
    BY <1>1 DEF vars, Inv, Apart, Active, TypeOK, VerdictIsTrue
  <2> QED BY <1>1, <2>1, <2>2, RowwiseStays DEF vars, Inv
<1>2. ASSUME NEW w \in Workers, Step(w)
      PROVE  Inv'
  BY <1>2, ClaimStep, LoadStep, StartStep, ValidateStep, SaveProductStep, MakePlanStep,
     RecordPlanStep, FindBatchesStep, ExecuteStep, SettleStep, FinishStep DEF Step
<1> QED BY <1>1, <1>2, CrashStep, LeaseEndsStep DEF Next

-----------------------------------------------------------------------------
(* Types, whether or not leases end in time.                               *)

ImportTyped ==
  /\ TypeOK
  /\ \A w \in Workers : /\ Active(w) => session[w].job \in Jobs
                        /\ session[w].pc \in OnRow => session[w].row \in Rows

LEMMA ImportTypes ==
  ASSUME ImportTyped, NEW w \in Workers
  PROVE  /\ session \in [Workers -> Session] /\ session[w] \in Session
         /\ row \in [Rows -> RowRecord]
         /\ job \in [Jobs -> [status : JobStatus, succeeded : 0..Cardinality(Rows), leased : BOOLEAN]]
         /\ \A r \in Rows : Seen(w, r) \in RowRecord
         /\ \A r \in Rows, new \in RowRecord : Flushed(r, Seen(w, r), new) \in RowRecord
<1>1. session[w] \in Session /\ row \in [Rows -> RowRecord]
  BY DEF ImportTyped, TypeOK
<1>2. \A r \in Rows : Seen(w, r) \in RowRecord
  BY <1>1 DEF Seen, Session
<1>3. \A r \in Rows, new \in RowRecord : Flushed(r, Seen(w, r), new) \in RowRecord
  BY <1>1 DEF Flushed, RowRecord
<1> QED BY <1>1, <1>2, <1>3 DEF ImportTyped, TypeOK

\* A step of one session keeps the types when what it writes has them.
LEMMA SessionTyped ==
  ASSUME ImportTyped, NEW w \in Workers, NEW s \in Session,
         s.pc # "idle" => s.job \in Jobs, s.pc \in OnRow => s.row \in Rows,
         session' = [session EXCEPT ![w] = s], UNCHANGED <<crashes, overruns>>,
         products' \subseteq {Sku[r] : r \in Rows},
         job' \in [Jobs -> [status : JobStatus, succeeded : 0..Cardinality(Rows), leased : BOOLEAN]],
         row' \in [Rows -> RowRecord],
         plans' \in Seq([row : Rows, executed : BOOLEAN]), Len(plans') <= MaxPlans
  PROVE  ImportTyped'
<1>1. /\ session' \in [Workers -> Session] /\ session'[w] = s
      /\ \A v \in Workers \ {w} : session'[v] = session[v]
  BY DEF ImportTyped, TypeOK
<1>2. TypeOK'
  BY <1>1 DEF ImportTyped, TypeOK
<1> QED BY <1>1, <1>2 DEF ImportTyped, Active

LEMMA CommitTyped ==
  ASSUME ImportTyped, NEW w \in Workers, session[w].pc \in OnRow, NEW new \in RowRecord,
         NEW pc \in {"next", "find"}, Commit(w, session[w].row, new, pc),
         UNCHANGED <<products, job, plans, crashes, overruns>>
  PROVE  ImportTyped'
<1> DEFINE r == session[w].row
           s == [session[w] EXCEPT !.pc = pc, !.row = r, !.cache[r] = new]
<1>1. session[w] \in Session /\ r \in Rows /\ session[w].job \in Jobs
  BY ImportTypes DEF ImportTyped, Active, OnRow
<1>2. s \in Session /\ s.job \in Jobs /\ s.row \in Rows
  BY <1>1 DEF Session
<1>3. row' \in [Rows -> RowRecord]
  BY <1>1, ImportTypes DEF Commit
<1>4. session' = [session EXCEPT ![w] = s]
  BY DEF Commit, Become
<1> HIDE DEF s
<1> QED BY <1>2, <1>3, <1>4, SessionTyped DEF ImportTyped, TypeOK

LEMMA FailTyped ==
  ASSUME ImportTyped, NEW w \in Workers, session[w].pc \in OnRow, FailRow(w)
  PROVE  ImportTyped'
<1> DEFINE r == session[w].row
           new == [row[r] EXCEPT !.status = IF session[w].job \in DryRuns THEN "invalid" ELSE "failed"]
           s == [session[w] EXCEPT !.pc = "next",
                   !.cache = [q \in Rows |-> IF q = r THEN new ELSE NotLoaded]]
<1>1. session[w] \in Session /\ r \in Rows /\ session[w].job \in Jobs /\ row[r] \in RowRecord
  BY ImportTypes DEF ImportTyped, Active, OnRow
<1>2. new \in RowRecord
  BY <1>1 DEF RowRecord, RowStatus
<1>3. s \in Session /\ s.job \in Jobs /\ s.pc = "next"
  BY <1>1, <1>2 DEF Session
<1>4. row' \in [Rows -> RowRecord]
  BY <1>1, <1>2, ImportTypes DEF FailRow
<1>5. session' = [session EXCEPT ![w] = s] /\ UNCHANGED <<products, job, plans, crashes, overruns>>
  BY DEF FailRow, Become
<1> HIDE DEF s, new
<1> QED BY <1>3, <1>4, <1>5, SessionTyped DEF ImportTyped, TypeOK, OnRow

\* A session that only moves on.
LEMMA OnwardTyped ==
  ASSUME ImportTyped, NEW w \in Workers, session[w].pc \in OnRow,
         NEW pc \in OnRow, NEW known \in BOOLEAN, NEW made \in Nat \union {NoPlan},
         session' = [session EXCEPT ![w] = [session[w] EXCEPT !.pc = pc, !.known = known, !.made = made]],
         products' \subseteq {Sku[r] : r \in Rows},
         plans' \in Seq([row : Rows, executed : BOOLEAN]), Len(plans') <= MaxPlans,
         UNCHANGED <<job, row, crashes, overruns>>
  PROVE  ImportTyped'
<1> DEFINE s == [session[w] EXCEPT !.pc = pc, !.known = known, !.made = made]
<1>1. session[w] \in Session /\ session[w].row \in Rows /\ session[w].job \in Jobs
  BY ImportTypes DEF ImportTyped, Active, OnRow
<1>2. s \in Session /\ s.job \in Jobs /\ s.row \in Rows
  BY <1>1 DEF Session, OnRow
<1> HIDE DEF s
<1> QED BY <1>2, SessionTyped DEF ImportTyped, TypeOK, s

\* Every action writes what the type allows, whatever its session has loaded.
LEMMA ImportTypesStep ==
  ASSUME ImportTyped, [Next]_vars
  PROVE  ImportTyped'
<1>0. /\ products \subseteq {Sku[r] : r \in Rows}
      /\ plans \in Seq([row : Rows, executed : BOOLEAN]) /\ Len(plans) <= MaxPlans
      /\ row \in [Rows -> RowRecord]
      /\ job \in [Jobs -> [status : JobStatus, succeeded : 0..Cardinality(Rows), leased : BOOLEAN]]
      /\ session \in [Workers -> Session]
      /\ crashes \in 0..MaxCrashes /\ overruns \in 0..MaxOverruns
      /\ \A v \in Workers : /\ session[v].pc # "idle" => session[v].job \in Jobs
                            /\ session[v].pc \in OnRow => session[v].row \in Rows
  BY DEF ImportTyped, TypeOK, Active
<1>1. ASSUME NEW w \in Workers, Claim(w) PROVE ImportTyped'
  <2> DEFINE j == Least(Claimable)
             s == [Idle EXCEPT !.pc = "load", !.job = j]
  <2>1. j \in Jobs
    <3>1. Claimable \in SUBSET Nat /\ Claimable # {} /\ Claimable \subseteq Jobs
      BY <1>1, ConstantTypes DEF Claim, Claimable
    <3> HIDE DEF Claimable
    <3> QED BY <3>1, LeastIsMember
  <2>2. /\ job' = [job EXCEPT ![j].status = "processing", ![j].leased = TRUE]
        /\ session' = [session EXCEPT ![w] = s]
        /\ UNCHANGED <<products, row, plans, crashes, overruns>>
    BY <1>1 DEF Claim, Become
  <2> HIDE DEF j
  <2>3. s \in Session /\ s.job \in Jobs /\ s.pc = "load"
    BY <2>1, IdleTyped DEF Session, Idle
  <2>4. job' \in [Jobs -> [status : JobStatus, succeeded : 0..Cardinality(Rows), leased : BOOLEAN]]
    BY <1>0, <2>1, <2>2 DEF JobStatus
  <2> HIDE DEF s
  <2> QED BY <1>0, <2>2, <2>3, <2>4, SessionTyped DEF OnRow
<1>2. ASSUME NEW w \in Workers, Load(w) PROVE ImportTyped'
  <2> DEFINE todo == Unfinished(session[w].job)
             s == [session[w] EXCEPT !.pc = "next", !.todo = todo,
                     !.cache = [r \in Rows |-> IF r \in todo THEN row[r] ELSE NotLoaded]]
  <2>1. session[w] \in Session /\ session[w].job \in Jobs /\ todo \in SUBSET Rows
    BY <1>0, <1>2 DEF Load, At, Unfinished, RowsOf
  <2>2. session' = [session EXCEPT ![w] = s] /\ UNCHANGED <<products, job, row, plans, crashes, overruns>>
    BY <1>2 DEF Load, Become
  <2> HIDE DEF todo
  <2>3. s \in Session /\ s.job \in Jobs /\ s.pc = "next"
    BY <1>0, <2>1 DEF Session
  <2> HIDE DEF s
  <2> QED BY <1>0, <2>2, <2>3, SessionTyped DEF OnRow
<1>3. ASSUME NEW w \in Workers, Start(w) PROVE ImportTyped'
  <2> DEFINE r == Least(session[w].todo)
             new == [Seen(w, r) EXCEPT !.status = "processing"]
             s == [session[w] EXCEPT !.pc = "validate", !.row = r, !.todo = @ \ {r}, !.cache[r] = new]
  <2>1. session[w] \in Session /\ session[w].job \in Jobs /\ r \in Rows
    <3>1. /\ session[w] \in Session /\ session[w].job \in Jobs
          /\ session[w].todo \in SUBSET Rows /\ session[w].todo # {}
      BY <1>0, <1>3 DEF Start, At, Session
    <3> QED BY <3>1, ConstantTypes, LeastIsMember
  <2>2. /\ row' = [row EXCEPT ![r] = Flushed(r, Seen(w, r), new)]
        /\ session' = [session EXCEPT ![w] = s]
        /\ job' = [job EXCEPT ![session[w].job].leased = TRUE]
        /\ UNCHANGED <<products, plans, crashes, overruns>>
    BY <1>3 DEF Start, Become
  <2> HIDE DEF r
  <2>3. new \in RowRecord
    BY <2>1, ImportTypes DEF RowRecord, RowStatus
  <2> HIDE DEF new
  <2>4. s \in Session /\ s.job \in Jobs /\ s.row \in Rows
    BY <2>1, <2>3 DEF Session
  <2>5. row' \in [Rows -> RowRecord]
    BY <2>1, <2>2, <2>3, ImportTypes
  <2>6. job' \in [Jobs -> [status : JobStatus, succeeded : 0..Cardinality(Rows), leased : BOOLEAN]]
    BY <1>0, <2>1, <2>2
  <2> HIDE DEF s
  <2> QED BY <1>0, <2>2, <2>4, <2>5, <2>6, SessionTyped
<1>4. ASSUME NEW w \in Workers, Validate(w) \/ RecordPlan(w) \/ Settle(w) PROVE ImportTyped'
  <2> DEFINE r == session[w].row
  <2>1. session[w].pc \in OnRow /\ r \in Rows /\ session[w] \in Session
    BY <1>0, <1>4 DEF Validate, RecordPlan, Settle, At, OnRow
  <2>2. /\ [Seen(w, r) EXCEPT !.status = "valid"] \in RowRecord
        /\ [Seen(w, r) EXCEPT !.status = "queued"] \in RowRecord
        /\ [Seen(w, r) EXCEPT !.plan = session[w].made] \in RowRecord
    <3>1. Seen(w, r) \in RowRecord
      BY <2>1, ImportTypes
    <3>2. session[w].made \in Nat \union {NoPlan}
      BY <2>1 DEF Session
    <3> QED BY <3>1, <3>2 DEF RowRecord, RowStatus
  <2>3. CASE /\ session' = [session EXCEPT ![w] = [session[w] EXCEPT !.pc = "product", !.known = Known(r)]]
             /\ UNCHANGED <<products, job, row, plans, crashes, overruns>>
    <3>1. [session[w] EXCEPT !.pc = "product", !.known = Known(r)]
          = [session[w] EXCEPT !.pc = "product", !.known = Known(r), !.made = session[w].made]
      BY <2>1 DEF Session
    <3>2. Known(r) \in BOOLEAN /\ session[w].made \in Nat \union {NoPlan}
      BY <2>1 DEF Known, Session
    <3> QED BY <1>0, <2>1, <2>3, <3>1, <3>2, OnwardTyped DEF OnRow
  <2>4. CASE FailRow(w)
    BY <2>1, <2>4, FailTyped
  <2>5. CASE (\E new \in RowRecord, pc \in {"next", "find"} : Commit(w, r, new, pc))
             /\ UNCHANGED <<products, job, plans, crashes, overruns>>
    BY <2>1, <2>5, CommitTyped
  <2> QED BY <1>4, <2>2, <2>3, <2>4, <2>5 DEF Validate, RecordPlan, Settle, Become
<1>5. ASSUME NEW w \in Workers, SaveProduct(w) \/ MakePlan(w) \/ FindBatches(w) \/ Execute(w)
      PROVE  ImportTyped'
  <2> DEFINE r == session[w].row
             p == Len(plans) + 1
             x == Seen(w, r).plan
             Plans == Seq([row : Rows, executed : BOOLEAN])
  <2>1. /\ session[w].pc \in OnRow /\ r \in Rows /\ session[w] \in Session
        /\ session[w].job \in Jobs
    BY <1>0, <1>5 DEF SaveProduct, MakePlan, FindBatches, Execute, At, OnRow
  <2>2. CASE FailRow(w)
    BY <2>1, <2>2, FailTyped
  <2>3. /\ \A pc \in OnRow : [session[w] EXCEPT !.pc = pc] \in Session
        /\ \A made \in Nat : [session[w] EXCEPT !.pc = "record", !.made = made] \in Session
    BY <2>1 DEF Session, OnRow
  <2>4. /\ \A pc : [session[w] EXCEPT !.pc = pc].job \in Jobs /\ [session[w] EXCEPT !.pc = pc].row \in Rows
        /\ \A made : /\ [session[w] EXCEPT !.pc = "record", !.made = made].job \in Jobs
                     /\ [session[w] EXCEPT !.pc = "record", !.made = made].row \in Rows
    BY <2>1 DEF Session
  <2>5. CASE SaveProduct(w) /\ ~FailRow(w)
    <3> DEFINE s == [session[w] EXCEPT !.pc = "plan"]
    <3>1. /\ session' = [session EXCEPT ![w] = s] /\ products' = products \union {Sku[r]}
          /\ UNCHANGED <<job, row, plans, crashes, overruns>>
      BY <2>5 DEF SaveProduct, Become
    <3>2. s \in Session /\ s.job \in Jobs /\ s.row \in Rows
      BY <2>3, <2>4 DEF OnRow
    <3>3. products' \subseteq {Sku[q] : q \in Rows}
      BY <1>0, <2>1, <3>1
    <3> HIDE DEF s
    <3> QED BY <1>0, <3>1, <3>2, <3>3, SessionTyped
  <2>6. CASE MakePlan(w) /\ ~FailRow(w) /\ NeedsPlan(w)
    <3> DEFINE s == [session[w] EXCEPT !.pc = "record", !.made = p]
    <3>1. /\ session' = [session EXCEPT ![w] = s] /\ p <= MaxPlans
          /\ plans' = Append(plans, [row |-> r, executed |-> FALSE])
          /\ UNCHANGED <<products, job, row, crashes, overruns>>
      BY <2>6 DEF MakePlan, Become
    <3>2. s \in Session /\ s.job \in Jobs /\ s.row \in Rows
      <4>1. p \in Nat
        BY <1>0
      <4> HIDE DEF p
      <4> QED BY <2>3, <2>4, <4>1
    <3>3. plans' \in Plans /\ Len(plans') = p
      BY <1>0, <2>1, <3>1
    <3> HIDE DEF s
    <3> QED BY <1>0, <3>1, <3>2, <3>3, SessionTyped
  <2>7. CASE ((MakePlan(w) /\ ~NeedsPlan(w)) \/ FindBatches(w)) /\ ~FailRow(w)
    <3>1. PICK pc \in OnRow : session' = [session EXCEPT ![w] = [session[w] EXCEPT !.pc = pc]]
      <4>1. CASE MakePlan(w) /\ ~NeedsPlan(w)
        BY <2>7, <4>1 DEF MakePlan, Become, OnRow
      <4>2. CASE FindBatches(w)
        <5> DEFINE pc == IF Executed(x) THEN "settle" ELSE "execute"
        <5>1. pc \in OnRow
          BY DEF OnRow
        <5>2. session' = [session EXCEPT ![w] = [session[w] EXCEPT !.pc = pc]]
          BY <4>2 DEF FindBatches, Become
        <5> QED BY <5>1, <5>2
      <4> QED BY <2>7, <4>1, <4>2
    <3>2. UNCHANGED <<products, job, row, plans, crashes, overruns>>
      BY <2>7 DEF MakePlan, FindBatches
    <3> DEFINE s == [session[w] EXCEPT !.pc = pc]
    <3>3. s \in Session /\ s.job \in Jobs /\ s.row \in Rows /\ session' = [session EXCEPT ![w] = s]
      BY <2>3, <2>4, <3>1
    <3> HIDE DEF s
    <3> QED BY <1>0, <3>2, <3>3, SessionTyped
  <2>8. CASE Execute(w) /\ ~FailRow(w)
    <3> DEFINE s == [session[w] EXCEPT !.pc = "settle"]
    <3>1. /\ session' = [session EXCEPT ![w] = s]
          /\ plans' = [plans EXCEPT ![x].executed = TRUE]
          /\ UNCHANGED <<products, job, row, crashes, overruns>>
      BY <2>8 DEF Execute, Become
    <3>2. s \in Session /\ s.job \in Jobs /\ s.row \in Rows
      BY <2>3, <2>4 DEF OnRow
    <3>3. plans' \in Plans /\ Len(plans') = Len(plans)
      <4> DEFINE Plan == [row : Rows, executed : BOOLEAN]
      <4>1. \A n \in DOMAIN plans : plans[n] \in Plan
        <5> HIDE DEF Plan
        <5>1. plans \in Seq(Plan)
          BY <1>0 DEF Plan
        <5> QED BY <5>1
      <4>2. DOMAIN plans = 1..Len(plans) /\ Len(plans) \in Nat
        BY <1>0
      <4>3. DOMAIN plans' = DOMAIN plans
        BY <3>1
      <4>4. ASSUME NEW n \in 1..Len(plans) PROVE plans'[n] \in Plan
        BY <3>1, <4>1, <4>2
      <4>5. plans' \in [1..Len(plans) -> Plan]
        <5>1. plans' = [n \in DOMAIN plans |-> plans'[n]]
          BY <3>1
        <5> HIDE DEF Plan
        <5> QED BY <4>2, <4>4, <5>1
      <4> HIDE DEF Plan
      <4>6. plans' \in Seq(Plan) /\ Len(plans') = Len(plans)
        BY <4>2, <4>5, SeqDef, LenProperties
      <4> QED BY <4>6 DEF Plan
    <3> HIDE DEF s
    <3> QED BY <1>0, <3>1, <3>2, <3>3, SessionTyped
  <2> QED BY <1>5, <2>2, <2>5, <2>6, <2>7, <2>8
<1>6. ASSUME NEW w \in Workers, Finish(w) PROVE ImportTyped'
  <2> DEFINE j == session[w].job
             n == Succeeded([r \in RowsOf(j) |-> Seen(w, r).status])
             v == Verdict(j \in DryRuns, Cardinality(RowsOf(j)), n)
             done == [status |-> v, succeeded |-> n, leased |-> FALSE]
  <2>1. RowsOf(j) \in SUBSET Rows
    BY DEF RowsOf
  <2>2. [r \in RowsOf(j) |-> Seen(w, r).status] \in [RowsOf(j) -> RowStatus]
    BY <2>1, ImportTypes DEF RowRecord
  <2>3. n \in 0..Cardinality(Rows) /\ n \in Nat /\ Cardinality(RowsOf(j)) \in Nat
    <3>1. Cardinality(Rows) \in Nat /\ Cardinality(RowsOf(j)) \in Nat
      BY <2>1, ConstantTypes, FS_Subset, FS_CardinalityType
    <3>2. n \in 0..Cardinality(Rows)
      BY <2>1, <2>2, SucceededType
    <3> QED BY <3>1, <3>2
  <2>4. /\ job' = [job EXCEPT ![j] = done] /\ session' = [session EXCEPT ![w] = Idle]
        /\ UNCHANGED <<products, row, plans, crashes, overruns>>
    BY <1>6 DEF Finish, Become
  <2> HIDE DEF n
  <2>5. v \in JobStatus
    <3>1. (j \in DryRuns) \in BOOLEAN
      OBVIOUS
    <3> QED BY <2>3, <3>1, VerdictType
  <2> HIDE DEF v
  <2>6. job' \in [Jobs -> [status : JobStatus, succeeded : 0..Cardinality(Rows), leased : BOOLEAN]]
    BY <1>0, <2>3, <2>4, <2>5
  <2>7. Idle.pc = "idle"
    BY DEF Idle
  <2> QED BY <1>0, <2>4, <2>6, <2>7, IdleTyped, SessionTyped DEF OnRow
<1>7. ASSUME NEW w \in Workers, Crash(w) PROVE ImportTyped'
  <2>1. /\ session' = [session EXCEPT ![w] = Idle] /\ crashes' = crashes + 1 /\ crashes < MaxCrashes
        /\ UNCHANGED <<products, job, row, plans, overruns>>
    BY <1>7 DEF Crash, Become
  <2>2. crashes' \in 0..MaxCrashes
    BY <1>0, <2>1, ConstantTypes
  <2>3. /\ session' \in [Workers -> Session]
        /\ \A v \in Workers : session'[v] = session[v] \/ session'[v].pc = "idle"
    BY <1>0, <2>1, IdleTyped DEF Idle
  <2> QED BY <1>0, <2>1, <2>2, <2>3 DEF ImportTyped, TypeOK, Active, OnRow
<1>8. ASSUME NEW j \in Jobs, LeaseEnds(j) PROVE ImportTyped'
  <2>1. overruns' \in 0..MaxOverruns
    BY <1>0, <1>8, ConstantTypes DEF LeaseEnds
  <2>2. job' \in [Jobs -> [status : JobStatus, succeeded : 0..Cardinality(Rows), leased : BOOLEAN]]
    BY <1>0, <1>8 DEF LeaseEnds
  <2> QED BY <1>0, <1>8, <2>1, <2>2 DEF LeaseEnds, ImportTyped, TypeOK, Active
<1>9. CASE UNCHANGED vars
  BY <1>9 DEF vars, ImportTyped, TypeOK, Active
<1> QED BY <1>1, <1>2, <1>3, <1>4, <1>5, <1>6, <1>7, <1>8, <1>9 DEF Next, Step

LEMMA ImportTypedAlways == Spec => []ImportTyped
<1>1. Init => ImportTyped
  <2>1. Init => \A w \in Workers : session[w].pc = "idle"
    BY DEF Init, Idle
  <2> QED BY <2>1, InitInv DEF Inv, ImportTyped, Active, OnRow
<1>2. ImportTyped /\ [Next]_vars => ImportTyped'
  BY ImportTypesStep
<1> QED BY <1>1, <1>2, PTL DEF Spec

\* Each variable keeps its type, whether or not leases end in time.
THEOREM TypeCorrect == Spec => []TypeOK
<1>1. ImportTyped => TypeOK
  BY DEF ImportTyped
<1> QED BY <1>1, ImportTypedAlways, PTL

-----------------------------------------------------------------------------
(* Until a lease ends under a worker that still runs.                      *)

\* Overruns are counted and never uncounted.
LEMMA LateForGood ==
  ASSUME ImportTyped, [Next]_vars, OnTime'
  PROVE  OnTime
<1>1. overruns \in Nat
  BY ConstantTypes DEF ImportTyped, TypeOK
<1>2. overruns' \in {overruns, overruns + 1}
  BY DEF Next, Step, vars, Claim, Load, Start, Validate, SaveProduct, MakePlan, RecordPlan,
         FindBatches, Execute, Settle, Finish, FailRow, Crash, LeaseEnds
<1> QED BY <1>1, <1>2 DEF OnTime

LEMMA ImportInvariant == Spec => [](OnTime => Inv)
<1>1. ImportTyped /\ (OnTime => Inv) /\ [Next]_vars => (OnTime' => Inv')
  BY InvStep, LateForGood
<1> QED BY <1>1, InitInv, ImportTypedAlways, PTL DEF Spec

\* Until a lease ends under a worker that runs, a row has one executed plan at most,
\* wherever workers die and others resume it (_process_queued_row): an executed plan
\* is the plan its row names.
THEOREM PlansExecutedOnce == Spec => [](OnTime => OneExecutedPlan)
<1>1. Inv => OneExecutedPlan
  BY DEF Inv, Rowwise, Named, OneExecutedPlan
<1> QED BY <1>1, ImportInvariant, PTL

\* Until then a queued row names the plan that was executed for it
\* (_process_queued_row).
THEOREM QueuedCorrect == Spec => [](OnTime => QueuedRowsHaveBatches)
<1>1. Inv => QueuedRowsHaveBatches
  BY DEF Inv, Rowwise
<1> QED BY <1>1, ImportInvariant, PTL

\* Until then the counter and the status of a finished job are those of its rows,
\* whoever processed them (process_next_bulk_job).
THEOREM VerdictCorrect == Spec => [](OnTime => VerdictIsTrue)
<1>1. Inv => VerdictIsTrue
  BY DEF Inv
<1> QED BY <1>1, ImportInvariant, PTL

\* Until then a sound row fails only where another job introduces the same product
\* (_process_queued_row).
THEOREM FailuresCorrect == Spec => [](OnTime => RowsFailForCause)
<1>1. Inv => RowsFailForCause
  BY DEF Inv, Rowwise
<1> QED BY <1>1, ImportInvariant, PTL

\* A step writes one row, and this row has no result yet.
LEMMA RowWritten ==
  ASSUME Inv, NEW w \in Workers, Step(w)
  PROVE  \/ row' = row
         \/ \E x \in Rows : row[x].status \in Unsettled /\ \A q \in Rows \ {x} : row'[q] = row[q]
<1> DEFINE r == session[w].row
<1>1. row \in [Rows -> RowRecord]
  BY InvParts
<1>2. ASSUME Start(w)
      PROVE  \E x \in Rows : row[x].status \in Unsettled /\ \A q \in Rows \ {x} : row'[q] = row[q]
  <2> DEFINE x == Least(session[w].todo)
  <2>1. session[w].todo \in SUBSET Nat /\ session[w].todo # {} /\ Placed(w)
    BY <1>2, InvParts, ConstantTypes DEF Start, At, Session, Inv, Work, Active
  <2>2. x \in session[w].todo
    BY <2>1, LeastIsMember
  <2>3. x \in Rows /\ row[x].status \in Unsettled
    BY <2>1, <2>2 DEF Placed, Mine, RowsOf
  <2>4. \A q \in Rows \ {x} : row'[q] = row[q]
    BY <1>1, <1>2 DEF Start
  <2> QED BY <2>3, <2>4
<1>3. ASSUME session[w].pc \in OnRow, \A q \in Rows \ {r} : row'[q] = row[q]
      PROVE  \E x \in Rows : row[x].status \in Unsettled /\ \A q \in Rows \ {x} : row'[q] = row[q]
  BY <1>3, AtRow DEF Unsettled
<1>4. ASSUME FailRow(w) \/ \E new, pc : Commit(w, r, new, pc)
      PROVE  \A q \in Rows \ {r} : row'[q] = row[q]
  BY <1>1, <1>4 DEF FailRow, Commit
<1>5. CASE Claim(w) \/ Load(w) \/ Finish(w) \/ FindBatches(w)
  BY <1>5 DEF Claim, Load, Finish, FindBatches
<1>6. CASE Validate(w)
  BY <1>3, <1>4, <1>6 DEF Validate, At, OnRow
<1>7. CASE SaveProduct(w) \/ MakePlan(w) \/ Execute(w)
  BY <1>3, <1>4, <1>7 DEF SaveProduct, MakePlan, Execute, At, OnRow
<1>8. CASE RecordPlan(w) \/ Settle(w)
  BY <1>3, <1>4, <1>8 DEF RecordPlan, Settle, At, OnRow
<1> QED BY <1>2, <1>5, <1>6, <1>7, <1>8 DEF Step

\* Until a lease ends under a worker that runs, the result of a row is final,
\* whoever takes its job over (process_next_bulk_job loads unfinished rows only).
THEOREM ResultsFinal == Spec => ResultsStay
<1> DEFINE Kept == \A r \in Rows : row[r].status \notin {"pending", "processing"} => row'[r] = row[r]
<1>1. ASSUME Inv, Next
      PROVE  Kept
  <2>1. ASSUME NEW w \in Workers, Step(w)
        PROVE  Kept
    BY <1>1, <2>1, RowWritten DEF Unsettled
  <2>2. ASSUME (\E w \in Workers : Crash(w)) \/ (\E j \in Jobs : LeaseEnds(j))
        PROVE  Kept
    BY <2>2 DEF Crash, LeaseEnds
  <2> QED BY <1>1, <2>1, <2>2 DEF Next
<1>2. ImportTyped /\ (OnTime => Inv) /\ [Next]_vars =>
        [OnTime' => \A r \in Rows : row[r].status \notin {"pending", "processing"}
                                     => row'[r] = row[r]]_vars
  BY <1>1, LateForGood
<1> QED BY <1>2, ImportInvariant, ImportTypedAlways, PTL DEF Spec, ResultsStay

-----------------------------------------------------------------------------
(* Production plans.                                                       *)

Change ==
  {<<"view", v>> : v \in Views} \union {<<"fits", f>> : f \in BOOLEAN}
    \union {<<"copy", c>> : c \in BOOLEAN} \union {<<"chosen", {v}>> : v \in Views}

ItemRow == Item \union {None, Deleted}

PlanBatch ==
  [plan : BOOLEAN, item : Items \union {None}, source : Nat, execution : Nat, mode : Modes,
   view : Views, fits : BOOLEAN, copy : BOOLEAN, rules : Rules, cited : SUBSET Views,
   status : {"queued", "review_pending", "failed"}]

Present(r) == \A n \in DOMAIN r.loaded : r.loaded[n] \in Existing
Free(r) == \A n \in DOMAIN r.loaded : Unproduced(r.loaded[n])

Shaped(r) == DOMAIN r = {"op", "item", "row", "loaded", "cited"}

Loading(r) == r.op \in {"list", "execute"}

\* What an execution has loaded are different items with an id of their own; once
\* the plan is executed, it can commit nothing.
Loaded(r) ==
  /\ r.loaded \in Seq(Items)
  /\ r.row \in [Items -> ItemRow]
  /\ \A n \in DOMAIN r.loaded : items[r.loaded[n]] # None /\ r.row[r.loaded[n]] \in Item
  /\ \A m, n \in DOMAIN r.loaded : r.loaded[m] = r.loaded[n] => m = n
  /\ PlanBatches = {} \/ r.loaded = <<>> \/ ~Present(r) \/ ~Free(r)

\* The pictures an execution has tested may be made.
Tested(r) ==
  /\ r.cited \in SUBSET Views
  /\ \A n \in DOMAIN r.loaded : LET i == r.loaded[n] IN
       Truthful(plan, r.row[i].view, IF r.row[i].chosen = {} THEN r.cited ELSE r.row[i].chosen)

Reading(r) ==
  /\ Shaped(r)
  /\ r.op # "none" => plan # None
  /\ r.op = "add" => r.row \in Item
  /\ r.op = "update" => r.item \in Items /\ r.row \in Change
  /\ r.op = "delete" => r.item \in Items
  /\ Loading(r) => Loaded(r)
  /\ r.op = "execute" => Tested(r)

Within(r, s) == Range(r.loaded) \subseteq Range(s.loaded)

\* Of two executions whose items are all still there, one has the items of the
\* other: an item is deleted for good, and each loaded all there were.
Nested ==
  \A p, q \in Requests :
    /\ Loading(request[p]) /\ Loading(request[q])
    /\ Present(request[p]) /\ Present(request[q])
    => Within(request[p], request[q]) \/ Within(request[q], request[p])

PlanTyped ==
  /\ references \in SUBSET Views /\ plan \in Modes \union {None}
  /\ items \in [Items -> ItemRow]
  /\ \A i, k \in Existing : items[i].position = items[k].position => i = k
  /\ edits \in 0..MaxEdits
  /\ batches \in Seq(PlanBatch) /\ Len(batches) <= MaxBatches
  /\ request = [q \in Requests |-> request[q]]
  /\ plan = None => \A i \in Items : items[i] = None

PlanInv ==
  /\ PlanTyped
  /\ OneExecution
  /\ StrictViewsAreCited
  /\ \A q \in Requests : Reading(request[q])
  /\ Nested

-----------------------------------------------------------------------------
LEMMA PlanConstants ==
  /\ PlatformSlots \in Seq([key : STRING, view : Views, rules : {"size", "text"}])
  /\ Items \subseteq Nat /\ IsFiniteSet(Items) /\ DOMAIN PlatformSlots \subseteq Items
  /\ MaxEdits \in Nat /\ MaxSingles \in Nat /\ MaxBatches \in Nat
  /\ None # Deleted /\ None \notin Items /\ None \notin Modes /\ None \notin Item /\ Deleted \notin Item
BY PlanAssumption DEF PlanAssumption

\* The least and the greatest number of a set are in it.
LEMMA MinIsMember ==
  ASSUME NEW S \in SUBSET Nat, S # {}
  PROVE  Min(S) \in S /\ \A x \in S : Min(S) <= x
<1>1. PICK r \in S : \A q \in S : <<q, r>> \notin OpToRel(<, Nat)
  BY WFMin, NatLessThanWellFounded, Zenon
<1>2. \A q \in S : ~(q < r)
  BY <1>1, Zenon DEF OpToRel
<1>3. \A q \in S : r <= q
  BY <1>2
<1> QED BY <1>3 DEF Min

LEMMA PlanInitInv == PlanInit => PlanInv
<1> SUFFICES ASSUME PlanInit PROVE PlanInv
  OBVIOUS
<1>1. PlanTyped
  BY PlanConstants DEF PlanInit, PlanTyped, ItemRow, Existing
<1>2. OneExecution /\ StrictViewsAreCited
  BY DEF PlanInit, OneExecution, StrictViewsAreCited, PlanBatches
<1>3. (\A q \in Requests : Reading(request[q])) /\ Nested
  BY DEF PlanInit, Reading, Shaped, Nested, Loading, Open
<1> QED BY <1>1, <1>2, <1>3 DEF PlanInv

\* A request reads, or is answered: nothing else changes.
LEMMA AskStep ==
  ASSUME PlanInv, NEW q \in Requests, NEW r,
         request' = [request EXCEPT ![q] = r],
         UNCHANGED <<references, plan, items, batches>>, edits' \in 0..MaxEdits,
         Reading(r),
         Loading(r) => \/ Range(r.loaded) = Existing
                       \/ Loading(request[q]) /\ r.loaded = request[q].loaded
  PROVE  PlanInv'
<1>1. PlanTyped'
  BY DEF PlanInv, PlanTyped, Existing
<1>2. OneExecution' /\ StrictViewsAreCited'
  BY DEF PlanInv, OneExecution, StrictViewsAreCited, PlanBatches, Existing
<1>3. ASSUME NEW s PROVE Reading(s)' <=> Reading(s)
  BY Zenon DEF Reading, Loaded, Tested, Present, Free, Existing, Unproduced, PlanBatches
<1>4. \A p \in Requests : request'[p] = IF p = q THEN r ELSE request[p]
  BY DEF PlanInv, PlanTyped
<1>5. \A p \in Requests : Reading(request[p])'
  BY <1>3, <1>4 DEF PlanInv
<1>6. \A s : Present(s)' <=> Present(s)
  BY Zenon DEF Present, Existing
<1>7. \A s : Present(s) => Range(s.loaded) \subseteq Existing
  BY DEF Present, Range
<1>8. Nested'
  <2> SUFFICES ASSUME NEW p \in Requests, NEW s \in Requests,
                      Loading(request'[p]), Loading(request'[s]),
                      Present(request[p])', Present(request[s])'
               PROVE  Within(request'[p], request'[s]) \/ Within(request'[s], request'[p])
    BY DEF Nested, Within, Loading
  <2>1. \A k \in {p, s} : \/ Range(request'[k].loaded) = Existing
                          \/ Loading(request[k]) /\ request'[k].loaded = request[k].loaded
    BY <1>4
  <2>2. Present(request'[p]) /\ Present(request'[s])
    BY <1>6
  <2>3. CASE Range(request'[p].loaded) = Existing \/ Range(request'[s].loaded) = Existing
    BY <1>7, <2>2, <2>3 DEF Within
  <2>4. CASE /\ Loading(request[p]) /\ request'[p].loaded = request[p].loaded
             /\ Loading(request[s]) /\ request'[s].loaded = request[s].loaded
    BY <2>2, <2>4 DEF PlanInv, Nested, Within, Present
  <2> QED BY <2>1, <2>3, <2>4
<1> QED BY <1>1, <1>2, <1>5, <1>8 DEF PlanInv

\* The plan is edited: ids last, and the items of batches stay.
LEMMA EditStep ==
  ASSUME PlanInv, NEW q \in Requests, plan # None,
         request' = [request EXCEPT ![q] = Open],
         UNCHANGED <<references, plan, batches, edits>>,
         items' \in [Items -> ItemRow],
         \A i, k \in Existing' : items'[i].position = items'[k].position => i = k,
         \A i \in Items : items[i] # None => items'[i] # None /\ (i \in Existing' => i \in Existing),
         \A n \in PlanBatches : batches[n].item \in Existing'
  PROVE  PlanInv'
<1>1. PlanTyped'
  BY DEF PlanInv, PlanTyped
<1>2. OneExecution' /\ StrictViewsAreCited'
  BY DEF PlanInv, OneExecution, StrictViewsAreCited, PlanBatches
<1>3. \A p \in Requests : request'[p] = IF p = q THEN Open ELSE request[p]
  BY DEF PlanInv, PlanTyped
<1>4. ASSUME NEW s, s.loaded \in Seq(Items), \A n \in DOMAIN s.loaded : items[s.loaded[n]] # None,
             Present(s)'
      PROVE  Present(s)
  BY <1>4 DEF Present
<1>5. ASSUME NEW s, Loaded(s) PROVE Loaded(s)'
  <2>1. s.loaded \in Seq(Items) /\ \A n \in DOMAIN s.loaded : items[s.loaded[n]] # None
    BY <1>5 DEF Loaded
  <2>2. \A n \in DOMAIN s.loaded : items'[s.loaded[n]] # None
    BY <2>1
  <2>3. Free(s)' <=> Free(s)
    BY Zenon DEF Free, Unproduced
  <2>4. PlanBatches' = PlanBatches
    BY DEF PlanBatches
  <2> QED BY <1>4, <1>5, <2>1, <2>2, <2>3, <2>4, Zenon DEF Loaded
<1>6. \A p \in Requests : Reading(request[p])'
  <2> SUFFICES ASSUME NEW p \in Requests PROVE Reading(request[p])'
    OBVIOUS
  <2>1. CASE p = q
    BY <1>3, <2>1 DEF Reading, Shaped, Loading, Open
  <2>2. CASE p # q
    <3>1. request'[p] = request[p] /\ Reading(request[p])
      BY <1>3, <2>2 DEF PlanInv
    <3> QED BY <1>5, <3>1 DEF Reading, Loading, Tested
  <2> QED BY <2>1, <2>2
<1>7. Nested'
  <2> SUFFICES ASSUME NEW p \in Requests, NEW s \in Requests,
                      Loading(request'[p]), Loading(request'[s]),
                      Present(request[p])', Present(request[s])'
               PROVE  Within(request'[p], request'[s]) \/ Within(request'[s], request'[p])
    BY DEF Nested, Within, Loading
  <2>1. p # q /\ s # q
    BY <1>3 DEF Loading, Open
  <2>2. request'[p] = request[p] /\ request'[s] = request[s]
    BY <1>3, <2>1
  <2>3. Loaded(request[p]) /\ Loaded(request[s])
    BY <2>2 DEF PlanInv, Reading
  <2>4. Present(request[p]) /\ Present(request[s])
    BY <1>4, <2>2, <2>3 DEF Loaded
  <2> QED BY <2>2, <2>4 DEF PlanInv, Nested
<1> QED BY <1>1, <1>2, <1>6, <1>7 DEF PlanInv

\* A batch outside the plan appears, or a batch is completed.
LEMMA BatchStep ==
  ASSUME PlanInv, UNCHANGED <<references, plan, items, edits, request>>,
         batches' \in Seq(PlanBatch), Len(batches') <= MaxBatches,
         \A n \in DOMAIN batches : n \in DOMAIN batches' /\ batches'[n].item = batches[n].item,
         PlanBatches' = PlanBatches,
         \A n \in PlanBatches : batches'[n].execution = batches[n].execution,
         \A n \in DOMAIN batches' :
           Truthful(batches'[n].mode, batches'[n].view, batches'[n].cited)
  PROVE  PlanInv'
<1>1. PlanTyped'
  BY DEF PlanInv, PlanTyped, Existing
<1>2. OneExecution'
  <2>1. \A n \in PlanBatches : batches'[n].item = batches[n].item
    BY DEF PlanBatches
  <2>2. Existing' = Existing
    BY DEF Existing
  <2> QED BY <2>1, <2>2 DEF PlanInv, OneExecution
<1>3. StrictViewsAreCited'
  BY DEF StrictViewsAreCited
<1>4. \A s : Present(s)' <=> Present(s)
  BY Zenon DEF Present, Existing
<1>5. \A s : Free(s)' => Free(s)
  BY DEF Free, Unproduced
<1>6. ASSUME NEW s, Loaded(s) PROVE Loaded(s)'
  BY <1>4, <1>5, <1>6, Zenon DEF Loaded
<1>7. \A p \in Requests : Reading(request[p])'
  BY <1>6 DEF PlanInv, Reading, Loading, Tested
<1>8. Nested'
  BY <1>4 DEF PlanInv, Nested, Within, Loading
<1> QED BY <1>1, <1>2, <1>3, <1>7, <1>8 DEF PlanInv

-----------------------------------------------------------------------------
(* Compiling and editing.                                                  *)

LEMMA CompatibleSlots ==
  ASSUME NEW n \in Compatible
  PROVE  /\ n \in Items
         /\ PlatformSlots[n] \in [key : STRING, view : Views, rules : {"size", "text"}]
<1> DEFINE Slot == [key : STRING, view : Views, rules : {"size", "text"}]
<1>1. PlatformSlots \in Seq(Slot)
  BY PlanConstants
<1>2. n \in DOMAIN PlatformSlots /\ n \in Items
  BY PlanConstants DEF Compatible
<1> HIDE DEF Slot
<1>3. PlatformSlots[n] \in Slot
  BY <1>1, <1>2
<1> QED BY <1>2, <1>3 DEF Slot

\* An item stands behind the compatible slots before its own.
LEMMA CompiledItem ==
  ASSUME NEW n \in Compatible
  PROVE  /\ Compiled(PlatformSlots[n], n) \in Item
         /\ \A k \in Compatible : k < n =>
              Compiled(PlatformSlots[k], k).position < Compiled(PlatformSlots[n], n).position
<1> DEFINE Before(i) == {k \in Compatible : k < i}
<1>1. IsFiniteSet(Compatible) /\ Compatible \subseteq Nat
  <2>1. Compatible \subseteq Items
    BY CompatibleSlots
  <2> QED BY <2>1, PlanConstants, FS_Subset
<1>2. \A i \in Compatible : IsFiniteSet(Before(i)) /\ Cardinality(Before(i)) \in Nat
  BY <1>1, FS_Subset, FS_CardinalityType
<1>3. Compiled(PlatformSlots[n], n) \in Item
  BY <1>2, CompatibleSlots DEF Compiled, Item, CopyFor, Rules
<1>4. ASSUME NEW k \in Compatible, k < n
      PROVE  Cardinality(Before(k)) < Cardinality(Before(n))
  <2>1. k \notin Before(k) /\ Before(k) \union {k} \subseteq Before(n)
    <3>1. k \in Nat /\ n \in Nat /\ \A j \in Before(k) : j \in Nat /\ j < k
      BY <1>1, <1>4
    <3>2. k \notin Before(k)
      BY <3>1
    <3>3. ASSUME NEW j \in Before(k) PROVE j \in Before(n)
      <4>1. j \in Nat /\ j < k /\ k < n
        BY <1>4, <3>1
      <4> QED BY <3>1, <4>1
    <3>4. k \in Before(n)
      BY <1>4
    <3> QED BY <3>2, <3>3, <3>4
  <2>2. Cardinality(Before(k) \union {k}) = Cardinality(Before(k)) + 1
    BY <1>2, <2>1, FS_AddElement
  <2>3. Cardinality(Before(k) \union {k}) <= Cardinality(Before(n))
    BY <1>2, <2>1, FS_Subset
  <2>4. Cardinality(Before(k)) \in Nat /\ Cardinality(Before(n)) \in Nat
    BY <1>2
  <2> QED BY <2>2, <2>3, <2>4
<1> QED BY <1>3, <1>4 DEF Compiled

LEMMA CompileStep ==
  ASSUME PlanInv, NEW mode \in Modes, CompilePlan(mode)
  PROVE  PlanInv'
<1>1. Existing = {} /\ PlanBatches = {} /\ \A q \in Requests : request[q].op = "none"
  BY DEF PlanInv, PlanTyped, OneExecution, Existing, CompilePlan, Reading
<1>2. items' \in [Items -> ItemRow]
  BY CompiledItem DEF CompilePlan, ItemRow
<1>3. Existing' = Compatible
  BY CompiledItem, CompatibleSlots, PlanConstants DEF CompilePlan, Existing
<1>4. \A i, k \in Existing' : items'[i].position = items'[k].position => i = k
  <2>1. \A i \in Compatible : i \in Nat /\ items'[i] = Compiled(PlatformSlots[i], i)
    BY CompatibleSlots, PlanConstants DEF CompilePlan
  <2>2. \A i \in Compatible : items'[i].position \in Nat
    BY <2>1, CompiledItem DEF Item
  <2>3. ASSUME NEW i \in Compatible, NEW k \in Compatible, i < k
        PROVE  items'[i].position < items'[k].position
    BY <2>1, <2>3, CompiledItem
  <2>4. ASSUME NEW i \in Compatible, NEW k \in Compatible, i # k
        PROVE  items'[i].position # items'[k].position
    <3>1. i < k \/ k < i
      BY <2>1, <2>4
    <3> QED BY <2>2, <2>3, <3>1
  <2> QED BY <1>3, <2>4
<1>5. PlanTyped'
  BY <1>2, <1>4, PlanConstants DEF PlanInv, PlanTyped, CompilePlan, Modes
<1>6. OneExecution' /\ StrictViewsAreCited'
  BY <1>1 DEF PlanInv, OneExecution, StrictViewsAreCited, PlanBatches, CompilePlan
<1>7. (\A q \in Requests : Reading(request[q])') /\ Nested'
  BY <1>1, PlanConstants DEF PlanInv, Reading, Loading, Nested, CompilePlan
<1> QED BY <1>5, <1>6, <1>7 DEF PlanInv

\* A finite set of numbers has a bound, and hence a greatest element.
LEMMA FiniteIsBounded ==
  ASSUME NEW S \in SUBSET Nat, IsFiniteSet(S)
  PROVE  \E b \in Nat : \A x \in S : x <= b
<1> DEFINE Bounded(T) == \E b \in Nat : \A x \in T : x <= b
           Bad == {T \in FiniteSubsetsOf(S) : ~Bounded(T)}
<1> SUFFICES ASSUME Bad # {} PROVE FALSE
  BY FS_Subset DEF FiniteSubsetsOf
<1>1. PICK T \in Bad : \A U \in Bad : <<U, T>> \notin StrictSubsetOrdering(S)
  BY WFMin, FS_StrictSubsetOrderingWellFounded, Zenon
<1>2. PICK x : x \in T
  BY <1>1
<1>3. T \ {x} \in FiniteSubsetsOf(S) /\ <<T \ {x}, T>> \in StrictSubsetOrdering(S)
  BY <1>2, FS_RemoveElement DEF FiniteSubsetsOf, StrictSubsetOrdering
<1>4. PICK b \in Nat : \A y \in T \ {x} : y <= b
  BY <1>1, <1>3
<1>5. T \subseteq Nat /\ x \in Nat
  BY <1>2 DEF FiniteSubsetsOf
<1>6. \A y \in T : y <= b + x
  BY <1>4, <1>5
<1>7. b + x \in Nat
  BY <1>5
<1> QED BY <1>1, <1>6, <1>7

LEMMA MaxIsMember ==
  ASSUME NEW S \in SUBSET Nat, S # {}, IsFiniteSet(S)
  PROVE  Max(S) \in S /\ \A x \in S : x <= Max(S)
<1>1. PICK b \in Nat : \A x \in S : x <= b
  BY FiniteIsBounded
<1> DEFINE T == {b - x : x \in S}
<1>0. \A x \in S : b - x \in Nat
  BY <1>1
<1>2. T \in SUBSET Nat /\ T # {}
  BY <1>0
<1>3. Min(T) \in T /\ \A y \in T : Min(T) <= y
  BY <1>2, MinIsMember
<1>4. PICK r \in S : Min(T) = b - r
  BY <1>3
<1>5. ASSUME NEW x \in S PROVE x <= r
  <2>1. b - r <= b - x
    BY <1>3, <1>4
  <2> QED BY <2>1, S \subseteq Nat
<1> QED BY <1>5 DEF Max

-----------------------------------------------------------------------------
(* Edits.                                                                  *)

LEMMA NextPositionType == PlanTyped => NextPosition \in Nat
<1> SUFFICES ASSUME PlanTyped PROVE NextPosition \in Nat
  OBVIOUS
<1> DEFINE P == {items[i].position : i \in Existing}
           f == [i \in Existing |-> items[i].position]
<1>1. \A i \in Existing : items[i] \in Item
  BY DEF PlanTyped, Existing, ItemRow
<1>2. P \subseteq Nat
  BY <1>1 DEF Item
<1>3. IsFiniteSet(Existing)
  BY PlanConstants, FS_Subset DEF Existing
<1>4. f \in Surjection(Existing, P)
  BY DEF Surjection
<1>5. IsFiniteSet(P)
  BY <1>3, <1>4, FS_Surjection
<1>6. IsFiniteSet(P \union {0})
  BY <1>5, FS_AddElement
<1> HIDE DEF P
<1>7. P \union {0} \in SUBSET Nat /\ P \union {0} # {}
  BY <1>2
<1>8. Max(P \union {0}) \in Nat
  BY <1>6, <1>7, MaxIsMember
<1> QED BY <1>8 DEF P, NextPosition

LEMMA EditBegins ==
  ASSUME PlanInv, NEW q \in Requests, NEW r, Edit(q, r), Reading(r), ~Loading(r)
  PROVE  PlanInv'
<1>1. edits' \in 0..MaxEdits
  BY PlanConstants DEF PlanInv, PlanTyped, Edit
<1> QED BY <1>1, AskStep, Zenon DEF Edit, Ask

LEMMA AddReadStep ==
  ASSUME PlanInv, NEW q \in Requests, AddRead(q)
  PROVE  PlanInv'
<1>1. PICK v \in Views :
        Edit(q, [Open EXCEPT !.op = "add", !.row =
          [position |-> NextPosition, view |-> v, fits |-> TRUE, copy |-> FALSE,
           rules |-> "none", chosen |-> {}]])
  BY DEF AddRead
<1> DEFINE entry == [position |-> NextPosition, view |-> v, fits |-> TRUE, copy |-> FALSE,
                   rules |-> "none", chosen |-> {}]
           r == [Open EXCEPT !.op = "add", !.row = entry]
<1>2. entry \in Item
  BY NextPositionType DEF PlanInv, Item, Rules
<1> HIDE DEF entry
<1>3. Reading(r) /\ ~Loading(r)
  BY <1>1, <1>2 DEF Reading, Shaped, Loading, Open, Edit, Mutable
<1>4. Edit(q, r)
  BY <1>1 DEF entry
<1> HIDE DEF r
<1> QED BY <1>3, <1>4, EditBegins

LEMMA UpdateReadStep ==
  ASSUME PlanInv, NEW q \in Requests, NEW i \in Items, UpdateRead(q, i)
  PROVE  PlanInv'
<1>1. PICK change \in Changes : Edit(q, [Open EXCEPT !.op = "update", !.item = i, !.row = change])
  BY DEF UpdateRead
<1> DEFINE r == [Open EXCEPT !.op = "update", !.item = i, !.row = change]
<1>2. change \in Change
  BY DEF Changes, Change, PlanInv, PlanTyped
<1>3. Reading(r) /\ ~Loading(r)
  BY <1>1, <1>2 DEF Reading, Shaped, Loading, Open, Edit, Mutable
<1> HIDE DEF r
<1> QED BY <1>1, <1>3, EditBegins DEF r

LEMMA DeleteReadStep ==
  ASSUME PlanInv, NEW q \in Requests, NEW i \in Items, DeleteRead(q, i)
  PROVE  PlanInv'
<1> DEFINE r == [Open EXCEPT !.op = "delete", !.item = i]
<1>1. Edit(q, r)
  BY DEF DeleteRead
<1>2. Reading(r) /\ ~Loading(r)
  BY <1>1 DEF Reading, Shaped, Loading, Open, Edit, Mutable
<1> HIDE DEF r
<1> QED BY <1>1, <1>2, EditBegins

LEMMA AddCommitStep ==
  ASSUME PlanInv, NEW q \in Requests, AddCommit(q)
  PROVE  PlanInv'
<1> DEFINE k == Min(Unused)
           entry == request[q].row
<1>1. k \in Items /\ items[k] = None
  <2>1. Unused \in SUBSET Nat /\ Unused # {}
    BY PlanConstants DEF AddCommit, Unused
  <2> QED BY <2>1, MinIsMember DEF Unused
<1>2. entry \in Item
  BY DEF PlanInv, Reading, AddCommit
<1>3. items' = [items EXCEPT ![k] = entry] /\ items \in [Items -> ItemRow]
  BY DEF AddCommit, PlanInv, PlanTyped
<1> HIDE DEF k
<1>4. items' \in [Items -> ItemRow]
  BY <1>1, <1>2, <1>3 DEF ItemRow
<1>5. Existing' = Existing \union {k} /\ k \notin Existing
  BY <1>1, <1>2, <1>3, PlanConstants DEF Existing
<1>6. \A i \in Existing : items'[i] = items[i] /\ items[i].position # entry.position
  BY <1>3, <1>5 DEF Existing, AddCommit, PositionFree
<1>7. \A i, j \in Existing' : items'[i].position = items'[j].position => i = j
  BY <1>1, <1>3, <1>5, <1>6 DEF PlanInv, PlanTyped
<1>8. \A i \in Items : items[i] # None => items'[i] # None /\ (i \in Existing' => i \in Existing)
  BY <1>1, <1>3, <1>5
<1>9. \A n \in PlanBatches : batches[n].item \in Existing'
  BY <1>5 DEF PlanInv, OneExecution
<1>10. plan # None
  BY DEF PlanInv, Reading, AddCommit
<1> QED BY <1>4, <1>7, <1>8, <1>9, <1>10, EditStep, Zenon DEF AddCommit, Answer

LEMMA ChangedItem ==
  ASSUME NEW entry \in Item, NEW change \in Change
  PROVE  /\ [entry EXCEPT ![change[1]] = change[2]] \in Item
         /\ [entry EXCEPT ![change[1]] = change[2]].position = entry.position
<1>1. CASE \E v \in Views : change = <<"view", v>>
  BY <1>1 DEF Item
<1>2. CASE \E f \in BOOLEAN : change = <<"fits", f>>
  BY <1>2 DEF Item
<1>3. CASE \E c \in BOOLEAN : change = <<"copy", c>>
  BY <1>3 DEF Item
<1>4. CASE \E v \in Views : change = <<"chosen", {v}>>
  BY <1>4 DEF Item
<1> QED BY <1>1, <1>2, <1>3, <1>4 DEF Change

LEMMA UpdateCommitStep ==
  ASSUME PlanInv, NEW q \in Requests, UpdateCommit(q)
  PROVE  PlanInv'
<1> DEFINE k == request[q].item
           change == request[q].row
           entry == [items[k] EXCEPT ![change[1]] = change[2]]
<1>1. k \in Existing /\ k \in Items /\ change \in Change /\ plan # None
  BY DEF UpdateCommit, PlanInv, Reading
<1>2. items[k] \in Item /\ items \in [Items -> ItemRow]
  BY <1>1 DEF PlanInv, PlanTyped, Existing, ItemRow
<1>3. entry \in Item /\ entry.position = items[k].position
  BY <1>1, <1>2, ChangedItem
<1>4. items' = [items EXCEPT ![k] = entry]
  BY DEF UpdateCommit
<1> HIDE DEF k, change, entry
<1>5. items' \in [Items -> ItemRow]
  BY <1>1, <1>2, <1>3, <1>4 DEF ItemRow
<1>6. Existing' = Existing
  BY <1>1, <1>2, <1>3, <1>4, PlanConstants DEF Existing
<1>7. \A i \in Existing : items'[i].position = items[i].position
  BY <1>2, <1>3, <1>4 DEF Existing
<1>8. \A i, j \in Existing' : items'[i].position = items'[j].position => i = j
  BY <1>6, <1>7 DEF PlanInv, PlanTyped
<1>9. \A i \in Items : items[i] # None => items'[i] # None /\ (i \in Existing' => i \in Existing)
  BY <1>2, <1>3, <1>4, <1>6, PlanConstants
<1>10. \A n \in PlanBatches : batches[n].item \in Existing'
  BY <1>6 DEF PlanInv, OneExecution
<1> QED BY <1>1, <1>5, <1>8, <1>9, <1>10, EditStep, Zenon DEF UpdateCommit, Answer

LEMMA DeleteCommitStep ==
  ASSUME PlanInv, NEW q \in Requests, DeleteCommit(q)
  PROVE  PlanInv'
<1> DEFINE k == request[q].item
<1>1. k \in Existing /\ k \in Items /\ plan # None
  BY DEF DeleteCommit, PlanInv, Reading
<1>2. items \in [Items -> ItemRow] /\ items' = [items EXCEPT ![k] = Deleted]
  BY DEF DeleteCommit, PlanInv, PlanTyped
<1>3. \A n \in DOMAIN batches : batches[n].item # k
  BY DEF DeleteCommit
<1> HIDE DEF k
<1>4. items' \in [Items -> ItemRow]
  BY <1>1, <1>2 DEF ItemRow
<1>5. Existing' = Existing \ {k}
  BY <1>1, <1>2 DEF Existing
<1>6. \A i, j \in Existing' : items'[i].position = items'[j].position => i = j
  BY <1>2, <1>5 DEF PlanInv, PlanTyped, Existing
<1>7. \A i \in Items : items[i] # None => items'[i] # None /\ (i \in Existing' => i \in Existing)
  BY <1>1, <1>2, <1>5, PlanConstants
<1>8. \A n \in PlanBatches : batches[n].item \in Existing'
  BY <1>3, <1>5 DEF PlanInv, OneExecution, PlanBatches
<1> QED BY <1>1, <1>4, <1>6, <1>7, <1>8, EditStep, Zenon DEF DeleteCommit, Answer

LEMMA RefusedStep ==
  ASSUME PlanInv, NEW q \in Requests, Refused(q)
  PROVE  PlanInv'
<1>1. Reading(Open) /\ ~Loading(Open)
  BY DEF Reading, Shaped, Loading, Open
<1>2. edits' \in 0..MaxEdits
  BY DEF Refused, PlanInv, PlanTyped
<1> QED BY <1>1, <1>2, AskStep, Zenon DEF Refused, Answer

LEMMA AddReferenceStep ==
  ASSUME PlanInv, NEW v \in Views, AddReference(v)
  PROVE  PlanInv'
<1>1. PlanTyped'
  BY DEF PlanInv, PlanTyped, AddReference, Existing
<1>2. OneExecution' /\ StrictViewsAreCited'
  BY DEF PlanInv, OneExecution, StrictViewsAreCited, PlanBatches, Existing, AddReference
<1>3. ASSUME NEW s PROVE (Reading(s)' <=> Reading(s)) /\ (Present(s)' <=> Present(s))
  BY Zenon DEF Reading, Loaded, Tested, Present, Free, Existing, Unproduced, PlanBatches, AddReference
<1>4. (\A p \in Requests : Reading(request[p])') /\ Nested'
  BY <1>3 DEF PlanInv, AddReference, Nested, Within, Loading
<1> QED BY <1>1, <1>2, <1>4 DEF PlanInv

-----------------------------------------------------------------------------
(* Batches outside the plan, and the end of a batch.                       *)

LEMMA BatchOf ==
  ASSUME NEW entry, entry.view \in Views, entry.fits \in BOOLEAN, entry.copy \in BOOLEAN,
         entry.rules \in Rules, NEW mode \in Modes, NEW cited \in SUBSET Views
  PROVE  /\ Batch(entry, mode, cited) \in PlanBatch
         /\ Batch(entry, mode, cited).plan = FALSE
         /\ Batch(entry, mode, cited).mode = mode
         /\ Batch(entry, mode, cited).view = entry.view
         /\ Batch(entry, mode, cited).cited = cited
BY DEF Batch, PlanBatch

\* A batch of no plan comes last.
LEMMA AppendStep ==
  ASSUME PlanInv, NEW b \in PlanBatch, ~b.plan, Truthful(b.mode, b.view, b.cited),
         Len(batches) < MaxBatches, batches' = Append(batches, b),
         UNCHANGED <<references, plan, items, edits, request>>
  PROVE  PlanInv'
<1>1. batches \in Seq(PlanBatch)
  BY DEF PlanInv, PlanTyped
<1> DEFINE k == Len(batches) + 1
<1>2. /\ batches' \in Seq(PlanBatch) /\ Len(batches') = k
      /\ DOMAIN batches' = DOMAIN batches \union {k} /\ k \notin DOMAIN batches
      /\ batches'[k] = b /\ \A n \in DOMAIN batches : batches'[n] = batches[n]
  BY <1>1
<1> HIDE DEF k
<1>3. PlanBatches' = PlanBatches
  BY <1>2 DEF PlanBatches
<1>4. Len(batches') <= MaxBatches
  BY <1>1, <1>2, PlanConstants DEF k
<1>5. \A n \in PlanBatches : batches'[n].execution = batches[n].execution
  BY <1>2 DEF PlanBatches
<1>6. \A n \in DOMAIN batches' : Truthful(batches'[n].mode, batches'[n].view, batches'[n].cited)
  BY <1>2 DEF PlanInv, StrictViewsAreCited
<1>7. \A n \in DOMAIN batches : n \in DOMAIN batches' /\ batches'[n].item = batches[n].item
  BY <1>2
<1> QED BY <1>2, <1>3, <1>4, <1>5, <1>6, <1>7, BatchStep, Zenon

LEMMA CreateBatchStep ==
  ASSUME PlanInv, NEW mode \in Modes, NEW v \in Views, CreateBatch(mode, v)
  PROVE  PlanInv'
<1> DEFINE entry == [view |-> v, fits |-> TRUE, copy |-> FALSE, rules |-> "none"]
           b == Batch(entry, mode, references)
<1>1. references \in SUBSET Views
  BY DEF PlanInv, PlanTyped
<1>2. b \in PlanBatch /\ ~b.plan /\ b.mode = mode /\ b.view = v /\ b.cited = references
  <2>1. entry.view = v /\ entry.fits \in BOOLEAN /\ entry.copy \in BOOLEAN /\ entry.rules \in Rules
    BY DEF Rules
  <2> HIDE DEF entry
  <2> QED BY <1>1, <2>1, BatchOf
<1>3. batches' = Append(batches, b) /\ Truthful(mode, v, references) /\ Len(batches) < MaxBatches
  BY DEF CreateBatch
<1> HIDE DEF b
<1> QED BY <1>2, <1>3, AppendStep, Zenon DEF CreateBatch

LEMMA CloneStep ==
  ASSUME PlanInv, NEW n \in DOMAIN batches, NEW fits \in BOOLEAN, NEW retry \in BOOLEAN,
         Clone(n, fits, retry)
  PROVE  PlanInv'
<1> DEFINE b == [batches[n] EXCEPT !.plan = FALSE, !.item = None, !.execution = 0,
                   !.source = n, !.fits = fits, !.status = "queued"]
<1>1. batches[n] \in PlanBatch /\ n \in Nat
  BY DEF PlanInv, PlanTyped
<1>2. /\ b \in PlanBatch /\ ~b.plan /\ b.mode = batches[n].mode /\ b.view = batches[n].view
      /\ b.cited = batches[n].cited
  BY <1>1 DEF PlanBatch
<1>3. batches' = Append(batches, b) /\ Len(batches) < MaxBatches
  BY DEF Clone
<1> HIDE DEF b
<1>4. Truthful(b.mode, b.view, b.cited)
  BY <1>2 DEF PlanInv, StrictViewsAreCited
<1> QED BY <1>2, <1>3, <1>4, AppendStep, Zenon DEF Clone

LEMMA CompleteStep ==
  ASSUME PlanInv, NEW k \in DOMAIN batches, Complete(k)
  PROVE  PlanInv'
<1>1. batches \in Seq(PlanBatch) /\ Len(batches) <= MaxBatches /\ batches[k] \in PlanBatch
  BY DEF PlanInv, PlanTyped
<1>2. PICK status \in {"review_pending", "failed"} :
        batches' = [batches EXCEPT ![k] = [batches[k] EXCEPT !.status = status]]
  BY DEF Complete
<1> DEFINE b == [batches[k] EXCEPT !.status = status]
<1>3. b \in PlanBatch /\ b.plan = batches[k].plan /\ b.item = batches[k].item
        /\ b.execution = batches[k].execution /\ b.mode = batches[k].mode
        /\ b.view = batches[k].view /\ b.cited = batches[k].cited
  BY <1>1 DEF PlanBatch
<1>4. batches' = [batches EXCEPT ![k] = b]
  BY <1>2
<1> HIDE DEF b
<1>5. batches' \in Seq(PlanBatch) /\ DOMAIN batches' = DOMAIN batches /\ Len(batches') = Len(batches)
        /\ \A n \in DOMAIN batches : batches'[n] = IF n = k THEN b ELSE batches[n]
  BY <1>1, <1>3, <1>4
<1>6. \A n \in DOMAIN batches : n \in DOMAIN batches' /\ batches'[n].item = batches[n].item
  BY <1>3, <1>5
<1>7. PlanBatches' = PlanBatches /\ \A n \in PlanBatches : batches'[n].execution = batches[n].execution
  BY <1>3, <1>5 DEF PlanBatches
<1>8. \A n \in DOMAIN batches' : Truthful(batches'[n].mode, batches'[n].view, batches'[n].cited)
  BY <1>3, <1>5 DEF PlanInv, StrictViewsAreCited
<1>9. Len(batches') <= MaxBatches
  BY <1>1, <1>5
<1> QED BY <1>5, <1>6, <1>7, <1>8, <1>9, BatchStep, Zenon DEF Complete

-----------------------------------------------------------------------------
(* The execution of the plan.                                              *)

LEMMA ExecuteOpenStep ==
  ASSUME PlanInv, NEW q \in Requests, ExecuteOpen(q)
  PROVE  PlanInv'
<1> DEFINE r == [Open EXCEPT !.op = "open"]
<1>1. Ask(q, r) /\ edits' \in 0..MaxEdits /\ plan # None
  BY DEF ExecuteOpen, PlanInv, PlanTyped
<1>2. Reading(r) /\ ~Loading(r)
  BY <1>1 DEF Reading, Shaped, Loading, Open
<1> HIDE DEF r
<1> QED BY <1>1, <1>2, AskStep, Zenon DEF Ask

LEMMA ExecuteListStep ==
  ASSUME PlanInv, NEW q \in Requests, ExecuteList(q)
  PROVE  PlanInv'
<1>1. PICK order \in [1..Cardinality(Existing) -> Existing] :
        /\ Ordered(order)
        /\ request' = [request EXCEPT ![q] =
             [request[q] EXCEPT !.op = "list", !.loaded = order, !.row = items]]
  BY DEF ExecuteList
<1> DEFINE r == [request[q] EXCEPT !.op = "list", !.loaded = order, !.row = items]
<1>2. IsFiniteSet(Existing) /\ Existing \subseteq Items
  BY PlanConstants, FS_Subset DEF Existing
<1>3. Cardinality(Existing) \in Nat
  BY <1>2, FS_CardinalityType
<1>4. order \in Seq(Items) /\ DOMAIN order \subseteq Nat /\ \A n \in DOMAIN order : order[n] \in Existing
  BY <1>1, <1>2, <1>3
<1>5. \A i \in Existing : items[i] \in Item /\ items[i] # None
  BY DEF Existing, PlanInv, PlanTyped, ItemRow
<1>6. \A m, n \in DOMAIN order : order[m] = order[n] => m = n
  <2> SUFFICES ASSUME NEW m \in DOMAIN order, NEW n \in DOMAIN order, m # n
               PROVE  order[m] # order[n]
    OBVIOUS
  <2>1. m < n \/ n < m
    BY <1>4
  <2>2. items[order[m]].position \in Nat /\ items[order[n]].position \in Nat
    BY <1>4, <1>5 DEF Item
  <2> QED BY <1>1, <2>1, <2>2 DEF Ordered
<1>7. Shaped(request[q])
  BY DEF PlanInv, Reading
<1>8. r.op = "list" /\ r.loaded = order /\ r.row = items /\ Shaped(r)
  BY <1>7 DEF Shaped
<1>9. request' = [request EXCEPT ![q] = r]
  BY <1>1
<1> HIDE DEF r
<1>10. items \in [Items -> ItemRow] /\ plan # None
  BY DEF PlanInv, PlanTyped, Reading, ExecuteList
<1>11. Range(r.loaded) = Existing
  BY <1>1, <1>8 DEF Ordered
<1>12. PlanBatches = {} \/ ~Free(r)
  <2> SUFFICES ASSUME NEW n \in PlanBatches PROVE ~Free(r)
    OBVIOUS
  <2>1. batches[n].item \in Existing /\ n \in DOMAIN batches
    BY DEF PlanInv, OneExecution, PlanBatches
  <2>2. PICK k \in DOMAIN r.loaded : r.loaded[k] = batches[n].item
    BY <1>11, <2>1 DEF Range
  <2> QED BY <2>1, <2>2 DEF Free, Unproduced
<1>13. Loaded(r)
  BY <1>4, <1>5, <1>6, <1>8, <1>10, <1>12 DEF Loaded
<1>14. Reading(r)
  BY <1>8, <1>10, <1>13 DEF Reading
<1>15. edits' \in 0..MaxEdits /\ UNCHANGED <<references, plan, items, batches>>
  BY DEF ExecuteList, PlanInv, PlanTyped
<1> QED BY <1>9, <1>11, <1>14, <1>15, AskStep, Zenon

LEMMA ExecuteReadStep ==
  ASSUME PlanInv, NEW q \in Requests, ExecuteRead(q)
  PROVE  PlanInv'
<1> DEFINE r == [request[q] EXCEPT !.op = "execute", !.cited = references]
<1>1. request' = [request EXCEPT ![q] = r] /\ request[q].op = "list"
  BY DEF ExecuteRead
<1>2. r.op = "execute" /\ r.loaded = request[q].loaded /\ r.row = request[q].row /\ r.cited = references
        /\ Shaped(r)
  BY DEF PlanInv, Reading, Shaped
<1> HIDE DEF r
<1>3. Loaded(request[q]) /\ plan # None /\ references \in SUBSET Views
  BY <1>1 DEF PlanInv, PlanTyped, Reading, Loading
<1>4. Loaded(r)
  BY <1>2, <1>3 DEF Loaded, Present, Free
<1>5. Tested(r)
  BY <1>2, <1>3 DEF Tested, ExecuteRead, Selected
<1>6. Reading(r)
  BY <1>2, <1>3, <1>4, <1>5 DEF Reading
<1>7. edits' \in 0..MaxEdits /\ UNCHANGED <<references, plan, items, batches>>
  BY DEF ExecuteRead, PlanInv, PlanTyped
<1>8. Loading(request[q])
  BY <1>1 DEF Loading
<1> QED BY <1>1, <1>2, <1>6, <1>7, <1>8, AskStep, Zenon

\* What a commit of an execution appends.
LEMMA Committed ==
  ASSUME PlanInv, NEW q \in Requests, ExecuteCommit(q)
  PROVE  /\ Loaded(request[q]) /\ Loading(request[q]) /\ plan # None
         /\ batches' \in Seq(PlanBatch)
         /\ Len(batches') = Len(batches) + Len(request[q].loaded)
         /\ DOMAIN batches \subseteq DOMAIN batches'
         /\ \A n \in DOMAIN batches : batches'[n] = batches[n]
         /\ \A n \in DOMAIN batches' \ DOMAIN batches :
              LET k == n - Len(batches)
                  i == request[q].loaded[k]
              IN  /\ k \in DOMAIN request[q].loaded
                  /\ batches'[n] \in PlanBatch /\ batches'[n].plan /\ batches'[n].item = i
                  /\ batches'[n].execution = Len(batches) + 1
                  /\ Truthful(batches'[n].mode, batches'[n].view, batches'[n].cited)
<1> DEFINE asked == request[q]
           rowOf(k) == asked.row[asked.loaded[k]]
           citedBy(k) == IF rowOf(k).chosen = {} THEN asked.cited ELSE rowOf(k).chosen
           made(k) == [Batch(rowOf(k), plan, citedBy(k))
                         EXCEPT !.plan = TRUE, !.item = asked.loaded[k], !.execution = Len(batches) + 1]
           new == [k \in DOMAIN asked.loaded |-> made(k)]
<1>1. Loaded(asked) /\ Tested(asked) /\ Loading(asked) /\ plan # None
  BY DEF ExecuteCommit, PlanInv, Reading, Loading
<1>2. asked.loaded \in Seq(Items) /\ batches \in Seq(PlanBatch) /\ plan \in Modes
  BY <1>1 DEF Loaded, PlanInv, PlanTyped
<1>3. batches' = batches \o new
  BY DEF ExecuteCommit
<1>4. ASSUME NEW k \in DOMAIN asked.loaded
      PROVE  /\ made(k) \in PlanBatch /\ made(k).plan /\ made(k).item = asked.loaded[k]
             /\ made(k).execution = Len(batches) + 1
             /\ Truthful(made(k).mode, made(k).view, made(k).cited)
  <2> DEFINE entry == rowOf(k)
             cited == citedBy(k)
             b == Batch(entry, plan, cited)
  <2>1. entry \in Item /\ Truthful(plan, entry.view, cited) /\ asked.cited \in SUBSET Views
    BY <1>1 DEF Loaded, Tested
  <2>2. entry.view \in Views /\ entry.fits \in BOOLEAN /\ entry.copy \in BOOLEAN /\ entry.rules \in Rules
          /\ cited \in SUBSET Views
    BY <2>1 DEF Item
  <2> HIDE DEF entry, cited
  <2>3. b \in PlanBatch /\ b.mode = plan /\ b.view = entry.view /\ b.cited = cited
    BY <1>2, <2>2, BatchOf
  <2>4. made(k) = [b EXCEPT !.plan = TRUE, !.item = asked.loaded[k], !.execution = Len(batches) + 1]
    BY DEF entry, cited
  <2>5. asked.loaded[k] \in Items /\ Len(batches) + 1 \in Nat
    BY <1>2
  <2> HIDE DEF made, b
  <2>6. /\ made(k) \in PlanBatch /\ made(k).plan /\ made(k).item = asked.loaded[k]
        /\ made(k).execution = Len(batches) + 1
        /\ made(k).mode = b.mode /\ made(k).view = b.view /\ made(k).cited = b.cited
    BY <2>3, <2>4, <2>5 DEF PlanBatch
  <2> QED BY <2>1, <2>3, <2>6
<1> HIDE DEF made
<1>5. new \in Seq(PlanBatch) /\ Len(new) = Len(asked.loaded)
        /\ \A k \in DOMAIN asked.loaded : new[k] = made(k)
  BY <1>2, <1>4
<1> HIDE DEF new
<1>6. /\ batches' \in Seq(PlanBatch) /\ Len(batches') = Len(batches) + Len(asked.loaded)
      /\ \A n \in 1..Len(batches) + Len(asked.loaded) :
           batches'[n] = IF n <= Len(batches) THEN batches[n] ELSE new[n - Len(batches)]
  <2>1. /\ batches \o new \in Seq(PlanBatch) /\ Len(batches \o new) = Len(batches) + Len(new)
        /\ \A n \in 1..Len(batches) + Len(new) :
             (batches \o new)[n] = IF n <= Len(batches) THEN batches[n] ELSE new[n - Len(batches)]
    BY <1>2, <1>5, ConcatProperties
  <2> QED BY <1>3, <1>5, <2>1
<1>7. DOMAIN batches = 1..Len(batches) /\ DOMAIN batches' = 1..Len(batches')
        /\ DOMAIN asked.loaded = 1..Len(asked.loaded)
        /\ Len(batches) \in Nat /\ Len(asked.loaded) \in Nat
  BY <1>2, <1>6, LenProperties
<1>8. DOMAIN batches \subseteq DOMAIN batches' /\ \A n \in DOMAIN batches : batches'[n] = batches[n]
  BY <1>6, <1>7
<1>9. \A n \in DOMAIN batches' \ DOMAIN batches :
        n - Len(batches) \in DOMAIN asked.loaded /\ batches'[n] = made(n - Len(batches))
  BY <1>5, <1>6, <1>7
<1>10. ASSUME NEW n \in DOMAIN batches' \ DOMAIN batches
       PROVE  LET k == n - Len(batches)
                  i == request[q].loaded[k]
              IN  /\ k \in DOMAIN request[q].loaded
                  /\ batches'[n] \in PlanBatch /\ batches'[n].plan /\ batches'[n].item = i
                  /\ batches'[n].execution = Len(batches) + 1
                  /\ Truthful(batches'[n].mode, batches'[n].view, batches'[n].cited)
  <2>1. n - Len(batches) \in DOMAIN asked.loaded /\ batches'[n] = made(n - Len(batches))
    BY <1>9
  <2> QED BY <1>4, <2>1, Zenon
<1> QED BY <1>1, <1>6, <1>8, <1>10, Zenon

\* Of two executions in flight the first that commits leaves nothing to the other.
LEMMA ExecuteCommitStep ==
  ASSUME PlanInv, NEW q \in Requests, ExecuteCommit(q)
  PROVE  PlanInv'
<1> DEFINE asked == request[q]
           New == DOMAIN batches' \ DOMAIN batches
<1>1. /\ Loaded(asked) /\ plan # None /\ batches' \in Seq(PlanBatch)
      /\ Len(batches') = Len(batches) + Len(asked.loaded)
      /\ DOMAIN batches \subseteq DOMAIN batches'
      /\ \A n \in DOMAIN batches : batches'[n] = batches[n]
  BY Committed
<1>2. \A n \in New :
        /\ n - Len(batches) \in DOMAIN asked.loaded
        /\ batches'[n].plan /\ batches'[n].item = asked.loaded[n - Len(batches)]
        /\ batches'[n].execution = Len(batches) + 1
        /\ Truthful(batches'[n].mode, batches'[n].view, batches'[n].cited)
  BY Committed
<1>3. /\ Present(asked) /\ Free(asked)
      /\ Len(batches) + Len(asked.loaded) <= MaxBatches
      /\ request' = [request EXCEPT ![q] = Open]
      /\ UNCHANGED <<references, plan, items, edits>>
  BY DEF ExecuteCommit, Present, Free, Answer
<1>4. asked.loaded = <<>> \/ PlanBatches = {}
  BY <1>1, <1>3 DEF Loaded
<1>5. PlanBatches' = PlanBatches \union New
  BY <1>1, <1>2 DEF PlanBatches
<1>6. /\ DOMAIN batches = 1..Len(batches) /\ DOMAIN batches' = 1..Len(batches')
      /\ DOMAIN asked.loaded = 1..Len(asked.loaded)
      /\ Len(batches) \in Nat /\ Len(asked.loaded) \in Nat
  BY <1>1, LenProperties DEF Loaded, PlanInv, PlanTyped
<1>7. \A k \in DOMAIN asked.loaded : k + Len(batches) \in New /\ (k + Len(batches)) - Len(batches) = k
  BY <1>1, <1>6
<1>8. asked.loaded = <<>> => New = {}
  BY <1>1, <1>6
<1>9. New \subseteq Nat
  BY <1>6
<1>10. \A p \in Requests : request'[p] = IF p = q THEN Open ELSE request[p]
  BY <1>3 DEF PlanInv, PlanTyped
<1>11. Existing' = Existing /\ \A s : Present(s)' <=> Present(s)
  BY <1>3 DEF Present, Existing
<1>12. \A s : Free(s)' => Free(s)
  BY <1>1 DEF Free, Unproduced
<1>13. PlanTyped'
  BY <1>1, <1>3, <1>11 DEF PlanInv, PlanTyped
<1>14. OneExecution'
  <2>1. CASE New = {}
    <3>1. \A n \in PlanBatches : batches'[n] = batches[n]
      BY <1>1 DEF PlanBatches
    <3> QED BY <1>5, <1>11, <2>1, <3>1 DEF OneExecution, PlanInv
  <2>2. CASE PlanBatches = {}
    <3> SUFFICES ASSUME NEW m \in New, NEW n \in New
                 PROVE  /\ batches'[m].execution = batches'[n].execution
                        /\ batches'[m].item = batches'[n].item => m = n
                        /\ batches'[n].item \in Existing
      BY <1>5, <1>11, <2>2 DEF OneExecution
    <3>1. batches'[m].item = batches'[n].item => m - Len(batches) = n - Len(batches)
      BY <1>1, <1>2 DEF Loaded
    <3>2. batches'[n].item \in Existing
      BY <1>2, <1>3 DEF Present
    <3> QED BY <1>2, <1>6, <1>9, <3>1, <3>2
  <2> QED BY <1>4, <1>8, <2>1, <2>2
<1>15. StrictViewsAreCited'
  BY <1>1, <1>2 DEF StrictViewsAreCited, PlanInv
<1>16. ASSUME NEW p \in Requests, p # q, NEW s, s = request[p], Loaded(s), Loading(s)
       PROVE  PlanBatches' = {} \/ s.loaded = <<>>
                \/ ~Present(s)' \/ ~Free(s)'
  <2> SUFFICES ASSUME s.loaded # <<>>, Present(s), Free(s)',
                      PlanBatches' # {}
               PROVE  FALSE
    BY <1>11
  <2>1. New # {}
    BY <1>5, <1>12, <1>16 DEF Loaded
  <2>2. Loading(asked)
    BY DEF ExecuteCommit, Loading
  <2>3. Within(s, asked) \/ Within(asked, s)
    BY <1>3, <1>16, <2>2 DEF PlanInv, Nested
  <2>4. PICK k \in DOMAIN asked.loaded : asked.loaded[k] \in Range(s.loaded)
    <3>1. PICK j \in DOMAIN s.loaded : TRUE
      BY <1>16, EmptySeq, LenProperties DEF Loaded
    <3>2. PICK k \in DOMAIN asked.loaded : TRUE
      BY <1>2, <2>1
    <3>3. s.loaded[j] \in Range(s.loaded) /\ asked.loaded[k] \in Range(asked.loaded)
      BY DEF Range
    <3>4. \A i \in Range(asked.loaded) : \E n \in DOMAIN asked.loaded : asked.loaded[n] = i
      BY DEF Range
    <3> QED BY <2>3, <3>2, <3>3, <3>4, Zenon DEF Within
  <2>5. PICK j \in DOMAIN s.loaded : s.loaded[j] = asked.loaded[k]
    BY <2>4 DEF Range
  <2>6. batches'[k + Len(batches)].item = asked.loaded[k] /\ k + Len(batches) \in DOMAIN batches'
    BY <1>2, <1>7
  <2> QED BY <2>5, <2>6 DEF Free, Unproduced
<1>17. \A p \in Requests : Reading(request[p])'
  <2> SUFFICES ASSUME NEW p \in Requests PROVE Reading(request[p])'
    OBVIOUS
  <2>1. CASE p = q
    BY <1>10, <2>1 DEF Reading, Shaped, Loading, Open
  <2>2. CASE p # q
    <3>1. request'[p] = request[p] /\ Reading(request[p])
      BY <1>10, <2>2 DEF PlanInv
    <3>2. ASSUME NEW s, s = request[p], Loading(s) PROVE Loaded(s)'
      <4>1. Loaded(s)
        BY <3>1, <3>2 DEF Reading
      <4> QED BY <1>3, <1>16, <2>2, <3>2, <4>1 DEF Loaded
    <3> QED BY <1>3, <3>1, <3>2 DEF Reading, Loading, Tested
  <2> QED BY <2>1, <2>2
<1>18. Nested'
  <2>1. ~Loading(Open)
    BY DEF Loading, Open
  <2> QED BY <1>10, <1>11, <2>1 DEF PlanInv, Nested, Within, Loading
<1> QED BY <1>13, <1>14, <1>15, <1>17, <1>18 DEF PlanInv

LEMMA PlanInvStep == PlanInv /\ [PlanNext]_planVars => PlanInv'
<1> SUFFICES ASSUME PlanInv, [PlanNext]_planVars PROVE PlanInv'
  OBVIOUS
<1>1. CASE \E v \in Views : AddReference(v)
  BY <1>1, AddReferenceStep
<1>2. CASE \E mode \in Modes : CompilePlan(mode)
  BY <1>2, CompileStep
<1>3. CASE \E q \in Requests : AddRead(q) \/ AddCommit(q)
  BY <1>3, AddReadStep, AddCommitStep
<1>4. CASE \E q \in Requests : ExecuteOpen(q) \/ ExecuteList(q) \/ ExecuteRead(q) \/ ExecuteCommit(q)
  BY <1>4, ExecuteOpenStep, ExecuteListStep, ExecuteReadStep, ExecuteCommitStep
<1>5. CASE \E q \in Requests : UpdateCommit(q) \/ DeleteCommit(q) \/ Refused(q)
  BY <1>5, UpdateCommitStep, DeleteCommitStep, RefusedStep
<1>6. CASE \E q \in Requests, i \in Items : UpdateRead(q, i) \/ DeleteRead(q, i)
  BY <1>6, UpdateReadStep, DeleteReadStep
<1>7. CASE \E mode \in Modes, v \in Views : CreateBatch(mode, v)
  BY <1>7, CreateBatchStep
<1>8. CASE \E n \in DOMAIN batches : Complete(n)
  BY <1>8, CompleteStep
<1>9. CASE \E n \in DOMAIN batches, fits, retry \in BOOLEAN : Clone(n, fits, retry)
  BY <1>9, CloneStep
<1>10. CASE UNCHANGED planVars
  <2>1. PlanTyped' /\ OneExecution' /\ StrictViewsAreCited'
    BY <1>10 DEF planVars, PlanInv, PlanTyped, OneExecution, StrictViewsAreCited, PlanBatches,
       Existing
  <2>2. ASSUME NEW s PROVE (Reading(s)' <=> Reading(s)) /\ (Present(s)' <=> Present(s))
    BY <1>10, Zenon DEF planVars, Reading, Loaded, Tested, Present, Free, Existing, Unproduced, PlanBatches
  <2>3. (\A p \in Requests : Reading(request[p])') /\ Nested'
    BY <1>10, <2>2 DEF planVars, PlanInv, Nested, Within, Loading
  <2> QED BY <2>1, <2>3 DEF PlanInv
<1> QED BY <1>1, <1>2, <1>3, <1>4, <1>5, <1>6, <1>7, <1>8, <1>9, <1>10 DEF PlanNext

LEMMA PlanSpecInv == PlanSpec => []PlanInv
<1> QED BY PlanInitInv, PlanInvStep, PTL DEF PlanSpec

\* Every variable keeps its type, and no two items of a plan share a position.
THEOREM PlanTypeCorrect == PlanSpec => []PlanTypeOK
<1>1. PlanInv => PlanTypeOK
  <2> SUFFICES ASSUME PlanInv PROVE PlanTypeOK
    OBVIOUS
  <2>1. \A n \in DOMAIN batches : batches[n] \in PlanBatch
    BY DEF PlanInv, PlanTyped
  <2> QED BY <2>1 DEF PlanInv, PlanTyped, PlanTypeOK, ItemRow, Existing, PlanBatch
<1> QED BY <1>1, PlanSpecInv, PTL

\* A plan is produced by one execution, each of whose batches has an item of its
\* own that stays, whatever was edited or executed while it was prepared.
THEOREM ExecutedOnce == PlanSpec => []OneExecution
<1> QED BY PlanSpecInv, PTL DEF PlanInv

\* Every strict batch of a side or a back view cites a reference of that view.
THEOREM StrictCited == PlanSpec => []StrictViewsAreCited
<1> QED BY PlanSpecInv, PTL DEF PlanInv
=============================================================================
