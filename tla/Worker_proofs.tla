--------------------------- MODULE Worker_proofs ---------------------------
(***************************************************************************)
(* Proofs about the loop of a worker (WorkerLoop) and about the call it    *)
(* makes to a provider (Providers), for any workers, steps, providers and  *)
(* secrets, any concurrency, any faults, and any number of attempts and    *)
(* polls.                                                                  *)
(*                                                                         *)
(* The loop.  A lease has an execution because a task that executes keeps  *)
(* its place until it has ended: AwaitSlot drops ended tasks only, Close   *)
(* waits for the others, and a crash orphans what it ends.  That two tasks *)
(* execute a step only after an overrun is part of the induction, since    *)
(* otherwise the first to end would leave the other without a lease.  A    *)
(* lease granted after an overrun has the execution that was granted it,   *)
(* whatever the older one commits to the row.  A key vouches for a         *)
(* hint because the hint of a key is being pushed, waits in the list or is *)
(* held by the loop, and the loop deletes the key with the hint it takes   *)
(* over; that Redis answers unless there was an outage is part of it.      *)
(*                                                                         *)
(* The call.  A key is lost only by a race because a request begins with a *)
(* row whose key can be read and, if the row is still that, writes the key *)
(* for the provider and the model it writes.  A picture is from its own    *)
(* attempt because a prompt is named by the attempt that posts it.         *)
(***************************************************************************)
EXTENDS WorkerLoop, Providers, SequenceTheorems, FiniteSetTheorems, TLAPS

Label == {"beat", "slots", "pop", "acknowledge", "bulk", "scan", "publish", "closing", "down"}
TaskRow == [step : Steps \union {Nothing}, state : TaskState]

\* A worker holds a hint exactly between its two commands, and a task has a step.
Holding ==
  /\ \A w \in Workers : popped[w] # Nothing <=> pc[w] = "acknowledge"
  /\ \A w \in Workers, i \in Places : running[w][i].state # "vacant" => running[w][i].step \in Steps

LoopTyped == LoopTypeOK /\ Holding

Runs(w, i, s) == running[w][i].state = "executing" /\ running[w][i].step = s

Running(s) == \E w \in Workers, i \in Places : Runs(w, i, s)

\* An execution to a leased step; until an overrun no other, and none without a lease.
SoleExecutions ==
  /\ \A s \in Steps : step[s] = "leased" => Running(s)
  /\ "overrun" \notin faults =>
       /\ \A s \in Steps : Running(s) => step[s] = "leased"
       /\ \A s \in Steps, v, w \in Workers, i, k \in Places :
            Runs(v, i, s) /\ Runs(w, k, s) => v = w /\ i = k

\* Redis answers unless it had an outage.
Vouched == (~redis => "outage" \in faults) /\ KeyVouchesForHint

LoopInv == LoopTyped /\ SoleExecutions /\ Vouched

LEMMA LoopConstants ==
  /\ MaxConcurrency \in Nat /\ Nothing \notin Steps /\ Nothing \notin Workers
BY BoundsAssumption, NamesAssumption DEF BoundsAssumption, NamesAssumption

LEMMA LoopInitInv == LoopInit => LoopInv
<1> SUFFICES ASSUME LoopInit PROVE LoopInv
  OBVIOUS
<1>1. NoTasks \in [Places -> TaskRow]
  BY DEF NoTasks, Vacant, TaskRow, TaskState
<1>2. LoopTyped
  BY <1>1 DEF LoopInit, LoopTyped, LoopTypeOK, Holding, NoTasks, Vacant, TaskRow
<1>3. SoleExecutions
  BY DEF LoopInit, SoleExecutions, Running, Runs, NoTasks, Vacant
<1>4. Vouched
  BY DEF LoopInit, Vouched, KeyVouchesForHint
<1> QED BY <1>2, <1>3, <1>4 DEF LoopInv

-----------------------------------------------------------------------------
(* Types.                                                                  *)

\* A place of a worker is given another content.
LEMMA TaskSet ==
  ASSUME LoopTyped, NEW w \in Workers, NEW i \in Places, NEW new \in TaskRow,
         running' = [running EXCEPT ![w][i] = new]
  PROVE  /\ running' \in [Workers -> [Places -> TaskRow]]
         /\ \A v \in Workers, k \in Places :
              running'[v][k] = IF v = w /\ k = i THEN new ELSE running[v][k]
BY DEF LoopTyped, LoopTypeOK, TaskRow

LEMMA StateSet ==
  ASSUME LoopTyped, NEW w \in Workers, NEW i \in Places, NEW state \in TaskState \ {"vacant"},
         SetTask(w, i, state), running[w][i].state # "vacant"
  PROVE  /\ running' \in [Workers -> [Places -> TaskRow]]
         /\ \A v \in Workers, k \in Places :
              running'[v][k] = IF v = w /\ k = i THEN [step |-> running[w][i].step, state |-> state]
                                                 ELSE running[v][k]
         /\ running[w][i].step \in Steps
<1> DEFINE new == [step |-> running[w][i].step, state |-> state]
<1>1. running[w][i] \in TaskRow /\ running[w][i].step \in Steps
  BY DEF LoopTyped, LoopTypeOK, Holding, TaskRow
<1>2. [running[w][i] EXCEPT !.state = state] = new
  BY <1>1 DEF TaskRow
<1>3. new \in TaskRow
  BY <1>1 DEF TaskRow
<1>4. running' = [running EXCEPT ![w][i] = [running[w][i] EXCEPT !.state = state]]
  BY DEF SetTask
<1>5. running' = [running EXCEPT ![w][i] = new]
  BY <1>2, <1>4
<1> HIDE DEF new
<1>6. /\ running' \in [Workers -> [Places -> TaskRow]]
      /\ \A v \in Workers, k \in Places :
           running'[v][k] = IF v = w /\ k = i THEN new ELSE running[v][k]
  BY <1>3, <1>5, TaskSet
<1> QED BY <1>1, <1>6 DEF new

\* All places of a worker are given another content.
LEMMA TasksSet ==
  ASSUME LoopTyped, NEW w \in Workers, NEW new \in [Places -> TaskRow],
         running' = [running EXCEPT ![w] = new]
  PROVE  /\ running' \in [Workers -> [Places -> TaskRow]]
         /\ running'[w] = new /\ \A v \in Workers \ {w} : running'[v] = running[v]
BY DEF LoopTyped, LoopTypeOK, TaskRow

LEMMA NoTasksSet ==
  ASSUME LoopTyped, NEW w \in Workers, running' = [running EXCEPT ![w] = NoTasks]
  PROVE  /\ running' \in [Workers -> [Places -> TaskRow]]
         /\ \A v \in Workers, k \in Places :
              running'[v][k] = IF v = w THEN Vacant ELSE running[v][k]
<1>1. NoTasks \in [Places -> TaskRow]
  BY DEF NoTasks, Vacant, TaskRow, TaskState
<1>2. /\ running' \in [Workers -> [Places -> TaskRow]]
      /\ running'[w] = NoTasks /\ \A v \in Workers \ {w} : running'[v] = running[v]
  BY <1>1, TasksSet
<1> QED BY <1>2 DEF NoTasks

LEMMA DroppedTasks ==
  ASSUME LoopTyped, NEW w \in Workers,
         running' = [running EXCEPT ![w] =
           [i \in Places |-> IF i \in InState(w, Over) THEN Vacant ELSE @[i]]]
  PROVE  /\ running' \in [Workers -> [Places -> TaskRow]]
         /\ \A v \in Workers, k \in Places :
              running'[v][k] = IF v = w /\ running[w][k].state \in Over THEN Vacant
                               ELSE running[v][k]
<1> DEFINE new == [i \in Places |-> IF i \in InState(w, Over) THEN Vacant ELSE running[w][i]]
<1>1. new \in [Places -> TaskRow]
  <2>1. Vacant \in TaskRow
    BY DEF Vacant, TaskRow, TaskState
  <2>2. \A i \in Places : running[w][i] \in TaskRow
    BY DEF LoopTyped, LoopTypeOK, TaskRow
  <2> QED BY <2>1, <2>2
<1>2. running' = [running EXCEPT ![w] = new]
  OBVIOUS
<1>3. \A k \in Places : new[k] = IF running[w][k].state \in Over THEN Vacant ELSE running[w][k]
  BY DEF InState
<1> HIDE DEF new
<1>4. /\ running' \in [Workers -> [Places -> TaskRow]]
      /\ running'[w] = new /\ \A v \in Workers \ {w} : running'[v] = running[v]
  BY <1>1, <1>2, TasksSet
<1> QED BY <1>3, <1>4

\* Types when only the store, a publication or the steps change.
LEMMA TypedAside ==
  ASSUME LoopTyped, UNCHANGED <<pc, popped, running, bulk>>,
         step' \in [Steps -> {"absent", "due", "leased", "orphaned", "waiting", "done"}],
         hints' \in Seq(Steps), keys' \subseteq Steps, redis' \in BOOLEAN,
         todo' \in [Publishers -> SUBSET Steps],
         pushing' \in [Publishers -> Steps \union {Nothing}],
         faults' \subseteq {"retry", "raise", "crash", "outage", "overrun"}
  PROVE  LoopTyped'
BY DEF LoopTyped, LoopTypeOK, Holding

\* Types when a worker goes on in its loop.
LEMMA TypedOnward ==
  ASSUME LoopTyped, NEW w \in Workers, NEW label \in Label \ {"acknowledge"}, Goto(w, label),
         UNCHANGED <<step, redis, faults>>,
         popped' = [popped EXCEPT ![w] = Nothing],
         hints' \in Seq(Steps), keys' \subseteq Steps,
         running' \in [Workers -> [Places -> TaskRow]],
         \A v \in Workers, k \in Places :
           running'[v][k].state # "vacant" => running'[v][k].step \in Steps,
         bulk' \in [Workers -> {"none", "working", "raised"}],
         todo' \in [Publishers -> SUBSET Steps],
         UNCHANGED pushing
  PROVE  LoopTyped'
<1>1. pc' \in [Workers -> Label] /\ \A v \in Workers : pc'[v] = IF v = w THEN label ELSE pc[v]
  BY DEF LoopTyped, LoopTypeOK, Goto, Label
<1>2. popped' \in [Workers -> Steps \union {Nothing}]
        /\ \A v \in Workers : popped'[v] = IF v = w THEN Nothing ELSE popped[v]
  BY DEF LoopTyped, LoopTypeOK
<1>3. Holding'
  BY <1>1, <1>2 DEF LoopTyped, Holding
<1> QED BY <1>1, <1>2, <1>3 DEF LoopTyped, LoopTypeOK, Label, TaskRow

LEMMA TypedPublish ==
  ASSUME LoopTyped, NEW p \in Publishers, Publish(p)
  PROVE  LoopTyped'
<1>1. CASE SetKey(p)
  <2>0. /\ keys \subseteq Steps /\ todo \in [Publishers -> SUBSET Steps]
        /\ pushing \in [Publishers -> Steps \union {Nothing}]
    BY DEF LoopTyped, LoopTypeOK
  <2>1. keys' \subseteq Steps /\ todo' \in [Publishers -> SUBSET Steps]
          /\ pushing' \in [Publishers -> Steps \union {Nothing}]
    BY <1>1, <2>0 DEF SetKey
  <2> QED BY <1>1, <2>1, TypedAside DEF SetKey, loop, LoopTyped, LoopTypeOK
<1>2. CASE Push(p)
  <2>1. hints' \in Seq(Steps) /\ pushing' \in [Publishers -> Steps \union {Nothing}]
    BY <1>2 DEF Push, LoopTyped, LoopTypeOK
  <2> QED BY <1>2, <2>1, TypedAside DEF Push, loop, LoopTyped, LoopTypeOK
<1> QED BY <1>1, <1>2 DEF Publish

LEMMA TypedRequest ==
  ASSUME LoopTyped, NEW s \in Steps,
         Submit(s) \/ RequestEnds(s) \/ KeyExpires(s) \/ BecomesDue(s) \/ Overrun(s)
  PROVE  LoopTyped'
<1>0. s \in Publishers
  BY DEF Publishers
<1>1. CASE Submit(s)
  <2>1. /\ step' \in [Steps -> {"absent", "due", "leased", "orphaned", "waiting", "done"}]
        /\ todo' \in [Publishers -> SUBSET Steps]
    BY <1>0, <1>1 DEF Submit, LoopTyped, LoopTypeOK
  <2> QED BY <1>1, <2>1, TypedAside DEF Submit, loop, store, LoopTyped, LoopTypeOK
<1>2. CASE RequestEnds(s)
  <2>1. /\ todo' \in [Publishers -> SUBSET Steps]
        /\ pushing' \in [Publishers -> Steps \union {Nothing}]
        /\ faults' \subseteq {"retry", "raise", "crash", "outage", "overrun"}
    BY <1>0, <1>2 DEF RequestEnds, Fault, LoopTyped, LoopTypeOK
  <2> QED BY <1>2, <2>1, TypedAside DEF RequestEnds, loop, store, LoopTyped, LoopTypeOK
<1>3. CASE KeyExpires(s)
  BY <1>3, TypedAside DEF KeyExpires, loop, publication, LoopTyped, LoopTypeOK
<1>4. CASE BecomesDue(s)
  <2>1. step' \in [Steps -> {"absent", "due", "leased", "orphaned", "waiting", "done"}]
    BY <1>4 DEF BecomesDue, LoopTyped, LoopTypeOK
  <2> QED BY <1>4, <2>1, TypedAside DEF BecomesDue, loop, store, publication, LoopTyped, LoopTypeOK
<1>5. CASE Overrun(s)
  <2>1. /\ step' \in [Steps -> {"absent", "due", "leased", "orphaned", "waiting", "done"}]
        /\ faults' \subseteq {"retry", "raise", "crash", "outage", "overrun"}
    BY <1>5 DEF Overrun, Fault, LoopTyped, LoopTypeOK
  <2> QED BY <1>5, <2>1, TypedAside DEF Overrun, loop, store, publication, LoopTyped, LoopTypeOK
<1> QED BY <1>1, <1>2, <1>3, <1>4, <1>5

\* A worker that does not acknowledge holds no hint.
LEMMA EmptyHanded ==
  ASSUME LoopTyped, NEW w \in Workers, pc[w] # "acknowledge", UNCHANGED popped
  PROVE  popped' = [popped EXCEPT ![w] = Nothing]
BY DEF LoopTyped, LoopTypeOK, Holding

LEMMA TypedLoop ==
  ASSUME LoopTyped, NEW w \in Workers,
         \/ Beat(w) \/ AwaitSlot(w) \/ Pop(w) \/ Acknowledge(w)
         \/ StartBulk(w) \/ Scan(w) \/ EndScan(w) \/ Close(w)
  PROVE  LoopTyped'
<1> USE DEF Label
<1>0. /\ hints \in Seq(Steps) /\ keys \subseteq Steps /\ todo \in [Publishers -> SUBSET Steps]
      /\ bulk \in [Workers -> {"none", "working", "raised"}]
      /\ running \in [Workers -> [Places -> TaskRow]]
      /\ \A v \in Workers, k \in Places :
           running[v][k].state # "vacant" => running[v][k].step \in Steps
      /\ w \in Publishers
  BY DEF LoopTyped, LoopTypeOK, Holding, TaskRow, Publishers
<1>1. CASE Beat(w)
  <2>1. popped' = [popped EXCEPT ![w] = Nothing]
    BY <1>1, EmptyHanded DEF Beat
  <2> QED BY <1>0, <1>1, <2>1, TypedOnward DEF Beat, store, publication
<1>2. CASE AwaitSlot(w)
  <2>1. popped' = [popped EXCEPT ![w] = Nothing]
    BY <1>2, EmptyHanded DEF AwaitSlot
  <2>2. /\ running' \in [Workers -> [Places -> TaskRow]]
        /\ \A v \in Workers, k \in Places :
             running'[v][k].state # "vacant" => running'[v][k].step \in Steps
    <3>1. CASE Full(w)
      <4>1. running' = [running EXCEPT ![w] =
              [i \in Places |-> IF i \in InState(w, Over) THEN Vacant ELSE @[i]]]
        BY <1>2, <3>1 DEF AwaitSlot
      <4>2. /\ running' \in [Workers -> [Places -> TaskRow]]
            /\ \A v \in Workers, k \in Places :
                 running'[v][k] = IF v = w /\ running[w][k].state \in Over THEN Vacant
                                  ELSE running[v][k]
        BY <4>1, DroppedTasks
      <4>3. Vacant.state = "vacant"
        BY DEF Vacant
      <4> QED BY <1>0, <4>2, <4>3
    <3>2. CASE ~Full(w)
      BY <1>0, <1>2, <3>2 DEF AwaitSlot
    <3> QED BY <3>1, <3>2
  <2>3. \E label \in {"pop", "closing"} : Goto(w, label)
    BY <1>2 DEF AwaitSlot
  <2> QED BY <1>0, <1>2, <2>1, <2>2, <2>3, TypedOnward DEF AwaitSlot, store, publication
<1>3. CASE Pop(w)
  <2>1. CASE Goto(w, "closing") \/ Goto(w, "bulk")
    <3>1. CASE hints' = hints /\ popped' = popped
      <4>1. popped' = [popped EXCEPT ![w] = Nothing]
        BY <1>3, <3>1, EmptyHanded DEF Pop
      <4> QED BY <1>0, <1>3, <2>1, <3>1, <4>1, TypedOnward DEF Pop, publication
    <3>2. CASE Goto(w, "acknowledge")
      BY <2>1, <3>2 DEF Goto, LoopTyped, LoopTypeOK
    <3> QED BY <1>3, <3>1, <3>2 DEF Pop
  <2>2. CASE /\ hints # <<>> /\ popped' = [popped EXCEPT ![w] = Head(hints)]
             /\ hints' = Tail(hints) /\ Goto(w, "acknowledge")
    <3>1. Head(hints) \in Steps /\ Tail(hints) \in Seq(Steps)
      BY <1>0, <2>2
    <3> DEFINE s == Head(hints)
    <3>2. popped' = [popped EXCEPT ![w] = s] /\ s \in Steps /\ hints' \in Seq(Steps)
      BY <2>2, <3>1
    <3> HIDE DEF s
    <3>3. /\ popped' \in [Workers -> Steps \union {Nothing}]
          /\ pc' \in [Workers -> Label]
          /\ \A v \in Workers : popped'[v] = IF v = w THEN s ELSE popped[v]
          /\ \A v \in Workers : pc'[v] = IF v = w THEN "acknowledge" ELSE pc[v]
      BY <2>2, <3>2 DEF LoopTyped, LoopTypeOK, Goto
    <3>4. Holding'
      BY <1>3, <3>2, <3>3, LoopConstants DEF Pop, LoopTyped, Holding
    <3> QED BY <1>3, <3>2, <3>3, <3>4 DEF Pop, publication, LoopTyped, LoopTypeOK
  <2> QED BY <1>3, <2>1, <2>2 DEF Pop
<1>4. CASE Acknowledge(w)
  <2>1. PICK i \in InState(w, {"vacant"}) :
          running' = [running EXCEPT ![w][i] = [step |-> popped[w], state |-> "created"]]
    BY <1>4 DEF Acknowledge
  <2> DEFINE new == [step |-> popped[w], state |-> "created"]
  <2>2. popped[w] \in Steps
    BY <1>4 DEF Acknowledge, LoopTyped, LoopTypeOK, Holding
  <2>3. new \in TaskRow /\ i \in Places /\ new.step \in Steps
    BY <2>2 DEF TaskRow, TaskState, InState
  <2>4. running' = [running EXCEPT ![w][i] = new]
    BY <2>1
  <2> HIDE DEF new
  <2>5. /\ running' \in [Workers -> [Places -> TaskRow]]
        /\ \A v \in Workers, k \in Places :
             running'[v][k] = IF v = w /\ k = i THEN new ELSE running[v][k]
    BY <2>3, <2>4, TaskSet
  <2>6. \A v \in Workers, k \in Places :
          running'[v][k].state # "vacant" => running'[v][k].step \in Steps
    BY <1>0, <2>3, <2>5
  <2>7. keys' \subseteq Steps
    BY <1>0, <1>4 DEF Acknowledge, Acknowledged
  <2> QED BY <1>0, <1>4, <2>5, <2>6, <2>7, TypedOnward DEF Acknowledge, publication
<1>5. CASE StartBulk(w)
  <2>1. popped' = [popped EXCEPT ![w] = Nothing]
    BY <1>5, EmptyHanded DEF StartBulk
  <2>2. bulk' \in [Workers -> {"none", "working", "raised"}]
          /\ \E label \in {"scan", "closing"} : Goto(w, label)
    BY <1>0, <1>5 DEF StartBulk
  <2> QED BY <1>0, <1>5, <2>1, <2>2, TypedOnward DEF StartBulk, store, publication
<1>6. CASE Scan(w)
  <2>1. popped' = [popped EXCEPT ![w] = Nothing]
    BY <1>6, EmptyHanded DEF Scan
  <2>2. todo' \in [Publishers -> SUBSET Steps]
    BY <1>0, <1>6 DEF Scan
  <2> QED BY <1>0, <1>6, <2>1, <2>2, TypedOnward DEF Scan, store
<1>7. CASE EndScan(w)
  <2>1. popped' = [popped EXCEPT ![w] = Nothing]
    BY <1>7, EmptyHanded DEF EndScan
  <2> QED BY <1>0, <1>7, <2>1, TypedOnward DEF EndScan, store, publication
<1>8. CASE Close(w)
  <2>1. popped' = [popped EXCEPT ![w] = Nothing]
    BY <1>8, EmptyHanded DEF Close
  <2>2. running' = [running EXCEPT ![w] = NoTasks]
    BY <1>8 DEF Close
  <2>3. /\ running' \in [Workers -> [Places -> TaskRow]]
        /\ \A v \in Workers, k \in Places :
             running'[v][k].state # "vacant" => running'[v][k].step \in Steps
    <3>1. /\ running' \in [Workers -> [Places -> TaskRow]]
          /\ \A v \in Workers, k \in Places :
               running'[v][k] = IF v = w THEN Vacant ELSE running[v][k]
      BY <2>2, NoTasksSet
    <3>2. Vacant.state = "vacant"
      BY DEF Vacant
    <3> QED BY <1>0, <3>1, <3>2
  <2>4. bulk' \in [Workers -> {"none", "working", "raised"}]
    BY <1>0, <1>8 DEF Close
  <2> QED BY <1>0, <1>8, <2>1, <2>3, <2>4, TypedOnward DEF Close, store, publication
<1> QED BY <1>1, <1>2, <1>3, <1>4, <1>5, <1>6, <1>7, <1>8

\* Types when the tasks of a worker change but its loop does not.
LEMMA TypedTask ==
  ASSUME LoopTyped, NEW w \in Workers, NEW i \in Places, Task(w, i) \/ Raise(w, i)
  PROVE  LoopTyped'
<1>0. step \in [Steps -> {"absent", "due", "leased", "orphaned", "waiting", "done"}]
        /\ faults \subseteq {"retry", "raise", "crash", "outage", "overrun"}
  BY DEF LoopTyped, LoopTypeOK
<1>1. /\ UNCHANGED <<hints, keys, redis, pc, popped, bulk, todo, pushing>>
      /\ running[w][i].state # "vacant"
      /\ \E state \in {"executing", "ended", "raised"} : SetTask(w, i, state)
  BY DEF Task, Lease, Execute, Raise, store, publication
<1>2. /\ running' \in [Workers -> [Places -> TaskRow]]
      /\ running[w][i].step \in Steps
      /\ \A v \in Workers, k \in Places : running'[v][k].step = running[v][k].step
      /\ \A v \in Workers, k \in Places :
           running'[v][k].state # "vacant" => running[v][k].state # "vacant"
  <2>1. PICK state \in {"executing", "ended", "raised"} : SetTask(w, i, state)
    BY <1>1
  <2>2. /\ running' \in [Workers -> [Places -> TaskRow]]
        /\ \A v \in Workers, k \in Places :
             running'[v][k] = IF v = w /\ k = i
                              THEN [step |-> running[w][i].step, state |-> state]
                              ELSE running[v][k]
        /\ running[w][i].step \in Steps
    BY <1>1, <2>1, StateSet DEF TaskState
  <2> QED BY <1>1, <2>2
<1>3. step' \in [Steps -> {"absent", "due", "leased", "orphaned", "waiting", "done"}]
  BY <1>0, <1>2 DEF Task, Lease, Execute, Raise, Orphaned
<1>4. faults' \subseteq {"retry", "raise", "crash", "outage", "overrun"}
  BY <1>0 DEF Task, Lease, Execute, Raise, Fault
<1>5. Holding'
  BY <1>1, <1>2 DEF LoopTyped, Holding
<1> QED BY <1>1, <1>2, <1>3, <1>4, <1>5 DEF LoopTyped, LoopTypeOK, TaskRow

LEMMA TypedCrash ==
  ASSUME LoopTyped, NEW w \in Workers, Crash(w)
  PROVE  LoopTyped'
<1>1. /\ step' \in [Steps -> {"absent", "due", "leased", "orphaned", "waiting", "done"}]
      /\ faults' \subseteq {"retry", "raise", "crash", "outage", "overrun"}
      /\ popped' \in [Workers -> Steps \union {Nothing}]
      /\ pc' \in [Workers -> Label]
      /\ bulk' \in [Workers -> {"none", "working", "raised"}]
      /\ todo' \in [Publishers -> SUBSET Steps]
      /\ pushing' \in [Publishers -> Steps \union {Nothing}]
  BY DEF Crash, Orphaned, Fault, Goto, LoopTyped, LoopTypeOK, Label
<1>2. running' = [running EXCEPT ![w] = NoTasks]
  BY DEF Crash
<1>3. /\ running' \in [Workers -> [Places -> TaskRow]]
      /\ \A v \in Workers, k \in Places :
           running'[v][k] = IF v = w THEN Vacant ELSE running[v][k]
  BY <1>2, NoTasksSet
<1>4. /\ \A v \in Workers : pc'[v] = IF v = w THEN "down" ELSE pc[v]
      /\ \A v \in Workers : popped'[v] = IF v = w THEN Nothing ELSE popped[v]
  BY DEF Crash, Goto, LoopTyped, LoopTypeOK
<1>5. Vacant.state = "vacant"
  BY DEF Vacant
<1>6. Holding'
  BY <1>3, <1>4, <1>5 DEF LoopTyped, Holding
<1> QED BY <1>1, <1>3, <1>6 DEF Crash, store, LoopTyped, LoopTypeOK, TaskRow, Label

LEMMA TypedRest ==
  ASSUME LoopTyped,
         \/ \E w \in Workers : BulkEnds(w) \/ Restart(w)
         \/ Outage \/ RedisBack \/ UNCHANGED loopVars
  PROVE  LoopTyped'
<1>1. ASSUME NEW w \in Workers, BulkEnds(w) PROVE LoopTyped'
  <2>1. bulk' \in [Workers -> {"none", "working", "raised"}]
          /\ faults' \subseteq {"retry", "raise", "crash", "outage", "overrun"}
    BY <1>1 DEF BulkEnds, Fault, LoopTyped, LoopTypeOK
  <2> QED BY <1>1, <2>1 DEF BulkEnds, store, publication, LoopTyped, LoopTypeOK, Holding
<1>2. ASSUME NEW w \in Workers, Restart(w) PROVE LoopTyped'
  <2>1. pc' \in [Workers -> Label] /\ \A v \in Workers : pc'[v] = IF v = w THEN "scan" ELSE pc[v]
    BY <1>2 DEF Restart, Goto, LoopTyped, LoopTypeOK, Label
  <2>2. Holding'
    BY <1>2, <2>1 DEF Restart, LoopTyped, Holding
  <2> QED BY <1>2, <2>1, <2>2 DEF Restart, store, publication, LoopTyped, LoopTypeOK, Label
<1>3. CASE Outage
  <2>1. hints' \in Seq(Steps) /\ keys' \subseteq Steps /\ redis' \in BOOLEAN
          /\ faults' \subseteq {"retry", "raise", "crash", "outage", "overrun"}
    <3>1. hints' \in Seq(Steps)
      BY <1>3, EmptySeq DEF Outage, LoopTyped, LoopTypeOK
    <3>2. keys' \subseteq Steps /\ faults' \subseteq {"retry", "raise", "crash", "outage", "overrun"}
      BY <1>3 DEF Outage, Fault, LoopTyped, LoopTypeOK
    <3> QED BY <1>3, <3>1, <3>2 DEF Outage
  <2> QED BY <1>3, <2>1, TypedAside DEF Outage, loop, publication, LoopTyped, LoopTypeOK
<1>4. CASE RedisBack
  BY <1>4, TypedAside DEF RedisBack, loop, publication, LoopTyped, LoopTypeOK
<1>5. CASE UNCHANGED loopVars
  BY <1>5, TypedAside DEF loopVars, loop, store, publication, LoopTyped, LoopTypeOK
<1> QED BY <1>1, <1>2, <1>3, <1>4, <1>5

-----------------------------------------------------------------------------
(* Leases and executions.                                                  *)

\* A step that takes and gives no lease, and begins and ends no execution.
LEMMA LeasesKept ==
  ASSUME SoleExecutions, faults \subseteq faults',
         \A s \in Steps : step'[s] = "leased" <=> step[s] = "leased",
         \A v \in Workers, k \in Places, s \in Steps : Runs(v, k, s)' <=> Runs(v, k, s)
  PROVE  SoleExecutions'
<1>1. "overrun" \notin faults' => "overrun" \notin faults
  OBVIOUS
<1>2. \A s \in Steps : Running(s)' <=> Running(s)
  BY Zenon DEF Running
<1>3. \A s \in Steps : step'[s] = "leased" => Running(s)'
  BY <1>2, Zenon DEF SoleExecutions
<1>4. ASSUME "overrun" \notin faults'
      PROVE  /\ \A s \in Steps : Running(s)' => step'[s] = "leased"
             /\ \A s \in Steps, v, w \in Workers, i, k \in Places :
                  Runs(v, i, s)' /\ Runs(w, k, s)' => v = w /\ i = k
  BY <1>1, <1>2, <1>4, Zenon DEF SoleExecutions
<1> QED BY <1>3, <1>4, Zenon DEF SoleExecutions

LEMMA LeaseStep ==
  ASSUME LoopTyped, SoleExecutions, NEW w \in Workers, NEW i \in Places, Lease(w, i)
  PROVE  SoleExecutions'
<1> DEFINE r == running[w][i].step
<1>1. running[w][i].state = "created" /\ r \in Steps
  BY DEF Lease, LoopTyped, Holding
<1>2. ASSUME step[r] = "due", step' = [step EXCEPT ![r] = "leased"], SetTask(w, i, "executing")
      PROVE  SoleExecutions'
  <2>1. \A v \in Workers, k \in Places :
          running'[v][k] = IF v = w /\ k = i THEN [step |-> r, state |-> "executing"]
                           ELSE running[v][k]
    BY <1>1, <1>2, StateSet DEF TaskState
  <2>2. \A s \in Steps : step'[s] = IF s = r THEN "leased" ELSE step[s]
    BY <1>2 DEF LoopTyped, LoopTypeOK
  <2>3. "overrun" \notin faults => \A v \in Workers, k \in Places : ~Runs(v, k, r)
    BY <1>1, <1>2 DEF SoleExecutions, Running
  <2>4. \A v \in Workers, k \in Places, s \in Steps :
          Runs(v, k, s)' <=> (v = w /\ k = i /\ s = r) \/ Runs(v, k, s)
    BY <1>1, <2>1 DEF Runs
  <2> HIDE DEF r
  <2>5. faults' = faults
    BY DEF Lease
  <2> QED BY <1>1, <2>2, <2>3, <2>4, <2>5 DEF SoleExecutions, Running
<1>3. ASSUME SetTask(w, i, "ended"), UNCHANGED step
      PROVE  SoleExecutions'
  <2>1. \A v \in Workers, k \in Places :
          running'[v][k] = IF v = w /\ k = i THEN [step |-> r, state |-> "ended"]
                           ELSE running[v][k]
    BY <1>1, <1>3, StateSet DEF TaskState
  <2>2. \A v \in Workers, k \in Places, s \in Steps : Runs(v, k, s)' <=> Runs(v, k, s)
    BY <1>1, <2>1 DEF Runs
  <2> QED BY <1>3, <2>2, LeasesKept DEF Lease
<1> QED BY <1>2, <1>3 DEF Lease

\* An execution that ends leaves its step without a lease, its own or another's.
LEMMA ExecutionEnds ==
  ASSUME LoopTyped, SoleExecutions, faults \subseteq faults',
         NEW w \in Workers, NEW i \in Places, running[w][i].state = "executing",
         step'[running[w][i].step] # "leased",
         \A s \in Steps \ {running[w][i].step} : step'[s] = step[s],
         NEW state \in {"ended", "raised"}, SetTask(w, i, state)
  PROVE  SoleExecutions'
<1>0. PICK r \in Steps : r = running[w][i].step
  BY DEF LoopTyped, Holding
<1>1. Runs(w, i, r) /\ ("overrun" \notin faults' => "overrun" \notin faults)
  BY <1>0 DEF Runs
<1>2. \A v \in Workers, k \in Places :
        running'[v][k] = IF v = w /\ k = i THEN [step |-> r, state |-> state]
                         ELSE running[v][k]
  BY <1>0, StateSet DEF TaskState
<1>3. step'[r] # "leased" /\ \A s \in Steps \ {r} : step'[s] = step[s]
  BY <1>0
<1>4. \A v \in Workers, k \in Places, s \in Steps :
        Runs(v, k, s)' <=> Runs(v, k, s) /\ ~(v = w /\ k = i)
  BY <1>1, <1>2 DEF Runs
<1>5. \A s \in Steps \ {r} : Running(s)' <=> Running(s)
  BY <1>1, <1>4 DEF Running, Runs
<1>6. ASSUME "overrun" \notin faults', NEW v \in Workers, NEW k \in Places PROVE ~Runs(v, k, r)'
  BY <1>1, <1>4, <1>6 DEF SoleExecutions
<1>7. "overrun" \notin faults' => ~Running(r)'
  BY <1>6 DEF Running
<1>8. \A s \in Steps : step'[s] = "leased" => Running(s)'
  BY <1>3, <1>5 DEF SoleExecutions
<1>9. ASSUME "overrun" \notin faults', NEW s \in Steps, Running(s)' PROVE step'[s] = "leased"
  BY <1>1, <1>3, <1>5, <1>7, <1>9 DEF SoleExecutions
<1>10. ASSUME "overrun" \notin faults', NEW s \in Steps, NEW v \in Workers, NEW u \in Workers,
              NEW j \in Places, NEW k \in Places, Runs(v, j, s)', Runs(u, k, s)'
       PROVE  v = u /\ j = k
  BY <1>1, <1>4, <1>10 DEF SoleExecutions
<1> QED BY <1>8, <1>9, <1>10 DEF SoleExecutions

LEMMA LeasesStep ==
  ASSUME LoopTyped, SoleExecutions, [LoopNext]_loopVars
  PROVE  SoleExecutions'
<1>1. ASSUME NEW s \in Steps, Submit(s) \/ BecomesDue(s) PROVE SoleExecutions'
  <2>1. \A r \in Steps : step'[r] = "leased" <=> step[r] = "leased"
    BY <1>1 DEF Submit, BecomesDue, LoopTyped, LoopTypeOK
  <2>2. UNCHANGED running
    BY <1>1 DEF Submit, BecomesDue, loop
  <2> QED BY <1>1, <2>1, <2>2, LeasesKept DEF Runs, Submit, BecomesDue
<1>2. ASSUME UNCHANGED <<step, running>>, faults \subseteq faults' PROVE SoleExecutions'
  BY <1>2, LeasesKept DEF Runs
<1>3. ASSUME NEW s \in Steps, Publish(s) \/ RequestEnds(s) \/ KeyExpires(s) PROVE SoleExecutions'
  BY <1>2, <1>3 DEF Publish, SetKey, Push, RequestEnds, KeyExpires, Fault, loop
<1>4. ASSUME NEW w \in Workers, \/ Beat(w) \/ Pop(w) \/ StartBulk(w) \/ Scan(w) \/ EndScan(w)
                                \/ Publish(w) \/ BulkEnds(w) \/ Restart(w)
      PROVE  SoleExecutions'
  BY <1>2, <1>4 DEF Beat, Pop, StartBulk, Scan, EndScan, Publish, SetKey, Push, BulkEnds, Restart,
     Fault, loop
<1>5. ASSUME NEW w \in Workers, AwaitSlot(w) PROVE SoleExecutions'
  <2>1. CASE Full(w)
    <3>1. running' = [running EXCEPT ![w] =
            [i \in Places |-> IF i \in InState(w, Over) THEN Vacant ELSE @[i]]]
      BY <1>5, <2>1 DEF AwaitSlot
    <3>2. \A v \in Workers, k \in Places :
            running'[v][k] = IF v = w /\ running[w][k].state \in Over THEN Vacant
                             ELSE running[v][k]
      BY <3>1, DroppedTasks
    <3>3. \A v \in Workers, k \in Places, s \in Steps : Runs(v, k, s)' <=> Runs(v, k, s)
      BY <3>2 DEF Runs, Vacant, Over
    <3> QED BY <1>5, <3>3, LeasesKept DEF AwaitSlot
  <2>2. CASE ~Full(w)
    BY <1>2, <1>5, <2>2 DEF AwaitSlot
  <2> QED BY <2>1, <2>2
<1>6. ASSUME NEW w \in Workers, Acknowledge(w) PROVE SoleExecutions'
  <2> DEFINE new == [step |-> popped[w], state |-> "created"]
  <2>1. PICK i \in InState(w, {"vacant"}) : running' = [running EXCEPT ![w][i] = new]
    BY <1>6 DEF Acknowledge
  <2>2. popped[w] \in Steps
    BY <1>6 DEF Acknowledge, LoopTyped, LoopTypeOK, Holding
  <2>3. new \in TaskRow /\ i \in Places /\ new.state = "created" /\ running[w][i].state = "vacant"
    BY <2>2 DEF TaskRow, TaskState, InState
  <2> HIDE DEF new
  <2>4. \A v \in Workers, k \in Places :
          running'[v][k] = IF v = w /\ k = i THEN new ELSE running[v][k]
    BY <2>1, <2>3, TaskSet
  <2>5. \A v \in Workers, k \in Places, s \in Steps : Runs(v, k, s)' <=> Runs(v, k, s)
    BY <2>3, <2>4 DEF Runs
  <2> QED BY <1>6, <2>5, LeasesKept DEF Acknowledge
<1>7. ASSUME NEW w \in Workers, Close(w) PROVE SoleExecutions'
  <2>1. running' = [running EXCEPT ![w] = NoTasks]
    BY <1>7 DEF Close
  <2>2. \A v \in Workers, k \in Places :
          running'[v][k] = IF v = w THEN Vacant ELSE running[v][k]
    BY <2>1, NoTasksSet
  <2>3. \A k \in Places : running[w][k].state # "executing"
    BY <1>7 DEF Close, InState
  <2>4. \A v \in Workers, k \in Places, s \in Steps : Runs(v, k, s)' <=> Runs(v, k, s)
    BY <2>2, <2>3 DEF Runs, Vacant
  <2> QED BY <1>7, <2>4, LeasesKept DEF Close
<1>8. ASSUME NEW w \in Workers, Crash(w) PROVE SoleExecutions'
  <2>1. running' = [running EXCEPT ![w] = NoTasks]
    BY <1>8 DEF Crash
  <2>2. \A v \in Workers, k \in Places :
          running'[v][k] = IF v = w THEN Vacant ELSE running[v][k]
    BY <2>1, NoTasksSet
  <2>3. \A v \in Workers, k \in Places, s \in Steps :
          Runs(v, k, s)' <=> Runs(v, k, s) /\ v # w
    BY <2>2 DEF Runs, Vacant
  <2>4. \A s \in Steps : s \in Executed(w) <=> \E k \in Places : Runs(w, k, s)
    BY DEF Executed, InState, Runs
  <2>5. \A s \in Steps : step'[s] = IF s \in Executed(w) /\ step[s] = "leased"
                                    THEN "orphaned" ELSE step[s]
    BY <1>8 DEF Crash, Orphaned
  <2>6. "overrun" \notin faults' => "overrun" \notin faults
    BY <1>8 DEF Crash, Fault
  <2> QED BY <2>3, <2>4, <2>5, <2>6 DEF SoleExecutions, Running
<1>9. ASSUME NEW w \in Workers, NEW i \in Places, Task(w, i) \/ Raise(w, i)
      PROVE  SoleExecutions'
  <2>1. CASE Lease(w, i)
    BY <2>1, LeaseStep
  <2>2. CASE Execute(w, i)
    <3>1. running[w][i].state = "executing" /\ running[w][i].step \in Steps
      BY <2>2 DEF Execute, LoopTyped, Holding
    <3>2. /\ step'[running[w][i].step] # "leased"
          /\ \A s \in Steps \ {running[w][i].step} : step'[s] = step[s]
          /\ faults \subseteq faults'
      BY <2>2, <3>1 DEF Execute, Held, Fault, LoopTyped, LoopTypeOK
    <3> QED BY <2>2, <3>1, <3>2, ExecutionEnds DEF Execute
  <2>3. CASE Raise(w, i) /\ running[w][i].state = "executing"
    <3>1. running[w][i].step \in Steps
      BY <2>3 DEF LoopTyped, Holding
    <3>2. /\ step'[running[w][i].step] # "leased"
          /\ \A s \in Steps \ {running[w][i].step} : step'[s] = step[s]
          /\ faults \subseteq faults'
      BY <2>3, <3>1 DEF Raise, Orphaned, Fault
    <3> QED BY <2>3, <3>2, ExecutionEnds DEF Raise
  <2>4. CASE Raise(w, i) /\ running[w][i].state = "created"
    <3>1. SetTask(w, i, "raised") /\ UNCHANGED step
      BY <2>4 DEF Raise
    <3>2. \A v \in Workers, k \in Places :
            running'[v][k] = IF v = w /\ k = i
                             THEN [step |-> running[w][i].step, state |-> "raised"]
                             ELSE running[v][k]
      BY <2>4, <3>1, StateSet DEF TaskState
    <3>3. \A v \in Workers, k \in Places, s \in Steps : Runs(v, k, s)' <=> Runs(v, k, s)
      BY <2>4, <3>2 DEF Runs
    <3> QED BY <2>4, <3>1, <3>3, LeasesKept DEF Raise, Fault
  <2> QED BY <1>9, <2>1, <2>2, <2>3, <2>4 DEF Task, Raise
<1>10. CASE Outage \/ RedisBack \/ UNCHANGED loopVars
  BY <1>2, <1>10 DEF Outage, RedisBack, Fault, loopVars, loop
<1>11. ASSUME NEW s \in Steps, Overrun(s) PROVE SoleExecutions'
  <2>1. \A r \in Steps : step'[r] = IF r = s THEN "due" ELSE step[r]
    BY <1>11 DEF Overrun, LoopTyped, LoopTypeOK
  <2>2. "overrun" \in faults' /\ UNCHANGED running
    BY <1>11 DEF Overrun, Fault, loop
  <2> QED BY <2>1, <2>2 DEF SoleExecutions, Running, Runs
<1> QED
  BY <1>11, <1>1, <1>3, <1>4, <1>5, <1>6, <1>7, <1>8, <1>9, <1>10, Zenon DEF LoopNext, Loop

-----------------------------------------------------------------------------
(* Keys and hints.                                                         *)

\* A hint of the step is on its way to a task, or will be.
OnItsWay(s) ==
  \/ Waiting(s) # {}
  \/ \E p \in Publishers : pushing[p] = s
  \/ \E w \in Workers : popped[w] = s

Sound == faults \intersect {"crash", "outage"} = {}

\* A step in which no key appears, and no hint is lost unless a process ends or
\* Redis fails.
LEMMA VouchedKept ==
  ASSUME Vouched, faults \subseteq faults', redis' = redis \/ "outage" \in faults' \/ redis',
         keys' \subseteq keys,
         Sound' => \A s \in keys' : OnItsWay(s) => OnItsWay(s)'
  PROVE  Vouched'
<1>1. Sound' => Sound
  BY DEF Sound
<1>2. Sound => \A s \in keys : OnItsWay(s)
  BY DEF Vouched, KeyVouchesForHint, OnItsWay, Sound
<1>3. Sound' => \A s \in keys' : OnItsWay(s)'
  BY <1>1, <1>2
<1>4. KeyVouchesForHint'
  BY <1>3 DEF KeyVouchesForHint, OnItsWay, Sound
<1>5. ~redis' => "outage" \in faults'
  BY DEF Vouched
<1> QED BY <1>4, <1>5 DEF Vouched

LEMMA Unmoved ==
  ASSUME Vouched, faults \subseteq faults', UNCHANGED <<redis, hints, pushing, popped>>,
         keys' \subseteq keys
  PROVE  Vouched'
<1>1. \A s : OnItsWay(s)' <=> OnItsWay(s)
  BY Zenon DEF OnItsWay, Waiting
<1> QED BY <1>1, VouchedKept

\* What is waiting after a hint was pushed, and after one was popped.
LEMMA PushedWaits ==
  ASSUME hints \in Seq(Steps), NEW s \in Steps, hints' = Append(hints, s)
  PROVE  Waiting(s)' # {} /\ \A r : Waiting(r) # {} => Waiting(r)' # {}
<1>1. /\ Len(hints) \in Nat /\ Len(hints') = Len(hints) + 1
      /\ \A i \in 1..Len(hints) : hints'[i] = hints[i]
      /\ hints'[Len(hints) + 1] = s
  OBVIOUS
<1>2. Len(hints) + 1 \in Waiting(s)'
  BY <1>1 DEF Waiting
<1>3. \A r : Waiting(r) \subseteq Waiting(r)'
  BY <1>1 DEF Waiting
<1> QED BY <1>2, <1>3

LEMMA PoppedWaits ==
  ASSUME hints \in Seq(Steps), hints # <<>>, hints' = Tail(hints)
  PROVE  \A r : Waiting(r) # {} => r = Head(hints) \/ Waiting(r)' # {}
<1>1. /\ Len(hints) \in Nat \ {0} /\ Len(hints') = Len(hints) - 1
      /\ \A i \in 1..Len(hints') : hints'[i] = hints[i + 1]
      /\ Head(hints) = hints[1]
  BY EmptySeq, HeadTailProperties
<1> SUFFICES ASSUME NEW r, NEW i \in Waiting(r), r # Head(hints)
             PROVE  Waiting(r)' # {}
  OBVIOUS
<1>2. i \in 1..Len(hints) /\ hints[i] = r /\ i # 1
  BY <1>1 DEF Waiting
<1>3. i - 1 \in 1..Len(hints') /\ hints'[i - 1] = r
  BY <1>1, <1>2
<1> QED BY <1>3 DEF Waiting

LEMMA PublishVouched ==
  ASSUME LoopTyped, Vouched, NEW p \in Publishers, Publish(p)
  PROVE  Vouched'
<1>0. /\ hints \in Seq(Steps) /\ pushing \in [Publishers -> Steps \union {Nothing}]
      /\ todo \in [Publishers -> SUBSET Steps] /\ Nothing \notin Steps /\ keys \subseteq Steps
  BY LoopConstants DEF LoopTyped, LoopTypeOK
<1>1. CASE SetKey(p)
  <2>1. PICK s \in todo[p] :
          IF redis /\ s \notin keys
          THEN /\ keys' = keys \union {s}
               /\ pushing' = [pushing EXCEPT ![p] = s]
          ELSE UNCHANGED <<keys, pushing>>
    BY <1>1 DEF SetKey
  <2>2. CASE redis /\ s \notin keys
    <3>1. /\ keys' = keys \union {s} /\ pushing[p] = Nothing /\ s \in Steps
          /\ \A q \in Publishers : pushing'[q] = IF q = p THEN s ELSE pushing[q]
      BY <1>0, <1>1, <2>1, <2>2 DEF SetKey
    <3>2. OnItsWay(s)'
      BY <3>1 DEF OnItsWay
    <3>3. ASSUME NEW r \in keys, OnItsWay(r) PROVE OnItsWay(r)'
      <4>1. r \in Steps
        BY <1>0
      <4>2. Waiting(r)' = Waiting(r) /\ popped' = popped
        BY <1>1 DEF SetKey, loop, Waiting
      <4>3. \A q \in Publishers : pushing[q] = r => pushing'[q] = r
        BY <1>0, <3>1, <4>1
      <4> QED BY <3>3, <4>2, <4>3 DEF OnItsWay
    <3>4. Sound => \A r \in keys : OnItsWay(r)
      BY DEF Vouched, KeyVouchesForHint, OnItsWay, Sound
    <3>5. Sound' => \A r \in keys' : OnItsWay(r)'
      BY <1>1, <3>1, <3>2, <3>3, <3>4 DEF Sound, SetKey
    <3>6. KeyVouchesForHint'
      BY <3>5 DEF KeyVouchesForHint, OnItsWay, Sound
    <3> QED BY <1>1, <3>6 DEF Vouched, SetKey
  <2>3. CASE ~(redis /\ s \notin keys)
    BY <1>1, <2>1, <2>3, Unmoved DEF SetKey, loop
  <2> QED BY <2>2, <2>3
<1>2. CASE Push(p)
  <2>1. ASSUME Sound' PROVE redis
    BY <1>2, <2>1 DEF Push, Sound, Vouched
  <2>2. ASSUME redis, NEW s \in keys, OnItsWay(s) PROVE OnItsWay(s)'
    <3>1. PICK h \in Steps : h = pushing[p]
      BY <1>0, <1>2 DEF Push
    <3>2. hints' = Append(hints, h)
      BY <1>2, <2>2, <3>1 DEF Push
    <3>3. Waiting(h)' # {} /\ \A r : Waiting(r) # {} => Waiting(r)' # {}
      BY <1>0, <3>2, PushedWaits
    <3>4. \A q \in Publishers : pushing'[q] = IF q = p THEN Nothing ELSE pushing[q]
      BY <1>0, <1>2 DEF Push
    <3>5. CASE Waiting(s) # {}
      BY <3>3, <3>5 DEF OnItsWay
    <3>6. ASSUME NEW q \in Publishers, pushing[q] = s PROVE OnItsWay(s)'
      <4>1. CASE q = p
        BY <3>1, <3>3, <3>6, <4>1 DEF OnItsWay
      <4>2. CASE q # p
        BY <3>4, <3>6, <4>2 DEF OnItsWay
      <4> QED BY <4>1, <4>2
    <3>7. ASSUME NEW w \in Workers, popped[w] = s PROVE OnItsWay(s)'
      BY <1>2, <3>7 DEF OnItsWay, Push, loop
    <3> QED BY <2>2, <3>5, <3>6, <3>7 DEF OnItsWay
  <2> QED BY <1>2, <2>1, <2>2, VouchedKept DEF Push
<1> QED BY <1>1, <1>2 DEF Publish

LEMMA VouchedStep ==
  ASSUME LoopTyped, Vouched, [LoopNext]_loopVars
  PROVE  Vouched'
<1>0. hints \in Seq(Steps) /\ Nothing \notin Steps /\ keys \subseteq Steps
  BY LoopConstants DEF LoopTyped, LoopTypeOK
<1>1. ASSUME NEW s \in Steps, Submit(s) \/ BecomesDue(s) \/ Overrun(s) PROVE Vouched'
  BY <1>1, Unmoved DEF Submit, BecomesDue, Overrun, Fault, store, loop, publication
<1>2. ASSUME NEW p \in Publishers, Publish(p) PROVE Vouched'
  BY <1>2, PublishVouched
<1>3. ASSUME NEW s \in Steps, RequestEnds(s) PROVE Vouched'
  <2>1. ~Sound' /\ faults \subseteq faults' /\ UNCHANGED <<keys, redis>>
    BY <1>3 DEF RequestEnds, Fault, Sound, store
  <2> QED BY <2>1, VouchedKept
<1>4. ASSUME NEW s \in Steps, KeyExpires(s) PROVE Vouched'
  BY <1>4, Unmoved DEF KeyExpires, loop, publication
<1>5. ASSUME NEW w \in Workers, \/ Beat(w) \/ AwaitSlot(w) \/ StartBulk(w) \/ Scan(w)
                                \/ EndScan(w) \/ Close(w) \/ BulkEnds(w) \/ Restart(w)
      PROVE  Vouched'
  <2>1. faults \subseteq faults' /\ UNCHANGED <<redis, hints, keys, pushing, popped>>
    BY <1>5 DEF Beat, AwaitSlot, StartBulk, Scan, EndScan, Close, BulkEnds, Restart, Fault,
       store, publication
  <2> QED BY <2>1, Unmoved
<1>6. ASSUME NEW w \in Workers, Pop(w) PROVE Vouched'
  <2>1. CASE UNCHANGED <<hints, popped>>
    BY <1>6, <2>1, Unmoved DEF Pop, publication
  <2>2. CASE /\ hints # <<>> /\ popped' = [popped EXCEPT ![w] = Head(hints)]
             /\ hints' = Tail(hints)
    <3>1. popped[w] = Nothing
      BY <1>6 DEF Pop, LoopTyped, Holding
    <3>2. \A v \in Workers : popped'[v] = IF v = w THEN Head(hints) ELSE popped[v]
      BY <2>2 DEF LoopTyped, LoopTypeOK
    <3>3. \A r : Waiting(r) # {} => r = Head(hints) \/ Waiting(r)' # {}
      BY <1>0, <2>2, PoppedWaits
    <3>4. ASSUME NEW s \in keys, OnItsWay(s) PROVE OnItsWay(s)'
      <4>1. s # Nothing
        BY <1>0
      <4>2. Waiting(s) # {} => (\E v \in Workers : popped'[v] = s) \/ Waiting(s)' # {}
        BY <3>2, <3>3
      <4>3. (\E v \in Workers : popped[v] = s) => \E v \in Workers : popped'[v] = s
        BY <3>1, <3>2, <4>1
      <4>4. pushing' = pushing
        BY <1>6 DEF Pop, publication
      <4> QED BY <3>4, <4>2, <4>3, <4>4 DEF OnItsWay
    <3> QED BY <1>6, <3>4, VouchedKept DEF Pop
  <2> QED BY <1>6, <2>1, <2>2 DEF Pop
<1>7. ASSUME NEW w \in Workers, Acknowledge(w) PROVE Vouched'
  <2>1. ASSUME Sound' PROVE redis
    BY <1>7, <2>1 DEF Acknowledge, Sound, Vouched
  <2>2. keys' \subseteq keys /\ (redis => popped[w] \notin keys')
    BY <1>7 DEF Acknowledge, Acknowledged
  <2>3. \A v \in Workers : popped'[v] = IF v = w THEN Nothing ELSE popped[v]
    BY <1>7 DEF Acknowledge, LoopTyped, LoopTypeOK
  <2>4. \A s : Waiting(s)' = Waiting(s)
    BY <1>7 DEF Acknowledge, Waiting
  <2>5. ASSUME redis, NEW s \in keys', OnItsWay(s) PROVE OnItsWay(s)'
    BY <1>7, <2>2, <2>3, <2>4, <2>5 DEF OnItsWay, Acknowledge, publication
  <2> QED BY <1>7, <2>1, <2>2, <2>5, VouchedKept DEF Acknowledge
<1>8. ASSUME NEW w \in Workers, Crash(w) PROVE Vouched'
  <2>1. ~Sound' /\ faults \subseteq faults' /\ UNCHANGED <<keys, redis>>
    BY <1>8 DEF Crash, Fault, Sound, store
  <2> QED BY <2>1, VouchedKept
<1>9. ASSUME NEW w \in Workers, NEW i \in Places, Task(w, i) \/ Raise(w, i) PROVE Vouched'
  <2>1. faults \subseteq faults' /\ UNCHANGED <<redis, hints, keys, pushing, popped>>
    BY <1>9 DEF Task, Lease, Execute, Raise, Fault, store, publication
  <2> QED BY <2>1, Unmoved
<1>10. CASE Outage
  <2>1. ~Sound' /\ "outage" \in faults' /\ faults \subseteq faults' /\ keys' \subseteq keys
    BY <1>10 DEF Outage, Fault, Sound
  <2> QED BY <2>1, VouchedKept
<1>11. CASE RedisBack
  <2>1. \A s : OnItsWay(s)' <=> OnItsWay(s)
    BY <1>11, Zenon DEF RedisBack, loop, publication, OnItsWay, Waiting
  <2> QED BY <1>11, <2>1, VouchedKept DEF RedisBack
<1>12. CASE UNCHANGED loopVars
  BY <1>12, Unmoved DEF loopVars, store, loop, publication
<1>13. Steps \subseteq Publishers /\ Workers \subseteq Publishers
  BY DEF Publishers
<1> QED
  BY <1>1, <1>2, <1>3, <1>4, <1>5, <1>6, <1>7, <1>8, <1>9, <1>10, <1>11, <1>12, <1>13, Zenon
  DEF LoopNext, Loop

-----------------------------------------------------------------------------
(* The theorems about the loop.                                            *)

LEMMA LoopTypedStep ==
  ASSUME LoopTyped, [LoopNext]_loopVars
  PROVE  LoopTyped'
<1>1. ASSUME NEW s \in Steps, \/ Submit(s) \/ Publish(s) \/ RequestEnds(s)
                              \/ KeyExpires(s) \/ BecomesDue(s) \/ Overrun(s)
      PROVE  LoopTyped'
  BY <1>1, TypedPublish, TypedRequest DEF Publishers
<1>2. ASSUME NEW w \in Workers, Loop(w) \/ BulkEnds(w) \/ Crash(w) \/ Restart(w)
      PROVE  LoopTyped'
  BY <1>2, TypedPublish, TypedLoop, TypedCrash, TypedRest DEF Publishers, Loop
<1>3. ASSUME NEW w \in Workers, NEW i \in Places, Task(w, i) \/ Raise(w, i)
      PROVE  LoopTyped'
  BY <1>3, TypedTask
<1>4. CASE Outage \/ RedisBack \/ UNCHANGED loopVars
  BY <1>4, TypedRest
<1> QED BY <1>1, <1>2, <1>3, <1>4 DEF LoopNext

LEMMA LoopInvariant == LoopSpec => []LoopInv
<1>1. LoopInv /\ [LoopNext]_loopVars => LoopInv'
  BY LoopTypedStep, LeasesStep, VouchedStep DEF LoopInv
<1> QED BY <1>1, LoopInitInv, PTL DEF LoopSpec

\* Type correctness; a worker that goes on waiting for work holds no hint (main.py).
THEOREM LoopTypeCorrect == LoopSpec => []LoopTypeOK
<1>1. LoopInv => LoopTypeOK
  BY DEF LoopInv, LoopTyped
<1> QED BY <1>1, LoopInvariant, PTL

LEMMA RunningExecutions ==
  ASSUME LoopTyped, NEW s \in Steps
  PROVE  \A w, i : <<w, i>> \in Executions(s) <=> w \in Workers /\ i \in Places /\ Runs(w, i, s)
<1>1. \A w \in Workers, i \in Places :
        running[w][i] = [step |-> s, state |-> "executing"] <=> Runs(w, i, s)
  <2>1. \A w \in Workers, i \in Places : running[w][i] \in TaskRow
    BY DEF LoopTyped, LoopTypeOK, TaskRow
  <2> QED BY <2>1 DEF Runs, TaskRow
<1> QED BY <1>1 DEF Executions

LEMMA LeasesFollow == LoopInv => LeasesHaveExecutions
<1> SUFFICES ASSUME LoopInv, NEW s \in Steps
             PROVE  /\ step[s] = "leased" => Executions(s) # {}
                    /\ "overrun" \notin faults /\ Executions(s) # {} =>
                         step[s] = "leased" /\ Cardinality(Executions(s)) = 1
  BY DEF LeasesHaveExecutions
<1>1. /\ \A w, i : <<w, i>> \in Executions(s) <=> w \in Workers /\ i \in Places /\ Runs(w, i, s)
      /\ Executions(s) \subseteq Workers \X Places
  BY RunningExecutions DEF LoopInv, Executions
<1>2. step[s] = "leased" => Executions(s) # {}
  BY <1>1 DEF LoopInv, SoleExecutions, Running
<1>3. ASSUME "overrun" \notin faults, Executions(s) # {}
      PROVE  step[s] = "leased" /\ Cardinality(Executions(s)) = 1
  <2>1. PICK w \in Workers, i \in Places : <<w, i>> \in Executions(s)
    BY <1>1, <1>3
  <2>2. Runs(w, i, s)
    BY <1>1, <2>1
  <2>3. step[s] = "leased"
    BY <1>3, <2>2 DEF LoopInv, SoleExecutions, Running
  <2>4. \A v \in Workers, k \in Places : <<v, k>> \in Executions(s) => <<v, k>> = <<w, i>>
    BY <1>1, <1>3, <2>2 DEF LoopInv, SoleExecutions
  <2>5. Executions(s) = {<<w, i>>}
    BY <1>1, <2>1, <2>4
  <2> QED BY <2>3, <2>5, FS_Singleton
<1> QED BY <1>2, <1>3

\* A leased step has an execution that will end it, however many workers there are and
\* however their loops end: what a loop drops has ended (main.py).  Until a lease expires
\* under its execution there is one, of one worker or of another, whatever hints were
\* duplicated (queue.py), and it has a lease.
THEOREM LeasesExecuted == LoopSpec => []LeasesHaveExecutions
  BY LeasesFollow, LoopInvariant, PTL

\* A deduplication key suppresses a publication only while a hint of the step is to be
\* consumed, unless a process ended or Redis failed (QueueHints.publish, acknowledge).
THEOREM KeysVouch == LoopSpec => []KeyVouchesForHint
<1>1. LoopInv => KeyVouchesForHint
  BY DEF LoopInv, Vouched
<1> QED BY <1>1, LoopInvariant, PTL

-----------------------------------------------------------------------------
(* The call: its inductive invariant.                                      *)

CallType ==
  [phase : {"idle", "mock", "generic_http", "comfyui", "polling", "viewing"},
   uploaded : 0..References, polls : 0..MaxPolls, prompt : 0..MaxAttempts]

RequestType == {Open} \union [row : Row, payload : Payload]

CallTyped ==
  /\ row \in Row /\ attempts \in 0..MaxAttempts /\ updates \in 0..MaxUpdates
  /\ call \in CallType
  /\ request \in [Requests -> RequestType]
  /\ server \in [Attempt -> {"none", "running", "done", "empty"}]

\* What a request has read, it could read.
ReadRows == \A q \in Requests : request[q] # Open => Decryptable(request[q].row)

\* The prompt an attempt waits for is its own, and there is one.
OwnPrompt ==
  /\ \A n \in Attempt : server[n] # "none" => n <= attempts
  /\ call.prompt # 0 => call.prompt = attempts /\ server[call.prompt] # "none"
  /\ call.phase \in {"polling", "viewing"} => call.prompt # 0
  /\ call.phase = "viewing" => server[call.prompt] = "done"
  /\ call.phase # "idle" => results = {} /\ attempts # 0

CallInv == CallTyped /\ ReadRows /\ OwnPrompt /\ ResultsAreOwn

LEMMA ConstantTypes ==
  /\ References \in Nat /\ MaxAttempts \in Nat /\ MaxUpdates \in Nat /\ MaxPolls \in Nat \ {0}
  /\ ProviderNames \subseteq {"mock", "generic_http", "comfyui"}
BY ProviderAssumption DEF ProviderAssumption

LEMMA NoCallTyped == NoCall \in CallType
BY ConstantTypes DEF NoCall, CallType

LEMMA CallInitInv == Init => CallInv
<1> SUFFICES ASSUME Init PROVE CallInv
  OBVIOUS
<1>1. CallTyped
  BY ConstantTypes, NoCallTyped DEF Init, CallTyped, RequestType
<1>2. ReadRows
  BY DEF Init, ReadRows
<1>3. OwnPrompt /\ ResultsAreOwn
  BY DEF Init, OwnPrompt, ResultsAreOwn, NoCall
<1> QED BY <1>1, <1>2, <1>3 DEF CallInv

-----------------------------------------------------------------------------
(* Administration.                                                         *)

\* What an update writes is a row.
LEMMA WrittenRow ==
  ASSUME CallInv, NEW q \in Requests, UpdateCommit(q)
  PROVE  /\ request[q].row \in Row /\ request[q].payload \in Payload
         /\ row' \in Row /\ row' = [provider |-> row'.provider, model |-> row'.model, key |-> row'.key]
<1> DEFINE old == request[q].row
           payload == request[q].payload
<1>1. old \in Row /\ payload \in Payload /\ row \in Row
  BY DEF CallInv, CallTyped, RequestType, UpdateCommit
<1> HIDE DEF old, payload
<1>2. KeyWritten(old, payload, row.key) \in Key \union {None}
  BY <1>1 DEF KeyWritten, Row, Payload, Key, Encrypted
<1>3. row' = [provider |-> IF payload.provider = old.provider THEN row.provider ELSE payload.provider,
              model |-> IF payload.model = old.model THEN row.model ELSE payload.model,
              key |-> KeyWritten(old, payload, row.key)]
  BY DEF UpdateCommit, old, payload
<1>4. row' \in Row
  BY <1>1, <1>2, <1>3 DEF Row, Payload
<1> QED BY <1>1, <1>3, <1>4 DEF old, payload

LEMMA AdministrationInv ==
  ASSUME CallInv, NEW q \in Requests
  PROVE  /\ \A payload \in Payload : UpdateRead(q, payload) => CallInv'
         /\ UpdateCommit(q) => CallInv'
<1>1. ASSUME NEW payload \in Payload, UpdateRead(q, payload)
      PROVE  CallInv'
  <2> DEFINE r == [row |-> row, payload |-> payload]
  <2>1. r \in RequestType /\ Decryptable(r.row)
    BY <1>1 DEF UpdateRead, RequestType, CallInv, CallTyped
  <2>2. request' = [request EXCEPT ![q] = r] /\ UNCHANGED <<row, attempts, call, server, results>>
    BY <1>1 DEF UpdateRead, calls
  <2> HIDE DEF r
  <2>3. updates' \in 0..MaxUpdates
    BY <1>1, ConstantTypes DEF UpdateRead, CallInv, CallTyped
  <2>4. CallTyped' /\ ReadRows'
    BY <2>1, <2>2, <2>3 DEF CallInv, CallTyped, ReadRows, Decryptable
  <2> QED BY <2>2, <2>4 DEF CallInv, OwnPrompt, ResultsAreOwn
<1>2. ASSUME UpdateCommit(q)
      PROVE  CallInv'
  <2>1. row' \in Row
    BY <1>2, WrittenRow
  <2>2. request' = [request EXCEPT ![q] = Open] /\ UNCHANGED <<updates, attempts, call, server, results>>
    BY <1>2 DEF UpdateCommit, calls
  <2>3. CallTyped' /\ ReadRows'
    BY <2>1, <2>2 DEF CallInv, CallTyped, ReadRows, RequestType, Decryptable
  <2> QED BY <2>2, <2>3 DEF CallInv, OwnPrompt, ResultsAreOwn
<1> QED BY <1>1, <1>2

-----------------------------------------------------------------------------
(* Attempts.                                                               *)

LEMMA AttemptInv ==
  ASSUME CallInv
  PROVE  (Resolve => CallInv') /\ (Fails => CallInv') /\ (Proceed => CallInv')
<1> USE DEF configuration
<1>0. /\ call \in CallType /\ attempts \in 0..MaxAttempts /\ row \in Row
      /\ server \in [Attempt -> {"none", "running", "done", "empty"}]
      /\ row.provider \in {"mock", "generic_http", "comfyui"}
  BY ConstantTypes DEF CallInv, CallTyped, Row
<1>r. ASSUME UNCHANGED configuration
      PROVE  ReadRows' /\ row' \in Row /\ updates' \in 0..MaxUpdates /\ request' \in [Requests -> RequestType]
  BY <1>r DEF CallInv, CallTyped, ReadRows, Decryptable
<1>1. ASSUME Resolve
      PROVE  CallInv'
  <2>1. call' \in CallType /\ attempts' \in 1..MaxAttempts /\ call'.prompt = 0
        /\ call'.phase \in {"idle", "mock", "generic_http", "comfyui"}
    BY <1>0, <1>1, ConstantTypes DEF Resolve, NoCall, CallType
  <2>2. OwnPrompt'
    BY <1>0, <1>1, <2>1, ConstantTypes DEF CallInv, OwnPrompt, Resolve, Attempt
  <2>3. ResultsAreOwn'
    BY <1>1 DEF CallInv, ResultsAreOwn, Resolve
  <2> QED BY <1>0, <1>1, <1>r, <2>1, <2>2, <2>3, ConstantTypes DEF CallInv, CallTyped, Resolve
<1>2. ASSUME Fails
      PROVE  CallInv'
  <2>1. OwnPrompt' /\ ResultsAreOwn'
    BY <1>2 DEF Fails, CallInv, OwnPrompt, ResultsAreOwn, NoCall
  <2> QED BY <1>2, <1>r, <2>1, NoCallTyped DEF CallInv, CallTyped, Fails
<1>3. ASSUME Upload
      PROVE  CallInv'
  <2>1. call' \in CallType /\ call'.prompt = call.prompt /\ call'.phase = call.phase
    BY <1>0, <1>3, ConstantTypes DEF Upload, BindingLeft, CallType
  <2>2. OwnPrompt' /\ ResultsAreOwn'
    BY <1>3, <2>1 DEF Upload, CallInv, OwnPrompt, ResultsAreOwn
  <2> QED BY <1>3, <1>r, <2>1, <2>2 DEF CallInv, CallTyped, Upload
<1>4. ASSUME Post
      PROVE  CallInv'
  <2>1. attempts \in Attempt /\ results = {}
    BY <1>0, <1>4, ConstantTypes DEF Post, CallInv, OwnPrompt, Attempt
  <2>2. call' \in CallType /\ call'.prompt \in {0, attempts} /\ call'.phase \in {"idle", "polling"}
        /\ (call'.phase = "polling" => call'.prompt = attempts)
    <3>1. CASE call' = NoCall
      BY <3>1, NoCallTyped DEF NoCall
    <3>2. CASE call' = [call EXCEPT !.phase = "polling", !.prompt = attempts]
      BY <1>0, <3>2 DEF CallType
    <3> QED BY <1>4, <3>1, <3>2 DEF Post
  <2>3. server' \in [Attempt -> {"none", "running", "done", "empty"}] /\ server'[attempts] = "running"
        /\ \A n \in Attempt \ {attempts} : server'[n] = server[n]
    BY <1>0, <1>4, <2>1 DEF Post
  <2>4. OwnPrompt'
    <3>1. UNCHANGED <<attempts, results>> /\ \A n \in Attempt : server'[n] # "none" => n <= attempts
      BY <1>0, <1>4, <2>1, <2>3 DEF Post, CallInv, OwnPrompt, Attempt
    <3>2. server'[attempts] # "none" /\ attempts # 0
      BY <2>1, <2>3 DEF Attempt
    <3> QED BY <2>1, <2>2, <3>1, <3>2 DEF OwnPrompt
  <2>5. ResultsAreOwn'
    BY <1>4, <2>1 DEF Post, ResultsAreOwn
  <2> QED BY <1>4, <1>r, <2>2, <2>3, <2>4, <2>5 DEF CallInv, CallTyped, Post
<1>5. ASSUME Poll
      PROVE  CallInv'
  <2>1. /\ call' \in CallType
        /\ \/ call' = NoCall
           \/ call'.phase = "polling" /\ call'.prompt = call.prompt
           \/ call'.phase = "viewing" /\ call'.prompt = call.prompt /\ server[call.prompt] = "done"
    <3>1. CASE \E n \in Attempt : Found(n)
      BY <1>0, <1>5, <3>1, NoCallTyped DEF Poll, Found, CallType, Attempt
    <3>2. CASE ~\E n \in Attempt : Found(n)
      BY <1>0, <1>5, <3>2, NoCallTyped, ConstantTypes DEF Poll, PollsLeft, CallType
    <3> QED BY <3>1, <3>2
  <2>2. OwnPrompt'
    <3>1. /\ UNCHANGED <<attempts, server, results>> /\ call.phase = "polling" /\ OwnPrompt
      BY <1>5 DEF Poll, CallInv
    <3>2. CASE call' = NoCall
      BY <3>1, <3>2 DEF OwnPrompt, NoCall
    <3>3. CASE call' # NoCall
      BY <2>1, <3>1, <3>3 DEF OwnPrompt
    <3> QED BY <3>2, <3>3
  <2>3. ResultsAreOwn'
    BY <1>5 DEF Poll, CallInv, ResultsAreOwn
  <2> QED BY <1>5, <1>r, <2>1, <2>2, <2>3 DEF CallInv, CallTyped, Poll
<1>6. ASSUME Answered
      PROVE  CallInv'
  <2>1. OwnPrompt' /\ ResultsAreOwn'
    BY <1>6 DEF Answered, Return, CallInv, OwnPrompt, ResultsAreOwn, NoCall
  <2> QED BY <1>6, <1>r, <2>1, NoCallTyped DEF CallInv, CallTyped, Answered, Return
<1>7. ASSUME View
      PROVE  CallInv'
  <2>1. OwnPrompt' /\ ResultsAreOwn'
    BY <1>7 DEF View, Return, CallInv, OwnPrompt, ResultsAreOwn, NoCall
  <2> QED BY <1>7, <1>r, <2>1, NoCallTyped DEF CallInv, CallTyped, View, Return
<1> QED BY <1>1, <1>2, <1>3, <1>4, <1>5, <1>6, <1>7 DEF Proceed

LEMMA ServerInv ==
  ASSUME CallInv, NEW n \in Attempt, ServerEnds(n)
  PROVE  CallInv'
<1>1. /\ server' \in [Attempt -> {"none", "running", "done", "empty"}] /\ server[n] = "running"
      /\ server'[n] # "none" /\ \A m \in Attempt \ {n} : server'[m] = server[m]
  BY DEF ServerEnds, CallInv, CallTyped
<1>2. UNCHANGED <<row, request, updates, attempts, call, results>>
  BY DEF ServerEnds, configuration
<1>3. call.prompt # 0 => call.prompt \in Attempt
  BY ConstantTypes DEF CallInv, CallTyped, CallType, Attempt
<1>4. OwnPrompt'
  BY <1>1, <1>2, <1>3 DEF CallInv, OwnPrompt
<1>5. ResultsAreOwn'
  <2> SUFFICES ASSUME NEW r \in results, r.prompt # 0
               PROVE  r.prompt = r.attempt /\ server'[r.prompt] = "done"
    BY <1>2 DEF ResultsAreOwn
  <2>1. r.prompt = r.attempt /\ server[r.prompt] = "done"
    BY DEF CallInv, ResultsAreOwn
  <2> QED BY <1>1, <2>1 DEF ServerEnds, CallInv, CallTyped
<1> QED BY <1>1, <1>2, <1>4, <1>5 DEF CallInv, CallTyped, ReadRows, Decryptable

LEMMA CallNextInv == CallInv /\ [Next]_vars => CallInv'
<1>1. ASSUME CallInv, Next
      PROVE  CallInv'
  BY <1>1, AdministrationInv, AttemptInv, ServerInv DEF Next
<1>2. ASSUME CallInv, UNCHANGED vars
      PROVE  CallInv'
  BY <1>2 DEF vars, CallInv, CallTyped, ReadRows, Decryptable, OwnPrompt, ResultsAreOwn
<1> QED BY <1>1, <1>2

LEMMA CallInvariant == Spec => []CallInv
<1>1. Init /\ [][Next]_vars => []CallInv
  BY CallInitInv, CallNextInv, PTL
<1> QED BY <1>1, PTL DEF Spec

\* Type correctness; prompts are named by the attempts that post them (comfyui.py).
THEOREM CallTypeCorrect == Spec => []TypeOK
<1>1. CallInv => TypeOK
  BY DEF CallInv, CallTyped, OwnPrompt, TypeOK, CallType
<1> QED BY <1>1, CallInvariant, PTL

\* However late the server ends a prompt that was given up, and however many attempts
\* there are, its picture is never the result of another attempt (ComfyUIAdapter).
THEOREM OwnResults == Spec => []ResultsAreOwn
<1>1. CallInv => ResultsAreOwn
  BY DEF CallInv
<1> QED BY <1>1, CallInvariant, PTL

\* Who commits upon the row it had read leaves a key that can be read.
LEMMA CurrentUpdateKeepsKey ==
  ASSUME CallInv, NEW q \in Requests, UpdateCommit(q), request[q].row = row
  PROVE  Decryptable(row')
<1> DEFINE payload == request[q].payload
           written == KeyWritten(row, payload, row.key)
<1>1. row \in Row /\ payload \in Payload /\ Decryptable(row)
  BY DEF CallInv, CallTyped, RequestType, UpdateCommit, ReadRows
<1>2. row' = [provider |-> IF payload.provider = row.provider THEN row.provider ELSE payload.provider,
              model |-> IF payload.model = row.model THEN row.model ELSE payload.model,
              key |-> written]
  BY DEF UpdateCommit
<1> HIDE DEF payload
<1>3. row'.provider = payload.provider /\ row'.model = payload.model /\ row'.key = written
  BY <1>2
<1>4. \/ written = None
      \/ \E secret : written = Encrypted(secret, payload.provider, payload.model)
      \/ written = row.key /\ payload.provider = row.provider /\ payload.model = row.model
  BY DEF KeyWritten, NeedsKey
<1> HIDE DEF written
<1> QED BY <1>1, <1>3, <1>4 DEF Decryptable, Encrypted

\* A stored key becomes unreadable only by a commit of an administrator who had read
\* a row that is no longer there (update_model_configuration).
THEOREM KeysKept == Spec => KeyLostOnlyByRace
<1>1. ASSUME CallInv, [Next]_vars, Decryptable(row), ~Decryptable(row')
      PROVE  \E q \in Requests : request[q].row \notin {None, row} /\ request'[q] = Open
  <2>1. ASSUME UNCHANGED row
        PROVE  FALSE
    BY <1>1, <2>1
  <2>2. ASSUME \/ Resolve \/ Proceed \/ Fails
               \/ \E n \in Attempt : ServerEnds(n)
               \/ \E q \in Requests : \E payload \in Payload : UpdateRead(q, payload)
        PROVE  UNCHANGED row
    BY <2>2 DEF Resolve, Proceed, Answered, Return, Upload, Post, Poll, View, Fails, ServerEnds,
                UpdateRead, configuration
  <2>3. PICK q \in Requests : UpdateCommit(q)
    BY <1>1, <2>1, <2>2 DEF Next, vars
  <2>4. request'[q] = Open
    BY <1>1, <2>3 DEF UpdateCommit, CallInv, CallTyped
  <2>5. request[q].row # row
    BY <1>1, <2>3, CurrentUpdateKeepsKey
  <2>6. request[q].row # None
    BY <1>1, <2>3, WrittenRow, ProviderAssumption DEF ProviderAssumption
  <2> QED BY <2>4, <2>5, <2>6
<1>2. CallInv /\ [Next]_vars =>
        [Decryptable(row) /\ ~Decryptable(row') =>
           \E q \in Requests : request[q].row \notin {None, row} /\ request'[q] = Open]_vars
  BY <1>1
<1> QED BY <1>2, CallInvariant, PTL DEF Spec, KeyLostOnlyByRace
=============================================================================
