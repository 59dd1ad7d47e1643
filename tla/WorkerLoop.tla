----------------------------- MODULE WorkerLoop -----------------------------
(***************************************************************************)
(* How a committed step reaches a worker: the hints in Redis               *)
(* (workflow/queue.py), the loop of a worker process (worker/main.py), and *)
(* the recovery scan that publishes hints again (worker/recovery.py).      *)
(*                                                                         *)
(* What an execution does to its step is the subject of GenerationSteps;   *)
(* here a step is only absent, due, leased, orphaned by the end of an      *)
(* execution, waiting for its backoff, or done.  A lease may be over       *)
(* before its execution, and then the step may be executed twice.  A       *)
(* publication is two commands, SET NX of the deduplication key and LPUSH  *)
(* of the hint, and the publisher may end in between.                      *)
(***************************************************************************)
EXTENDS Naturals, Sequences, FiniteSets

CONSTANTS
  Steps,
  Workers,
  MaxConcurrency,  \* settings.worker_max_concurrency
  MaxHints,        \* bound: waiting hints of a step when its key expires
  MaxFaults,       \* bound: faults, of different kinds
  Nothing

ASSUME BoundsAssumption ==
  /\ MaxConcurrency \in Nat \ {0}
  /\ MaxHints \in Nat
  /\ MaxFaults \in Nat

ASSUME NamesAssumption ==
  /\ Steps \intersect Workers = {}
  /\ Nothing \notin Steps \union Workers

VARIABLES
  step,       \* what PostgreSQL says of a step
  hints,      \* the Redis list: hints are pushed at its end, popped at its head
  keys,       \* the steps whose deduplication key exists in Redis
  redis,      \* whether Redis answers
  pc,         \* where a worker's loop is
  popped,     \* the hint a worker took from the list
  running,    \* a worker's tasks, by place; an ended one stays until the loop waits
  bulk,       \* a worker's bulk task, if one runs or has raised
  todo,       \* the steps a publisher has yet to publish
  pushing,    \* the step whose key a publisher has just set
  faults      \* the kinds of fault that happened

store == <<hints, keys, redis>>
loop == <<pc, popped, running, bulk>>
publication == <<todo, pushing>>
loopVars == <<step, store, loop, publication, faults>>

\* The loops, and the request that created a step, named by that step.
Publishers == Workers \union Steps

Places == 1..MaxConcurrency
TaskState == {"vacant", "created", "executing", "ended", "raised"}
Over == {"ended", "raised"}

Vacant == [step |-> Nothing, state |-> "vacant"]
NoTasks == [i \in Places |-> Vacant]

LoopInit ==
  /\ step = [s \in Steps |-> "absent"]
  /\ hints = <<>>
  /\ keys = {}
  /\ redis = TRUE
  /\ pc = [w \in Workers |-> "scan"]
  /\ popped = [w \in Workers |-> Nothing]
  /\ running = [w \in Workers |-> NoTasks]
  /\ bulk = [w \in Workers |-> "none"]
  /\ todo = [p \in Publishers |-> {}]
  /\ pushing = [p \in Publishers |-> Nothing]
  /\ faults = {}

Goto(w, label) == pc' = [pc EXCEPT ![w] = label]

Fault(kind) ==
  /\ kind \notin faults /\ Cardinality(faults) < MaxFaults
  /\ faults' = faults \union {kind}

-----------------------------------------------------------------------------
(* QueueHints.                                                             *)

\* SET NX: an existing key means that a hint is on its way; without Redis the
\* publication is given up.
SetKey(p) ==
  /\ pushing[p] = Nothing
  /\ \E s \in todo[p] :
       /\ todo' = [todo EXCEPT ![p] = @ \ {s}]
       /\ IF redis /\ s \notin keys
          THEN /\ keys' = keys \union {s}
               /\ pushing' = [pushing EXCEPT ![p] = s]
          ELSE UNCHANGED <<keys, pushing>>
  /\ UNCHANGED <<step, hints, redis, loop, faults>>

Push(p) ==
  /\ pushing[p] # Nothing
  /\ hints' = IF redis THEN Append(hints, pushing[p]) ELSE hints
  /\ pushing' = [pushing EXCEPT ![p] = Nothing]
  /\ UNCHANGED <<step, keys, redis, loop, todo, faults>>

Publish(p) == SetKey(p) \/ Push(p)

Published(p) == todo[p] = {} /\ pushing[p] = Nothing

\* Mutant: a consumed hint leaves its key behind.
AcknowledgedNever(s) == keys

\* The keys after an acknowledgement; an unreachable Redis is ignored.
Acknowledged(s) == IF redis THEN keys \ {s} ELSE keys

-----------------------------------------------------------------------------
(* A request creates a step, commits it, and only then publishes it.       *)

Submit(s) ==
  /\ step[s] = "absent"
  /\ step' = [step EXCEPT ![s] = "due"]
  /\ todo' = [todo EXCEPT ![s] = {s}]
  /\ UNCHANGED <<store, loop, pushing, faults>>

\* The API process ends before the request has published its hint.
RequestEnds(s) ==
  /\ ~Published(s)
  /\ Fault("crash")
  /\ todo' = [todo EXCEPT ![s] = {}]
  /\ pushing' = [pushing EXCEPT ![s] = Nothing]
  /\ UNCHANGED <<step, store, loop>>

-----------------------------------------------------------------------------
(* The loop of a worker.                                                   *)

\* The loop sets its heartbeat; a command that Redis does not answer raises,
\* and the loop is left.
Beat(w) ==
  /\ pc[w] = "beat"
  /\ Goto(w, IF redis THEN "slots" ELSE "closing")
  /\ UNCHANGED <<step, store, popped, running, bulk, publication, faults>>

InState(w, states) == {i \in Places : running[w][i].state \in states}

Full(w) == InState(w, {"vacant"}) = {}

\* asyncio.wait FIRST_COMPLETED, when every place is taken: ended tasks are
\* dropped, and the exception of one of them is raised here.
AwaitSlot(w) ==
  /\ pc[w] = "slots"
  /\ IF Full(w)
     THEN /\ InState(w, Over) # {}
          /\ running' = [running EXCEPT ![w] =
               [i \in Places |-> IF i \in InState(w, Over) THEN Vacant ELSE @[i]]]
          /\ Goto(w, IF InState(w, {"raised"}) = {} THEN "pop" ELSE "closing")
     ELSE UNCHANGED running /\ Goto(w, "pop")
  /\ UNCHANGED <<step, store, popped, bulk, publication, faults>>

\* brpop with its timeout.
Pop(w) ==
  /\ pc[w] = "pop"
  /\ \/ /\ ~redis
        /\ Goto(w, "closing")
        /\ UNCHANGED <<hints, popped>>
     \/ /\ redis /\ hints = <<>>
        /\ Goto(w, "bulk")
        /\ UNCHANGED <<hints, popped>>
     \/ /\ redis /\ hints # <<>>
        /\ popped' = [popped EXCEPT ![w] = Head(hints)]
        /\ hints' = Tail(hints)
        /\ Goto(w, "acknowledge")
  /\ UNCHANGED <<step, keys, redis, running, bulk, publication, faults>>

Acknowledge(w) ==
  /\ pc[w] = "acknowledge"
  /\ keys' = Acknowledged(popped[w])
  /\ \E i \in InState(w, {"vacant"}) :
       running' = [running EXCEPT ![w][i] = [step |-> popped[w], state |-> "created"]]
  /\ popped' = [popped EXCEPT ![w] = Nothing]
  /\ Goto(w, "bulk")
  /\ UNCHANGED <<step, hints, redis, bulk, publication, faults>>

StartBulk(w) ==
  /\ pc[w] = "bulk"
  /\ IF bulk[w] = "raised"
     THEN UNCHANGED bulk /\ Goto(w, "closing")
     ELSE bulk' = [bulk EXCEPT ![w] = "working"] /\ Goto(w, "scan")
  /\ UNCHANGED <<step, store, popped, running, publication, faults>>

Recoverable(s) == step[s] = "due"

\* recover_generation_steps reads and commits; its hints follow one by one.
Scan(w) ==
  /\ pc[w] = "scan"
  /\ todo' = [todo EXCEPT ![w] = {s \in Steps : Recoverable(s)}]
  /\ Goto(w, "publish")
  /\ UNCHANGED <<step, store, popped, running, bulk, pushing, faults>>

EndScan(w) ==
  /\ pc[w] = "publish"
  /\ Published(w)
  /\ Goto(w, "beat")
  /\ UNCHANGED <<step, store, popped, running, bulk, publication, faults>>

\* Mutant: the process does not wait for its tasks.
CloseAtOnce(w) ==
  /\ pc[w] = "closing"
  /\ running' = [running EXCEPT ![w] = NoTasks]
  /\ bulk' = [bulk EXCEPT ![w] = "none"]
  /\ Goto(w, "down")
  /\ UNCHANGED <<step, store, popped, publication, faults>>

\* The finally block: what still runs is awaited.
Close(w) ==
  /\ pc[w] = "closing"
  /\ InState(w, {"created", "executing"}) = {}
  /\ bulk[w] # "working"
  /\ running' = [running EXCEPT ![w] = NoTasks]
  /\ bulk' = [bulk EXCEPT ![w] = "none"]
  /\ Goto(w, "down")
  /\ UNCHANGED <<step, store, popped, publication, faults>>

Loop(w) ==
  \/ Beat(w) \/ AwaitSlot(w) \/ Pop(w) \/ Acknowledge(w)
  \/ StartBulk(w) \/ Scan(w) \/ EndScan(w) \/ Close(w)
  \/ (pc[w] = "publish" /\ Publish(w))

-----------------------------------------------------------------------------
(* The tasks of a worker.                                                  *)

SetTask(w, i, state) == running' = [running EXCEPT ![w][i].state = state]

\* The rows that say running under a lease that has not expired.
Held == {"leased", "orphaned"}

\* The lease is refused when the step is not due, and may be refused for
\* want of capacity while another step is leased.
Lease(w, i) ==
  LET s == running[w][i].step
  IN /\ running[w][i].state = "created"
     /\ \/ /\ step[s] = "due"
           /\ step' = [step EXCEPT ![s] = "leased"]
           /\ SetTask(w, i, "executing")
        \/ /\ step[s] # "due" \/ \E other \in Steps \ {s} : step[other] \in Held
           /\ SetTask(w, i, "ended")
           /\ UNCHANGED step
     /\ UNCHANGED <<store, pc, popped, bulk, publication, faults>>

\* The execution ends for good, or with a retry, whatever the row is by the time
\* it commits; or it has found that the row is no longer its own.
Execute(w, i) ==
  LET s == running[w][i].step
  IN /\ running[w][i].state = "executing"
     /\ \/ step' = [step EXCEPT ![s] = "done"] /\ UNCHANGED faults
        \/ step' = [step EXCEPT ![s] = "waiting"] /\ Fault("retry")
        \/ step[s] \notin Held /\ UNCHANGED <<step, faults>>
     /\ SetTask(w, i, "ended")
     /\ UNCHANGED <<store, pc, popped, bulk, publication>>

Task(w, i) == Lease(w, i) \/ Execute(w, i)

\* The steps when executions of the given ones are gone: a lease outlives them.
Orphaned(gone) ==
  [s \in Steps |-> IF s \in gone /\ step[s] = "leased" THEN "orphaned" ELSE step[s]]

\* An exception leaves the task; what it leased stays leased.
Raise(w, i) ==
  LET task == running[w][i]
  IN /\ task.state \in {"created", "executing"}
     /\ Fault("raise")
     /\ step' = IF task.state = "executing"
                THEN Orphaned({task.step})
                ELSE step
     /\ SetTask(w, i, "raised")
     /\ UNCHANGED <<store, pc, popped, bulk, publication>>

BulkEnds(w) ==
  /\ bulk[w] = "working"
  /\ \/ bulk' = [bulk EXCEPT ![w] = "none"] /\ UNCHANGED faults
     \/ bulk' = [bulk EXCEPT ![w] = "raised"] /\ Fault("raise")
  /\ UNCHANGED <<step, store, pc, popped, running, publication>>

-----------------------------------------------------------------------------
(* Environment.                                                            *)

Executed(w) == {running[w][i].step : i \in InState(w, {"executing"})}

Crash(w) ==
  /\ pc[w] # "down"
  /\ Fault("crash")
  /\ step' = Orphaned(Executed(w))
  /\ running' = [running EXCEPT ![w] = NoTasks]
  /\ bulk' = [bulk EXCEPT ![w] = "none"]
  /\ popped' = [popped EXCEPT ![w] = Nothing]
  /\ todo' = [todo EXCEPT ![w] = {}]
  /\ pushing' = [pushing EXCEPT ![w] = Nothing]
  /\ Goto(w, "down")
  /\ UNCHANGED store

\* Somebody starts the process again.
Restart(w) ==
  /\ pc[w] = "down"
  /\ Goto(w, "scan")
  /\ UNCHANGED <<step, store, popped, running, bulk, publication, faults>>

\* Redis stops answering for longer than the client tries again, and comes
\* back with or without the keys and hints it had.
Outage ==
  /\ redis
  /\ Fault("outage")
  /\ redis' = FALSE
  /\ hints' \in {hints, <<>>}
  /\ keys' \in {keys, {}}
  /\ UNCHANGED <<step, loop, publication>>

RedisBack ==
  /\ ~redis
  /\ redis' = TRUE
  /\ UNCHANGED <<step, hints, keys, loop, publication, faults>>

Waiting(s) == {i \in 1..Len(hints) : hints[i] = s}

\* Mutant: the key has no time to live.
KeyExpiresNever(s) == FALSE /\ s \in keys /\ UNCHANGED loopVars

\* 60 seconds after it was set.
KeyExpires(s) ==
  /\ s \in keys
  /\ Cardinality(Waiting(s)) < MaxHints
  /\ keys' = keys \ {s}
  /\ UNCHANGED <<step, hints, redis, loop, publication, faults>>

\* The lease of an execution that is gone expires, or a backoff elapses.
BecomesDue(s) ==
  /\ step[s] \in {"orphaned", "waiting"}
  /\ step' = [step EXCEPT ![s] = "due"]
  /\ UNCHANGED <<store, loop, publication, faults>>

\* A lease expires under its execution, which knows nothing of it.
Overrun(s) ==
  /\ step[s] = "leased"
  /\ Fault("overrun")
  /\ step' = [step EXCEPT ![s] = "due"]
  /\ UNCHANGED <<store, loop, publication>>

-----------------------------------------------------------------------------
LoopNext ==
  \/ \E s \in Steps : \/ Submit(s) \/ Publish(s) \/ RequestEnds(s)
                       \/ KeyExpires(s) \/ BecomesDue(s) \/ Overrun(s)
  \/ \E w \in Workers : Loop(w) \/ BulkEnds(w) \/ Crash(w) \/ Restart(w)
  \/ \E w \in Workers, i \in Places : Task(w, i) \/ Raise(w, i)
  \/ Outage \/ RedisBack

LoopSpec == LoopInit /\ [][LoopNext]_loopVars

\* The event loop runs the loop and its tasks, calls end, keys and leases
\* expire, Redis comes back.  Nothing is assumed of a request, nor that a
\* process that ended is started again.
FairSpec ==
  /\ LoopSpec
  /\ \A w \in Workers : WF_loopVars(Loop(w)) /\ WF_loopVars(BulkEnds(w))
  /\ \A w \in Workers, i \in Places : WF_loopVars(Task(w, i))
  /\ \A s \in Steps : WF_loopVars(KeyExpires(s)) /\ WF_loopVars(BecomesDue(s))
  /\ WF_loopVars(RedisBack)

-----------------------------------------------------------------------------
(* Properties.                                                             *)

\* Every variable has its type.
LoopTypeOK ==
  /\ step \in [Steps -> {"absent", "due", "leased", "orphaned", "waiting", "done"}]
  /\ hints \in Seq(Steps)
  /\ keys \subseteq Steps
  /\ redis \in BOOLEAN
  /\ pc \in [Workers -> {"beat", "slots", "pop", "acknowledge", "bulk", "scan",
                         "publish", "closing", "down"}]
  /\ popped \in [Workers -> Steps \union {Nothing}]
  /\ running \in [Workers -> [Places -> [step : Steps \union {Nothing}, state : TaskState]]]
  /\ bulk \in [Workers -> {"none", "working", "raised"}]
  /\ todo \in [Publishers -> SUBSET Steps]
  /\ pushing \in [Publishers -> Steps \union {Nothing}]
  /\ faults \subseteq {"retry", "raise", "crash", "outage", "overrun"}

Executions(s) ==
  {at \in Workers \X Places : running[at[1]][at[2]] = [step |-> s, state |-> "executing"]}

\* A leased step has an execution, in some worker, that will end it: what a loop
\* drops or leaves behind when it ends owns no lease.  Until a lease expires under its
\* execution (_lease_step grants LEASE_DURATION and nothing renews it), it has one
\* execution, and what has an execution is leased: a duplicated hint costs no more than
\* a refused lease.
LeasesHaveExecutions ==
  \A s \in Steps :
    /\ step[s] = "leased" => Executions(s) # {}
    /\ "overrun" \notin faults /\ Executions(s) # {} =>
         step[s] = "leased" /\ Cardinality(Executions(s)) = 1

\* While no process ends and Redis answers, a key that suppresses a
\* publication vouches for a hint of the step that is still to be consumed.
KeyVouchesForHint ==
  faults \intersect {"crash", "outage"} = {} =>
    \A s \in keys :
      \/ Waiting(s) # {}
      \/ \E p \in Publishers : pushing[p] = s
      \/ \E w \in Workers : popped[w] = s

\* Every step that a request has committed is executed to its end, unless no worker
\* is left: the hint, its key, an execution and all but one of the loops may be lost.
EveryStepEnds ==
  \A s \in Steps : step[s] = "due" ~> step[s] = "done" \/ \A w \in Workers : pc[w] = "down"
=============================================================================
