--------------------------- MODULE AttemptLedger ---------------------------
(***************************************************************************)
(* What the workers promise the rest of the system about paid attempts:    *)
(* every execution of a step holds a ticket with a number of its own,      *)
(* issued numbers are never reused, and an output is only recorded under   *)
(* the number of a ticket that is held at that moment, which it uses up.   *)
(* Billing and provenance read the step's attempt count and output.        *)
(***************************************************************************)
EXTENDS Naturals

CONSTANTS Steps, Tasks

VARIABLES
  issued,  \* number of tickets issued for a step so far
  held,    \* the tickets held by executions: [task, step, number]
  output   \* the number under which a step's output was recorded, or 0

vars == <<issued, held, output>>

Init ==
  /\ issued = [s \in Steps |-> 0]
  /\ held = {}
  /\ output = [s \in Steps |-> 0]

Issue(t, s) ==
  /\ issued' = [issued EXCEPT ![s] = @ + 1]
  /\ held' = held \union {[task |-> t, step |-> s, number |-> issued[s] + 1]}
  /\ UNCHANGED output

Deliver(ticket) ==
  /\ output' = [output EXCEPT ![ticket.step] = ticket.number]
  /\ held' = held \ {ticket}
  /\ UNCHANGED issued

\* Executions end without an output, several at once when a process dies.
Retire(ended) ==
  /\ held' = held \ ended
  /\ UNCHANGED <<issued, output>>

Next ==
  \/ \E t \in Tasks, s \in Steps : Issue(t, s)
  \/ \E ticket \in held : Deliver(ticket)
  \/ \E ended \in SUBSET held : Retire(ended)

Spec == Init /\ [][Next]_vars
=============================================================================
