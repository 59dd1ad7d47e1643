---------------------------- MODULE ReviewExport ----------------------------
(***************************************************************************)
(* Review and export of generated batches: review/service.py and           *)
(* export/service.py, for the batches of one production plan.              *)
(*                                                                         *)
(* A review holds the row lock of its batch from its first statement to    *)
(* its commit.  An export locks nothing: it reads the batch, then the      *)
(* decision, then the object store, and commits.  A plan export reads all  *)
(* batches first and exports them one after the other, each with a commit  *)
(* of its own, in one session whose identity map keeps the statuses it has *)
(* loaded (db.py sets expire_on_commit to False).                          *)
(*                                                                         *)
(* A batch comes from the worker.  The status under which it does stands   *)
(* for a succeeded step with an output and passed evidence, so the tests   *)
(* review_batch makes of the step and of the quality run are not repeated. *)
(***************************************************************************)
EXTENDS Naturals, Sequences

CONSTANTS
  Batches,       \* the batches of the plan
  PlanOrder,     \* the same, by created_at and id
  Reviewers,     \* review requests being served
  Exporters,     \* export requests being served
  MaxDecisions,  \* bound: decisions on one batch
  None

ASSUME PlanAssumption ==
  /\ PlanOrder \in Seq(Batches)
  /\ \A b \in Batches : \E i \in 1..Len(PlanOrder) : PlanOrder[i] = b
  /\ MaxDecisions \in Nat

ASSUME NoneAssumption == None \notin Batches \union Reviewers

VARIABLES
  status,     \* generation_batches.status
  decisions,  \* review_decisions of a batch, in the order of their commits
  exports,    \* export_records: a batch and the decision its manifest cites
  lock,       \* the review that holds the row lock of a batch
  review,     \* a review in its transaction: its batch and what it loaded
  export      \* an export in its session: what it loaded and has left to do

vars == <<status, decisions, exports, lock, review, export>>

Decision == {"approve", "reject"}
Reviewable == {"review_pending", "approved", "rejected"}
Exportable == {"approved", "exported"}
BatchStatus == {"running", "failed"} \union Reviewable \union Exportable

NoReview == [batch |-> None, loaded |-> None, decision |-> None]
NoExport == [plan |-> FALSE, todo |-> <<>>, loaded |-> [b \in Batches |-> None], cited |-> 0]

Init ==
  /\ status = [b \in Batches |-> "running"]
  /\ decisions = [b \in Batches |-> <<>>]
  /\ exports = {}
  /\ lock = [b \in Batches |-> None]
  /\ review = [r \in Reviewers |-> NoReview]
  /\ export = [e \in Exporters |-> NoExport]

\* The unit of work writes a column only when it differs from the loaded value.
Flushed(current, loaded, new) == IF new = loaded THEN current ELSE new

\* The worker completes the batch: see CompleteCommit of GenerationSteps.
Generated(b, passed) ==
  /\ status[b] = "running"
  /\ status' = [status EXCEPT ![b] = IF passed THEN "review_pending" ELSE "failed"]
  /\ UNCHANGED <<decisions, exports, lock, review, export>>

-----------------------------------------------------------------------------
(* Review.                                                                 *)

\* Mutant: the batch is selected without FOR UPDATE.
ReviewReadUnlocked(r, b, decision) ==
  /\ review[r] = NoReview
  /\ status[b] \in Reviewable
  /\ Len(decisions[b]) < MaxDecisions
  /\ review' = [review EXCEPT ![r] = [batch |-> b, loaded |-> status[b],
                                      decision |-> decision]]
  /\ UNCHANGED <<status, decisions, exports, lock, export>>

ReviewRead(r, b, decision) ==
  /\ review[r] = NoReview
  /\ lock[b] = None
  /\ status[b] \in Reviewable
  /\ Len(decisions[b]) < MaxDecisions
  /\ review' = [review EXCEPT ![r] = [batch |-> b, loaded |-> status[b],
                                      decision |-> decision]]
  /\ lock' = [lock EXCEPT ![b] = r]
  /\ UNCHANGED <<status, decisions, exports, export>>

Outcome(decision) == IF decision = "approve" THEN "approved" ELSE "rejected"

EndReview(r) ==
  /\ review' = [review EXCEPT ![r] = NoReview]
  /\ lock' = [b \in Batches |-> IF lock[b] = r THEN None ELSE lock[b]]

ReviewCommit(r) ==
  LET b == review[r].batch
  IN /\ b # None
     /\ status' = [status EXCEPT ![b] =
                     Flushed(@, review[r].loaded, Outcome(review[r].decision))]
     /\ decisions' = [decisions EXCEPT ![b] = Append(@, review[r].decision)]
     /\ EndReview(r)
     /\ UNCHANGED <<exports, export>>

\* The request is cut off or the database refuses the commit.
ReviewFails(r) ==
  /\ review[r].batch # None
  /\ EndReview(r)
  /\ UNCHANGED <<status, decisions, exports, export>>

-----------------------------------------------------------------------------
(* Export.                                                                 *)

EndExport(e) == export' = [export EXCEPT ![e] = NoExport]

ExportOpen(e, b) ==
  /\ export[e] = NoExport
  /\ status[b] \in Exportable
  /\ export' = [export EXCEPT ![e] =
                  [NoExport EXCEPT !.todo = <<b>>, !.loaded[b] = status[b]]]
  /\ UNCHANGED <<status, decisions, exports, lock, review>>

PlanExportOpen(e) ==
  /\ export[e] = NoExport
  /\ Batches # {}
  /\ \A b \in Batches : status[b] \in Exportable
  /\ export' = [export EXCEPT ![e] =
                  [plan |-> TRUE, todo |-> PlanOrder, loaded |-> status, cited |-> 0]]
  /\ UNCHANGED <<status, decisions, exports, lock, review>>

Exporting(e) == export[e].todo # <<>>

Approvals(b) == {i \in 1..Len(decisions[b]) : decisions[b][i] = "approve"}

\* Mutant: the newest decision of either kind.
LatestApprovalAny(b, i) == i = Len(decisions[b])

\* Decisions are in the order of their commits; the code orders them by the moment
\* their transaction began, which differs for reviews of one batch that overlap.
LatestApproval(b, i) == i \in Approvals(b) /\ \A j \in Approvals(b) : j <= i

\* The test of the status is made on the row the session already has.
Cite(e) ==
  LET b == Head(export[e].todo)
  IN /\ Exporting(e)
     /\ export[e].cited = 0
     /\ export[e].loaded[b] \in Exportable
     /\ \E i \in 1..Len(decisions[b]) :
          /\ LatestApproval(b, i)
          /\ export' = [export EXCEPT ![e].cited = i]
     /\ UNCHANGED <<status, decisions, exports, lock, review>>

ExportCommit(e) ==
  LET b == Head(export[e].todo)
      left == Tail(export[e].todo)
  IN /\ Exporting(e)
     /\ export[e].cited # 0
     /\ lock[b] = None
     /\ exports' = exports \union {[batch |-> b, decision |-> export[e].cited]}
     /\ IF export[e].loaded[b] = "approved"
        THEN status' = [status EXCEPT ![b] = "exported"]
        ELSE UNCHANGED status
     /\ IF left = <<>> /\ ~export[e].plan
        THEN EndExport(e)
        ELSE export' = [export EXCEPT ![e].todo = left, ![e].cited = 0,
                                      ![e].loaded[b] = "exported"]
     /\ UNCHANGED <<decisions, lock, review>>

\* The combined archive of the plan is complete and goes to the caller.
PlanDelivered(e) ==
  /\ export[e].plan
  /\ ~Exporting(e)
  /\ EndExport(e)
  /\ UNCHANGED <<status, decisions, exports, lock, review>>

\* An object or a provenance row is missing, or the caller is gone: what the
\* session has not committed is rolled back.
ExportFails(e) ==
  /\ export[e] # NoExport
  /\ EndExport(e)
  /\ UNCHANGED <<status, decisions, exports, lock, review>>

-----------------------------------------------------------------------------
Next ==
  \/ \E b \in Batches, passed \in BOOLEAN : Generated(b, passed)
  \/ \E r \in Reviewers, b \in Batches, d \in Decision : ReviewRead(r, b, d)
  \/ \E r \in Reviewers : ReviewCommit(r) \/ ReviewFails(r)
  \/ \E e \in Exporters, b \in Batches : ExportOpen(e, b)
  \/ \E e \in Exporters : \/ PlanExportOpen(e)
                          \/ Cite(e)
                          \/ ExportCommit(e)
                          \/ PlanDelivered(e)
                          \/ ExportFails(e)

Spec == Init /\ [][Next]_vars

-----------------------------------------------------------------------------
(* Properties.                                                             *)

\* Every variable has its type.
TypeOK ==
  /\ status \in [Batches -> BatchStatus]
  /\ decisions \in [Batches -> Seq(Decision)]
  /\ exports \subseteq [batch : Batches, decision : Nat]
  /\ lock \in [Batches -> Reviewers \union {None}]
  /\ review \in [Reviewers -> [batch : Batches \union {None},
                               loaded : Reviewable \union {None},
                               decision : Decision \union {None}]]
  /\ export \in [Exporters -> [plan : BOOLEAN,
                               todo : Seq(Batches),
                               loaded : [Batches -> BatchStatus \union {None}],
                               cited : Nat]]

LastDecision(b) == decisions[b][Len(decisions[b])]

\* The status of a reviewed batch is the outcome of the last decision on it,
\* although a reviewer who confirms a status writes no status at all: nothing
\* but the row lock orders two reviewers.
StatusFollowsDecisions ==
  \A b \in Batches :
    /\ status[b] \in {"running", "review_pending", "failed"} <=> decisions[b] = <<>>
    /\ status[b] \in {"approved", "rejected"} => status[b] = Outcome(LastDecision(b))

\* Every export cites a decision that approved the batch, whatever was decided
\* between the test of the status and the search for the decision.
CitesApproval ==
  \A x \in exports : x.decision \in Approvals(x.batch)

\* An exported batch is never reviewed again.
ExportIsFinal ==
  [][\A b \in Batches : status[b] = "exported"
       => status'[b] = "exported" /\ decisions'[b] = decisions[b]]_vars
=============================================================================
