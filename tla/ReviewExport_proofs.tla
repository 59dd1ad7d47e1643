------------------------ MODULE ReviewExport_proofs ------------------------
(***************************************************************************)
(* Proofs about ReviewExport for any plan and any number of requests.      *)
(*                                                                         *)
(* None of the three properties is inductive.  A commit of a review is     *)
(* right only because what it loaded is still what is stored, which is the *)
(* row lock's doing (ReviewInv); an export cites an approval only because  *)
(* the decision it found is still there when it commits (CiteInv).         *)
(***************************************************************************)
EXTENDS ReviewExport, TLAPS

\* A review in its transaction owns the row, and the row is as it was loaded.
Owns(r) ==
  /\ lock[review[r].batch] = r
  /\ review[r].loaded = status[review[r].batch]
  /\ review[r].loaded \in Reviewable
  /\ review[r].decision \in Decision

ReviewInv == \A r \in Reviewers : review[r].batch # None => Owns(r)

\* An export that found its decision has a batch to do that it approved.
Cites(e) ==
  /\ Exporting(e)
  /\ export[e].cited \in Approvals(Head(export[e].todo))

CiteInv == \A e \in Exporters : export[e].cited # 0 => Cites(e)

Inv ==
  /\ TypeOK
  /\ ReviewInv
  /\ CiteInv
  /\ StatusFollowsDecisions
  /\ CitesApproval

\* The request a review makes has the type of a review.
ReviewType == [batch : Batches \union {None}, loaded : Reviewable \union {None},
               decision : Decision \union {None}]

ExportType == [plan : BOOLEAN, todo : Seq(Batches),
               loaded : [Batches -> BatchStatus \union {None}], cited : Nat]

-----------------------------------------------------------------------------
\* A later decision takes nothing away from the approvals before it, and is
\* the last one.
LEMMA AppendDecision ==
  ASSUME NEW s \in Seq(Decision), NEW d \in Decision
  PROVE  /\ Append(s, d) \in Seq(Decision)
         /\ Append(s, d) # <<>>
         /\ Len(Append(s, d)) = Len(s) + 1
         /\ Append(s, d)[Len(s) + 1] = d
         /\ \A i \in 1..Len(s) : i \in 1..Len(Append(s, d)) /\ Append(s, d)[i] = s[i]
  OBVIOUS

\* What a step that decides nothing and leaves the reviews alone must keep.
LEMMA FrameStep ==
  ASSUME Inv, TypeOK', UNCHANGED <<decisions, exports, lock, review>>,
         \A r \in Reviewers : review[r].batch # None =>
           status'[review[r].batch] = status[review[r].batch],
         CiteInv', StatusFollowsDecisions'
  PROVE  Inv'
<1>1. ReviewInv'
  BY DEF Inv, ReviewInv, Owns
<1>2. CitesApproval'
  BY DEF Inv, CitesApproval, Approvals
<1> QED BY <1>1, <1>2 DEF Inv

\* An export's own bookkeeping concerns nobody else.
LEMMA BookkeepingStep ==
  ASSUME Inv, NEW e \in Exporters, NEW x \in ExportType,
         export' = [export EXCEPT ![e] = x],
         x.cited # 0 => x.todo # <<>> /\ x.cited \in Approvals(Head(x.todo)),
         UNCHANGED <<status, decisions, exports, lock, review>>
  PROVE  Inv'
<1>1. TypeOK'
  BY DEF Inv, TypeOK, ExportType
<1>2. CiteInv'
  BY DEF Inv, CiteInv, Cites, Exporting, Approvals, TypeOK
<1>3. StatusFollowsDecisions'
  BY DEF Inv, StatusFollowsDecisions, LastDecision
<1> QED BY <1>1, <1>2, <1>3, FrameStep

\* The idle records have the types of a review and of an export.
LEMMA IdleTypes == NoReview \in ReviewType /\ NoExport \in ExportType /\ NoExport.cited = 0
  BY DEF NoReview, NoExport, ReviewType, ExportType

-----------------------------------------------------------------------------
\* Nothing is reviewed, decided or exported at first.
LEMMA InitInv == Init => Inv
<1> SUFFICES ASSUME Init PROVE Inv
  OBVIOUS
<1>1. TypeOK
  BY IdleTypes DEF Init, TypeOK, BatchStatus, ReviewType, ExportType
<1> QED
  BY <1>1, NoneAssumption
  DEF Init, Inv, ReviewInv, CiteInv, Cites, StatusFollowsDecisions, CitesApproval,
      NoReview, NoExport

\* The worker's completion of a batch: nobody reviews a running batch.
LEMMA GeneratedStep ==
  ASSUME Inv, NEW b \in Batches, NEW passed \in BOOLEAN, Generated(b, passed)
  PROVE  Inv'
<1>1. TypeOK'
  BY DEF Inv, TypeOK, Generated, BatchStatus, Reviewable
<1>2. \A r \in Reviewers : review[r].batch # None =>
        status'[review[r].batch] = status[review[r].batch]
  <2> SUFFICES ASSUME NEW r \in Reviewers, review[r].batch # None
               PROVE  status'[review[r].batch] = status[review[r].batch]
    OBVIOUS
  <2>1. review[r].batch \in Batches /\ status[review[r].batch] \in Reviewable
    BY DEF Inv, TypeOK, ReviewInv, Owns
  <2>2. review[r].batch # b
    BY <2>1 DEF Generated, Reviewable
  <2> QED BY <2>1, <2>2 DEF Generated, Inv, TypeOK
<1>3. CiteInv'
  BY DEF Inv, CiteInv, Cites, Generated, Exporting, Approvals
<1>4. StatusFollowsDecisions'
  BY DEF Inv, StatusFollowsDecisions, Generated, TypeOK, LastDecision
<1> QED BY <1>1, <1>2, <1>3, <1>4, FrameStep DEF Generated

\* The end of a review releases exactly the rows of that review.
LEMMA EndReviewInv ==
  ASSUME Inv, NEW r \in Reviewers, EndReview(r),
         \A q \in Reviewers \ {r} : review[q].batch # None =>
           status'[review[q].batch] = status[review[q].batch]
  PROVE  ReviewInv'
<1> SUFFICES ASSUME NEW q \in Reviewers, review'[q].batch # None
             PROVE  Owns(q)'
  BY DEF ReviewInv
<1>1. q # r /\ review'[q] = review[q]
  BY DEF EndReview, NoReview, Inv, TypeOK
<1>2. Owns(q) /\ review[q].batch \in Batches
  BY <1>1 DEF Inv, ReviewInv, TypeOK
<1>3. lock'[review[q].batch] = q
  BY <1>1, <1>2 DEF EndReview, Owns
<1> QED BY <1>1, <1>2, <1>3 DEF Owns

\* Locked rows are locked by reviews: types after the end of a review.
LEMMA EndReviewTypes ==
  ASSUME TypeOK, NEW r \in Reviewers, EndReview(r)
  PROVE  /\ lock' \in [Batches -> Reviewers \union {None}]
         /\ review' \in [Reviewers -> ReviewType]
<1>1. lock' \in [Batches -> Reviewers \union {None}]
  BY DEF EndReview, TypeOK
<1>2. review' \in [Reviewers -> ReviewType]
  BY IdleTypes DEF EndReview, TypeOK, ReviewType
<1> QED BY <1>1, <1>2

\* A review begins: it takes a free row and remembers what it is.
LEMMA ReviewReadStep ==
  ASSUME Inv, NEW r \in Reviewers, NEW b \in Batches, NEW d \in Decision,
         ReviewRead(r, b, d)
  PROVE  Inv'
<1>1. TypeOK'
  BY DEF Inv, TypeOK, ReviewRead
<1>2. ReviewInv'
  <2> SUFFICES ASSUME NEW q \in Reviewers, review'[q].batch # None
               PROVE  Owns(q)'
    BY DEF ReviewInv
  <2>1. CASE q = r
    BY <2>1 DEF Owns, ReviewRead, Inv, TypeOK
  <2>2. CASE q # r
    <3>1. review'[q] = review[q] /\ Owns(q) /\ review[q].batch \in Batches
      BY <2>2 DEF ReviewRead, Inv, ReviewInv, TypeOK
    <3>2. review[q].batch # b
      BY <3>1, <2>2, NoneAssumption DEF Owns, ReviewRead
    <3> QED BY <3>1, <3>2 DEF Owns, ReviewRead, Inv, TypeOK
  <2> QED BY <2>1, <2>2
<1>3. CiteInv' /\ StatusFollowsDecisions' /\ CitesApproval'
  BY DEF Inv, CiteInv, Cites, StatusFollowsDecisions, CitesApproval, ReviewRead,
         Exporting, Approvals, LastDecision
<1> QED BY <1>1, <1>2, <1>3 DEF Inv

\* A review commits: the stored status becomes the outcome of its decision.
LEMMA ReviewCommitStep ==
  ASSUME Inv, NEW r \in Reviewers, ReviewCommit(r)
  PROVE  /\ Inv'
         /\ \A b \in Batches : status[b] = "exported" =>
              status'[b] = "exported" /\ decisions'[b] = decisions[b]
<1> DEFINE b == review[r].batch
           d == review[r].decision
<1>1. b \in Batches /\ Owns(r) /\ d \in Decision /\ decisions[b] \in Seq(Decision)
  BY DEF ReviewCommit, Inv, TypeOK, ReviewInv, Owns
<1>2. status' = [status EXCEPT ![b] = Outcome(d)]
  BY <1>1 DEF ReviewCommit, Owns, Flushed
<1>3. decisions' = [decisions EXCEPT ![b] = Append(decisions[b], d)]
  BY DEF ReviewCommit
<1>4. \A c \in Batches : /\ decisions'[c] \in Seq(Decision)
                         /\ Approvals(c) \subseteq Approvals(c)'
  <2> SUFFICES ASSUME NEW c \in Batches
               PROVE  decisions'[c] \in Seq(Decision) /\ Approvals(c) \subseteq Approvals(c)'
    OBVIOUS
  <2>1. CASE c = b
    BY <1>1, <1>3, <2>1, AppendDecision DEF Approvals, Inv, TypeOK
  <2>2. CASE c # b
    BY <1>3, <2>2 DEF Approvals, Inv, TypeOK
  <2> QED BY <2>1, <2>2
<1>5. Outcome(d) \in {"approved", "rejected"} /\ Outcome(d) \in BatchStatus
  BY DEF Outcome, BatchStatus, Reviewable
<1>6. EndReview(r) /\ UNCHANGED <<exports, export>>
  BY DEF ReviewCommit
<1>7. TypeOK'
  <2>1. status' \in [Batches -> BatchStatus] /\ decisions' \in [Batches -> Seq(Decision)]
    BY <1>1, <1>2, <1>3, <1>4, <1>5 DEF Inv, TypeOK
  <2> QED BY <2>1, <1>6, EndReviewTypes DEF Inv, TypeOK, ReviewType
<1>8. ReviewInv'
  <2>1. \A q \in Reviewers \ {r} : review[q].batch # None =>
          status'[review[q].batch] = status[review[q].batch]
    <3> SUFFICES ASSUME NEW q \in Reviewers \ {r}, review[q].batch # None
                 PROVE  status'[review[q].batch] = status[review[q].batch]
      OBVIOUS
    <3>1. Owns(q) /\ review[q].batch \in Batches
      BY DEF Inv, ReviewInv, TypeOK
    <3>2. review[q].batch # b
      BY <3>1, <1>1 DEF Owns
    <3> QED BY <3>1, <3>2, <1>2 DEF Inv, TypeOK
  <2> QED BY <2>1, <1>6, EndReviewInv
<1>9. CiteInv'
  <2> SUFFICES ASSUME NEW e \in Exporters, export'[e].cited # 0
               PROVE  Cites(e)'
    BY DEF CiteInv
  <2>1. /\ Exporting(e) /\ export[e].cited \in Approvals(Head(export[e].todo))
        /\ Head(export[e].todo) \in Batches
    BY <1>6 DEF Inv, CiteInv, Cites, TypeOK, Exporting
  <2>2. Approvals(Head(export[e].todo)) \subseteq Approvals(Head(export[e].todo))'
    BY <2>1, <1>4, <1>6 DEF Approvals
  <2> QED BY <2>1, <2>2, <1>6 DEF Cites, Exporting, Approvals
<1>10. StatusFollowsDecisions'
  <2> SUFFICES ASSUME NEW c \in Batches
               PROVE  /\ status'[c] \in {"running", "review_pending", "failed"}
                           <=> decisions'[c] = <<>>
                      /\ status'[c] \in {"approved", "rejected"} =>
                           status'[c] = Outcome(decisions'[c][Len(decisions'[c])])
    BY DEF StatusFollowsDecisions, LastDecision
  <2>1. CASE c = b
    <3>1. status'[c] = Outcome(d) /\ decisions'[c] = Append(decisions[b], d)
      BY <1>2, <1>3, <2>1, <1>1 DEF Inv, TypeOK
    <3>2. decisions'[c] # <<>> /\ decisions'[c][Len(decisions'[c])] = d
      BY <3>1, <1>1, AppendDecision
    <3> QED BY <3>1, <3>2, <1>5
  <2>2. CASE c # b
    BY <2>2, <1>2, <1>3 DEF Inv, TypeOK, StatusFollowsDecisions, LastDecision
  <2> QED BY <2>1, <2>2
<1>11. CitesApproval'
  BY <1>4, <1>6 DEF Inv, CitesApproval, TypeOK
<1>12. \A c \in Batches : status[c] = "exported" =>
         status'[c] = "exported" /\ decisions'[c] = decisions[c]
  BY <1>1, <1>2, <1>3 DEF Owns, Reviewable, Inv, TypeOK
<1> QED BY <1>7, <1>8, <1>9, <1>10, <1>11, <1>12 DEF Inv

\* A review is given up: the row is as it was.
LEMMA ReviewFailsStep ==
  ASSUME Inv, NEW r \in Reviewers, ReviewFails(r)
  PROVE  Inv'
<1>1. TypeOK'
  BY EndReviewTypes DEF ReviewFails, Inv, TypeOK, ReviewType
<1>2. ReviewInv'
  BY EndReviewInv DEF ReviewFails
<1>3. CiteInv' /\ StatusFollowsDecisions' /\ CitesApproval'
  BY DEF Inv, CiteInv, Cites, StatusFollowsDecisions, CitesApproval, ReviewFails,
         Exporting, Approvals, LastDecision
<1> QED BY <1>1, <1>2, <1>3 DEF Inv

-----------------------------------------------------------------------------
\* An export cites the newest approval it finds.
LEMMA CiteStep ==
  ASSUME Inv, NEW e \in Exporters, Cite(e)
  PROVE  Inv'
<1>1. PICK i \in 1..Len(decisions[Head(export[e].todo)]) :
        /\ LatestApproval(Head(export[e].todo), i)
        /\ export' = [export EXCEPT ![e].cited = i]
  BY DEF Cite
<1> DEFINE x == [export[e] EXCEPT !.cited = i]
<1>2. Head(export[e].todo) \in Batches /\ export[e] \in ExportType
  BY DEF Inv, TypeOK, ExportType, Cite, Exporting
<1>3. i \in Nat
  BY <1>2 DEF Inv, TypeOK
<1>4. x \in ExportType /\ x.todo = export[e].todo /\ x.cited = i
  BY <1>2, <1>3 DEF ExportType
<1>5. export' = [export EXCEPT ![e] = x]
  BY <1>1
<1>6. x.todo # <<>> /\ x.cited \in Approvals(Head(x.todo))
  BY <1>1, <1>4 DEF LatestApproval, Cite, Exporting
<1> HIDE DEF x
<1> QED BY <1>4, <1>5, <1>6, BookkeepingStep DEF Cite

\* An export commits: its batch has an approval and becomes exported.
LEMMA ExportCommitStep ==
  ASSUME Inv, NEW e \in Exporters, ExportCommit(e)
  PROVE  /\ Inv'
         /\ \A b \in Batches : status[b] = "exported" =>
              status'[b] = "exported" /\ decisions'[b] = decisions[b]
<1> DEFINE b == Head(export[e].todo)
           left == Tail(export[e].todo)
           next == [export[e] EXCEPT !.todo = left, !.cited = 0, !.loaded[b] = "exported"]
<1>1. /\ b \in Batches /\ left \in Seq(Batches) /\ export[e] \in ExportType
      /\ export[e].cited \in Approvals(b) /\ lock[b] = None
  BY DEF ExportCommit, Inv, TypeOK, CiteInv, Cites, Exporting, ExportType
<1>2. next \in ExportType /\ next.cited = 0
  BY <1>1 DEF ExportType, BatchStatus, Exportable
<1>3. PICK x \in ExportType : x.cited = 0 /\ export' = [export EXCEPT ![e] = x]
  BY <1>2, IdleTypes DEF ExportCommit, EndExport
<1>4. status' = status \/ status' = [status EXCEPT ![b] = "exported"]
  BY DEF ExportCommit
<1>5. /\ exports' = exports \union {[batch |-> b, decision |-> export[e].cited]}
      /\ UNCHANGED <<decisions, lock, review>>
  BY DEF ExportCommit
<1>6. TypeOK'
  <2>1. export[e].cited \in Nat
    BY <1>1 DEF ExportType
  <2>2. exports' \subseteq [batch : Batches, decision : Nat]
    BY <1>1, <1>5, <2>1 DEF Inv, TypeOK
  <2>3. export' \in [Exporters -> ExportType]
    BY <1>3 DEF Inv, TypeOK, ExportType
  <2>4. status' \in [Batches -> BatchStatus]
    BY <1>4 DEF Inv, TypeOK, BatchStatus, Exportable
  <2> QED BY <2>2, <2>3, <2>4, <1>5 DEF Inv, TypeOK, ExportType
<1>7. ReviewInv'
  <2> SUFFICES ASSUME NEW q \in Reviewers, review[q].batch # None
               PROVE  Owns(q)'
    BY <1>5 DEF ReviewInv
  <2>1. Owns(q) /\ review[q].batch \in Batches
    BY DEF Inv, ReviewInv, TypeOK
  <2>2. review[q].batch # b
    BY <2>1, <1>1, NoneAssumption DEF Owns
  <2> QED BY <2>1, <2>2, <1>4, <1>5 DEF Owns, Inv, TypeOK
<1>8. CiteInv'
  <2> SUFFICES ASSUME NEW f \in Exporters, export'[f].cited # 0
               PROVE  Cites(f)'
    BY DEF CiteInv
  <2>1. f # e /\ export'[f] = export[f]
    BY <1>3 DEF Inv, TypeOK
  <2> QED BY <2>1, <1>5 DEF Inv, CiteInv, Cites, Exporting, Approvals
<1>9. StatusFollowsDecisions'
  <2> SUFFICES ASSUME NEW c \in Batches
               PROVE  /\ status'[c] \in {"running", "review_pending", "failed"}
                           <=> decisions[c] = <<>>
                      /\ status'[c] \in {"approved", "rejected"} =>
                           status'[c] = Outcome(LastDecision(c))
    BY <1>5 DEF StatusFollowsDecisions, LastDecision
  <2>1. decisions[b] \in Seq(Decision) /\ decisions[b] # <<>>
    BY <1>1 DEF Approvals, Inv, TypeOK
  <2>2. CASE c = b /\ status' # status
    <3>1. status'[c] = "exported"
      BY <1>1, <1>4, <2>2 DEF Inv, TypeOK
    <3> QED BY <2>1, <2>2, <3>1
  <2>3. CASE c # b \/ status' = status
    BY <1>4, <2>3 DEF Inv, StatusFollowsDecisions, TypeOK
  <2> QED BY <2>2, <2>3
<1>10. CitesApproval'
  BY <1>1, <1>5 DEF Inv, CitesApproval, Approvals
<1>11. \A c \in Batches : status[c] = "exported" =>
         status'[c] = "exported" /\ decisions'[c] = decisions[c]
  BY <1>4, <1>5 DEF Inv, TypeOK
<1> QED BY <1>6, <1>7, <1>8, <1>9, <1>10, <1>11 DEF Inv

\* The other steps of an export change nothing but the export.
LEMMA ExportStep ==
  ASSUME Inv, NEW e \in Exporters,
         \/ \E b \in Batches : ExportOpen(e, b)
         \/ PlanExportOpen(e) \/ PlanDelivered(e) \/ ExportFails(e)
  PROVE  Inv' /\ UNCHANGED <<status, decisions>>
<1>1. ASSUME NEW b \in Batches, ExportOpen(e, b)
      PROVE  Inv' /\ UNCHANGED <<status, decisions>>
  <2> DEFINE x == [NoExport EXCEPT !.todo = <<b>>, !.loaded[b] = status[b]]
  <2>1. status[b] \in BatchStatus /\ <<b>> \in Seq(Batches)
    BY DEF Inv, TypeOK
  <2>2. x \in ExportType /\ x.cited = 0
    BY <2>1, IdleTypes DEF ExportType, NoExport
  <2>3. export' = [export EXCEPT ![e] = x]
    BY <1>1 DEF ExportOpen
  <2> HIDE DEF x
  <2> QED BY <1>1, <2>2, <2>3, BookkeepingStep DEF ExportOpen
<1>2. CASE PlanExportOpen(e)
  <2> DEFINE x == [plan |-> TRUE, todo |-> PlanOrder, loaded |-> status, cited |-> 0]
  <2>1. x \in ExportType /\ x.cited = 0
    BY PlanAssumption DEF ExportType, Inv, TypeOK
  <2>2. export' = [export EXCEPT ![e] = x]
    BY <1>2 DEF PlanExportOpen
  <2> HIDE DEF x
  <2> QED BY <1>2, <2>1, <2>2, BookkeepingStep DEF PlanExportOpen
<1>3. CASE PlanDelivered(e) \/ ExportFails(e)
  BY <1>3, IdleTypes, BookkeepingStep DEF PlanDelivered, ExportFails, EndExport
<1> QED BY <1>1, <1>2, <1>3

-----------------------------------------------------------------------------
\* Every step keeps the invariant and every exported batch as it is.
LEMMA NextStep ==
  ASSUME Inv, [Next]_vars
  PROVE  /\ Inv'
         /\ \A b \in Batches : status[b] = "exported" =>
              status'[b] = "exported" /\ decisions'[b] = decisions[b]
<1> DEFINE Goal == /\ Inv'
                   /\ \A b \in Batches : status[b] = "exported" =>
                        status'[b] = "exported" /\ decisions'[b] = decisions[b]
<1>1. ASSUME NEW b \in Batches, NEW passed \in BOOLEAN, Generated(b, passed) PROVE Goal
  BY <1>1, GeneratedStep DEF Generated, Inv, TypeOK
<1>2. ASSUME NEW r \in Reviewers, NEW b \in Batches, NEW d \in Decision, ReviewRead(r, b, d)
      PROVE  Goal
  BY <1>2, ReviewReadStep DEF ReviewRead
<1>3. ASSUME NEW r \in Reviewers, ReviewCommit(r) PROVE Goal
  BY <1>3, ReviewCommitStep
<1>4. ASSUME NEW r \in Reviewers, ReviewFails(r) PROVE Goal
  BY <1>4, ReviewFailsStep DEF ReviewFails
<1>5. ASSUME NEW e \in Exporters, Cite(e) PROVE Goal
  BY <1>5, CiteStep DEF Cite
<1>6. ASSUME NEW e \in Exporters, ExportCommit(e) PROVE Goal
  BY <1>6, ExportCommitStep
<1>7. ASSUME NEW e \in Exporters,
             \/ \E b \in Batches : ExportOpen(e, b)
             \/ PlanExportOpen(e) \/ PlanDelivered(e) \/ ExportFails(e)
      PROVE  Goal
  BY <1>7, ExportStep
<1>8. CASE UNCHANGED vars
  BY <1>8 DEF vars, Inv, TypeOK, ReviewInv, Owns, CiteInv, Cites, Exporting, Approvals,
              StatusFollowsDecisions, LastDecision, CitesApproval
<1> QED BY <1>1, <1>2, <1>3, <1>4, <1>5, <1>6, <1>7, <1>8 DEF Next

\* The invariant holds in every reachable state.
LEMMA Invariance == Spec => []Inv
<1>1. Inv /\ [Next]_vars => Inv'
  BY NextStep
<1> QED BY <1>1, InitInv, PTL DEF Spec

\* Every variable keeps its type, for any plan and any number of requests.
THEOREM TypeCorrect == Spec => []TypeOK
<1>1. Inv => TypeOK
  BY DEF Inv
<1> QED BY <1>1, Invariance, PTL

\* The status of a reviewed batch is the outcome of the last decision on it.
THEOREM StatusCorrect == Spec => []StatusFollowsDecisions
<1>1. Inv => StatusFollowsDecisions
  BY DEF Inv
<1> QED BY <1>1, Invariance, PTL

\* Every export cites a decision that approved its batch.
THEOREM CitationCorrect == Spec => []CitesApproval
<1>1. Inv => CitesApproval
  BY DEF Inv
<1> QED BY <1>1, Invariance, PTL

\* No review changes an exported batch, whatever it loaded before.
THEOREM ExportFinal == Spec => ExportIsFinal
<1>1. Inv /\ [Next]_vars =>
        [\A b \in Batches : status[b] = "exported"
           => status'[b] = "exported" /\ decisions'[b] = decisions[b]]_vars
  BY NextStep
<1> QED BY <1>1, Invariance, PTL DEF Spec, ExportIsFinal
=============================================================================
