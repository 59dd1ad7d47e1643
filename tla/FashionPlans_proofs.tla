------------------------ MODULE FashionPlans_proofs -------------------------
(***************************************************************************)
(* Proofs about FashionPlans for any profiles, requests, days and batches. *)
(*                                                                         *)
(* What a batch of a plan shows was authorized on the day it arrived,      *)
(* because the evidence is made in the step in which the picture arrives,  *)
(* and profiles are never changed.  That the references suffice is a       *)
(* matter of the compiler alone: a batch keeps what it cites.              *)
(***************************************************************************)
EXTENDS FashionPlans, SequenceTheorems, TLAPS

Output == DOMAIN OutputRules

BatchType ==
  [planned : BOOLEAN, profile : Profiles \union {None}, output : Output, mode : Modes,
   cited : SUBSET Views, models : SUBSET Views, person : Profiles, inferred : BOOLEAN,
   source : Nat, status : {"queued", "calling", "review_pending", "failed"},
   delivered : Nat \union {None}]

Typed ==
  /\ today \in 0..LastDay
  /\ profiles \in [Profiles -> Profile \union {None}]
  /\ productViews \subseteq Views /\ modelViews \in [Profiles -> SUBSET Views]
  /\ batches \in Seq(BatchType)

\* A batch of its own: what is true of it whatever the others are.
Sound(b) ==
  /\ IF b.planned THEN b.profile \in Created ELSE b.profile = None
  /\ IF b.status = "review_pending" THEN b.delivered \in 0..today ELSE b.delivered = None
  /\ b.planned /\ b.status = "review_pending" => AuthorizedOn(profiles[b.profile], b.delivered)
  /\ ReferencesSatisfied(b)
  /\ b.mode = "strict" => OutputRules[b.output].product \intersect b.cited # {}

Inv == Typed /\ \A n \in DOMAIN batches : Sound(batches[n])

LEMMA ConstantTypes ==
  /\ LastDay \in Nat /\ Requested \subseteq Seq(Output)
  /\ None \notin Profiles \union Nat \union Profile
BY FashionAssumption DEF FashionAssumption, Output

\* What is true of a batch stays true: days pass, and no profile is changed.
LEMMA SoundOn ==
  ASSUME Inv, Typed', NEW b \in BatchType, Sound(b), today <= today',
         \A p \in Created : p \in Created' /\ profiles'[p] = profiles[p]
  PROVE  Sound(b)'
<1>1. today \in Nat /\ today' \in Nat
  BY ConstantTypes DEF Inv, Typed
<1>2. b.status = "review_pending" => b.delivered \in 0..today'
  BY <1>1 DEF Sound
<1> QED BY <1>2 DEF Sound, ReferencesSatisfied, Covers, AuthorizedOn

\* A step that changes no batch.
LEMMA BatchesStay ==
  ASSUME Inv, Typed', today <= today', UNCHANGED batches,
         \A p \in Created : p \in Created' /\ profiles'[p] = profiles[p]
  PROVE  Inv'
<1>1. ASSUME NEW n \in DOMAIN batches'
      PROVE  Sound(batches[n])'
  <2>1. batches'[n] = batches[n] /\ batches[n] \in BatchType /\ Sound(batches[n])
    BY DEF Inv, Typed
  <2> QED BY <2>1, SoundOn
<1> QED BY <1>1 DEF Inv

LEMMA InitInv == Init => Inv
<1> SUFFICES ASSUME Init PROVE Inv
  OBVIOUS
<1>1. batches = <<>> /\ <<>> \in Seq(BatchType)
  BY DEF Init
<1>2. productViews \subseteq Views
  BY FashionAssumption DEF FashionAssumption, Init
<1> QED BY <1>1, <1>2, ConstantTypes DEF Init, Inv, Typed

-----------------------------------------------------------------------------
(* Profiles, references and time.                                          *)

LEMMA ProfileInv ==
  ASSUME Inv
  PROVE  /\ NextDay => Inv'
         /\ \A p \in Profiles, profile \in Profile : CreateProfile(p, profile) => Inv'
         /\ \A p \in Profiles, v \in Views : AddModelReference(p, v) => Inv'
         /\ \A v \in Views : AddProductReference(v) => Inv'
<1>0. today \in Nat /\ LastDay \in Nat
  BY ConstantTypes DEF Inv, Typed
<1>1. ASSUME NextDay
      PROVE  Inv'
  <2>1. Typed' /\ today <= today'
    BY <1>0, <1>1 DEF NextDay, Inv, Typed
  <2> QED BY <1>1, <2>1, BatchesStay DEF NextDay, Created
<1>2. ASSUME NEW p \in Profiles, NEW profile \in Profile, CreateProfile(p, profile)
      PROVE  Inv'
  <2>1. Typed' /\ \A x \in Created : x \in Created' /\ profiles'[x] = profiles[x]
    BY <1>2 DEF CreateProfile, Inv, Typed, Created
  <2> QED BY <1>0, <1>2, <2>1, BatchesStay DEF CreateProfile
<1>3. ASSUME NEW p \in Profiles, NEW v \in Views, AddModelReference(p, v)
      PROVE  Inv'
  <2>1. Typed'
    BY <1>3 DEF AddModelReference, Inv, Typed
  <2> QED BY <1>0, <1>3, <2>1, BatchesStay DEF AddModelReference, Created
<1>4. ASSUME NEW v \in Views, AddProductReference(v)
      PROVE  Inv'
  <2>1. Typed'
    BY <1>4 DEF AddProductReference, Inv, Typed
  <2> QED BY <1>0, <1>4, <2>1, BatchesStay DEF AddProductReference, Created
<1> QED BY <1>1, <1>2, <1>3, <1>4

-----------------------------------------------------------------------------
(* New batches.                                                            *)

\* Sound batches may be added.
LEMMA BatchesAdded ==
  ASSUME Inv, NEW new \in Seq(BatchType), \A n \in DOMAIN new : Sound(new[n]),
         batches' = batches \o new, UNCHANGED <<today, profiles, productViews, modelViews>>
  PROVE  Inv'
<1>1. /\ batches \in Seq(BatchType) /\ DOMAIN batches = 1..Len(batches) /\ Len(batches) \in Nat
      /\ DOMAIN new = 1..Len(new) /\ Len(new) \in Nat
  BY DEF Inv, Typed
<1>2. /\ batches' \in Seq(BatchType) /\ DOMAIN batches' = 1..(Len(batches) + Len(new))
      /\ \A n \in 1..(Len(batches) + Len(new)) :
           batches'[n] = IF n <= Len(batches) THEN batches[n] ELSE new[n - Len(batches)]
  BY <1>1
<1>3. ASSUME NEW n \in DOMAIN batches'
      PROVE  Sound(batches'[n])
  <2>1. CASE n <= Len(batches)
    <3>1. n \in DOMAIN batches /\ batches'[n] = batches[n]
      BY <1>1, <1>2, <2>1
    <3> QED BY <3>1 DEF Inv
  <2>2. CASE n > Len(batches)
    <3>1. n - Len(batches) \in DOMAIN new /\ batches'[n] = new[n - Len(batches)]
      BY <1>1, <1>2, <2>2
    <3> QED BY <3>1
  <2> QED BY <1>1, <1>2, <2>1, <2>2
<1>4. \A n \in DOMAIN batches' : Sound(batches[n])'
  BY <1>3 DEF Sound, Created, AuthorizedOn
<1> QED BY <1>2, <1>4 DEF Inv, Typed

\* What the compiler lets through is sound.
LEMMA CompiledSound ==
  ASSUME Inv, NEW p \in Created, NEW mode \in Modes, NEW wanted \in Seq(Output),
         Compilable(wanted, productViews, modelViews[p], mode), NEW n \in DOMAIN wanted
  PROVE  Batch(p, wanted[n], mode) \in BatchType /\ Sound(Batch(p, wanted[n], mode))
<1> DEFINE output == wanted[n]
           b == Batch(p, output, mode)
<1>1. output \in Output /\ output \in Range(wanted) /\ p \in Profiles
  BY DEF Range, Created
<1>2. /\ OutputRules[output].model # {} => Covers(OutputRules[output].model, modelViews[p])
      /\ mode = "strict" => ~Lacks(output, productViews)
  BY <1>1 DEF Compilable
<1>3. productViews \subseteq Views /\ modelViews[p] \subseteq Views /\ Lacks(output, productViews) \in BOOLEAN
  BY <1>1 DEF Inv, Typed, Lacks
<1> HIDE DEF output
<1>4. b \in BatchType
  BY <1>1, <1>3 DEF Batch, BatchType
<1>5. b.inferred => mode = "creative"
  BY <1>2 DEF Batch, Modes
<1>6. ReferencesSatisfied(b)
  BY <1>2, <1>5 DEF Batch, ReferencesSatisfied, Lacks
<1>7. Sound(b)
  BY <1>2, <1>6 DEF Sound, Batch, Lacks, Covers
<1> QED BY <1>4, <1>7 DEF output

LEMMA CreatePlanInv ==
  ASSUME Inv, NEW p \in Profiles, NEW wanted \in Requested, NEW mode \in Modes, CreatePlan(p, wanted, mode)
  PROVE  Inv'
<1> DEFINE new == [n \in DOMAIN wanted |-> Batch(p, wanted[n], mode)]
<1>1. wanted \in Seq(Output) /\ p \in Created /\ Compilable(wanted, productViews, modelViews[p], mode)
  BY ConstantTypes DEF CreatePlan
<1>2. \A n \in DOMAIN wanted : Batch(p, wanted[n], mode) \in BatchType /\ Sound(Batch(p, wanted[n], mode))
  BY <1>1, CompiledSound
<1>3. DOMAIN new = DOMAIN wanted /\ \A n \in DOMAIN wanted : new[n] = Batch(p, wanted[n], mode)
  OBVIOUS
<1>4. batches' = batches \o new /\ UNCHANGED <<today, profiles, productViews, modelViews>>
  BY DEF CreatePlan
<1>5. new \in Seq(BatchType)
  <2>1. DOMAIN wanted = 1..Len(wanted) /\ Len(wanted) \in Nat
    BY <1>1
  <2>2. new \in [1..Len(wanted) -> BatchType]
    BY <1>2, <2>1
  <2> HIDE DEF new
  <2> QED BY <2>1, <2>2
<1> HIDE DEF new
<1> QED BY <1>2, <1>3, <1>4, <1>5, BatchesAdded

LEMMA CloneInv ==
  ASSUME Inv, NEW n \in DOMAIN batches, NEW retry \in BOOLEAN, Clone(n, retry)
  PROVE  Inv'
<1> DEFINE copy == [batches[n] EXCEPT !.planned = FALSE, !.profile = None,
                      !.source = n, !.status = "queued", !.delivered = None]
<1>1. batches[n] \in BatchType /\ n \in Nat /\ batches \in Seq(BatchType)
  BY DEF Inv, Typed
<1>2. copy \in BatchType
  BY <1>1 DEF BatchType
<1>3. Sound(copy)
  BY <1>1 DEF Inv, Sound, ReferencesSatisfied, BatchType
<1>4. batches' = Append(batches, copy) /\ UNCHANGED <<today, profiles, productViews, modelViews>>
  BY DEF Clone
<1> HIDE DEF copy
<1>5. Append(batches, copy) = batches \o <<copy>> /\ <<copy>> \in Seq(BatchType)
  BY <1>1, <1>2, AppendIsConcat
<1>6. \A m \in DOMAIN <<copy>> : Sound(<<copy>>[m])
  <2>1. DOMAIN <<copy>> = {1} /\ <<copy>>[1] = copy
    OBVIOUS
  <2> QED BY <1>3, <2>1
<1> QED BY <1>4, <1>5, <1>6, BatchesAdded

-----------------------------------------------------------------------------
(* The worker.                                                             *)

\* A batch that is no delivered one becomes what it may become.
LEMMA BecomeInv ==
  ASSUME Inv, NEW n \in DOMAIN batches, NEW status \in {"queued", "calling", "review_pending", "failed"},
         batches[n].status # "review_pending", Become(n, status),
         status = "review_pending" /\ batches[n].planned => IsCurrent(profiles[batches[n].profile])
  PROVE  Inv'
<1> DEFINE old == batches[n]
           new == [old EXCEPT !.status = status,
                     !.delivered = IF status = "review_pending" THEN today ELSE old.delivered]
<1>1. /\ batches \in Seq(BatchType) /\ old \in BatchType /\ Sound(old)
      /\ today \in Nat /\ DOMAIN batches = 1..Len(batches)
  BY ConstantTypes DEF Inv, Typed
<1>2. new \in BatchType
  BY <1>1 DEF BatchType
<1>3. Sound(new)
  <2>1. /\ new.planned = old.planned /\ new.profile = old.profile /\ new.output = old.output /\ new.mode = old.mode
        /\ new.cited = old.cited /\ new.models = old.models /\ new.inferred = old.inferred /\ new.status = status
        /\ new.delivered = IF status = "review_pending" THEN today ELSE old.delivered
    BY <1>1 DEF BatchType
  <2> HIDE DEF new
  <2>2. IF new.status = "review_pending" THEN new.delivered \in 0..today ELSE new.delivered = None
    BY <1>1, <2>1 DEF Sound
  <2>3. ASSUME new.planned, new.status = "review_pending"
        PROVE  AuthorizedOn(profiles[new.profile], new.delivered)
    <3>1. profiles[old.profile] \in Profile /\ IsCurrent(profiles[old.profile])
      BY <1>1, <2>1, <2>3 DEF Sound, Created, Inv, Typed
    <3>2. new.profile = old.profile /\ new.delivered = today
      BY <2>1, <2>3
    <3> HIDE DEF old
    <3>3. CASE profiles[old.profile].type = "brand_authorized"
      <4>1. /\ profiles[old.profile].status = "valid" /\ profiles[old.profile].expires # None
            /\ profiles[old.profile].expires >= today
        BY <3>1, <3>3 DEF IsCurrent
      <4>2. profiles[old.profile].expires \in Nat
        BY <3>1, <4>1, ConstantTypes DEF Profile
      <4> QED BY <1>1, <3>2, <4>1, <4>2 DEF AuthorizedOn
    <3> QED BY <3>2, <3>3 DEF AuthorizedOn
  <2> QED BY <1>1, <2>1, <2>2, <2>3 DEF Sound, ReferencesSatisfied
<1>4. batches' = [batches EXCEPT ![n] = new] /\ UNCHANGED <<today, profiles, productViews, modelViews>>
  BY DEF Become
<1> HIDE DEF new
<1>5. /\ batches' \in Seq(BatchType) /\ DOMAIN batches' = DOMAIN batches
      /\ \A m \in DOMAIN batches : batches'[m] = IF m = n THEN new ELSE batches[m]
  BY <1>1, <1>2, <1>4
<1>6. \A m \in DOMAIN batches' : Sound(batches'[m])
  BY <1>3, <1>5 DEF Inv
<1>7. \A m \in DOMAIN batches' : Sound(batches[m])'
  BY <1>4, <1>6 DEF Sound, Created, AuthorizedOn
<1> QED BY <1>4, <1>5, <1>7 DEF Inv, Typed

LEMMA WorkerInv ==
  ASSUME Inv, NEW n \in DOMAIN batches
  PROVE  /\ Authorize(n) => Inv'
         /\ Retry(n) => Inv'
         /\ GiveUp(n) => Inv'
         /\ \A fits \in BOOLEAN : Deliver(n, fits) => Inv'
<1>1. ASSUME Authorize(n)
      PROVE  Inv'
  <2> DEFINE status == IF batches[n].profile = None \/ IsCurrent(profiles[batches[n].profile])
                       THEN "calling" ELSE "failed"
  <2>1. Become(n, status) /\ batches[n].status = "queued" /\ status \in {"calling", "failed"}
    BY <1>1 DEF Authorize
  <2> HIDE DEF status
  <2> QED BY <2>1, BecomeInv
<1>2. ASSUME Retry(n)
      PROVE  Inv'
  BY <1>2, BecomeInv DEF Retry
<1>3. ASSUME GiveUp(n)
      PROVE  Inv'
  BY <1>3, BecomeInv DEF GiveUp
<1>4. ASSUME NEW fits \in BOOLEAN, Deliver(n, fits)
      PROVE  Inv'
  <2> DEFINE status == IF batches[n].planned => Evidence(batches[n], fits) THEN "review_pending" ELSE "failed"
  <2>1. /\ Become(n, status) /\ batches[n].status = "calling" /\ status \in {"review_pending", "failed"}
        /\ status = "review_pending" /\ batches[n].planned => IsCurrent(profiles[batches[n].profile])
    BY <1>4 DEF Deliver, Evidence
  <2> HIDE DEF status
  <2> QED BY <2>1, BecomeInv
<1> QED BY <1>1, <1>2, <1>3, <1>4

LEMMA NextInv == Inv /\ [Next]_vars => Inv'
<1>1. ASSUME Inv, Next
      PROVE  Inv'
  <2>1. ASSUME NEW n \in DOMAIN batches,
               \/ \E retry \in BOOLEAN : Clone(n, retry)
               \/ Authorize(n) \/ Retry(n) \/ GiveUp(n)
               \/ \E fits \in BOOLEAN : Deliver(n, fits)
        PROVE  Inv'
    BY <1>1, <2>1, CloneInv, WorkerInv
  <2>2. ASSUME NEW p \in Profiles,
               \/ \E profile \in Profile : CreateProfile(p, profile)
               \/ \E v \in Views : AddModelReference(p, v)
               \/ \E wanted \in Requested, mode \in Modes : CreatePlan(p, wanted, mode)
        PROVE  Inv'
    BY <1>1, <2>2, CreatePlanInv, ProfileInv
  <2> QED BY <1>1, <2>1, <2>2, ProfileInv DEF Next
<1>2. ASSUME Inv, UNCHANGED vars
      PROVE  Inv'
  BY <1>2 DEF vars, Inv, Typed, Sound, Created, AuthorizedOn
<1> QED BY <1>1, <1>2

LEMMA Invariant == Spec => []Inv
BY InitInv, NextInv, PTL DEF Spec

LEMMA InvTyped == Inv => TypeOK
<1> SUFFICES ASSUME Inv PROVE TypeOK
  OBVIOUS
<1>1. \A p \in Created : profiles[p] \in Profile
  BY DEF Inv, Typed, Created
<1>2. ASSUME NEW n \in DOMAIN batches
      PROVE  /\ batches[n].status \in {"queued", "calling", "review_pending", "failed"}
             /\ batches[n].planned <=> batches[n].profile \in Created
             /\ batches[n].status = "review_pending" <=> batches[n].delivered \in 0..today
  <2>1. batches[n] \in BatchType /\ Sound(batches[n]) /\ today \in Nat /\ None \notin Created
    BY ConstantTypes DEF Inv, Typed, Created
  <2>2. batches[n].status \in {"queued", "calling", "review_pending", "failed"} /\ batches[n].planned \in BOOLEAN
    BY <2>1 DEF BatchType
  <2>3. batches[n].planned <=> batches[n].profile \in Created
    BY <2>1, <2>2 DEF Sound
  <2>4. batches[n].status = "review_pending" <=> batches[n].delivered \in 0..today
    BY <2>1, ConstantTypes DEF Sound
  <2> QED BY <2>2, <2>3, <2>4
<1> QED BY <1>1, <1>2 DEF Inv, Typed, TypeOK

\* Type correctness; a delivered picture has the day it arrived on.
THEOREM TypeCorrect == Spec => []TypeOK
BY Invariant, InvTyped, PTL

\* However many days pass between the test, the call, its retries and the answer, the
\* person in a picture of a plan was authorized when it arrived (create_fashion_evidence).
THEOREM Authorized == Spec => []DeliveredUnderAuthorization
<1>1. Inv => DeliveredUnderAuthorization
  BY DEF Inv, Sound, DeliveredUnderAuthorization
<1> QED BY <1>1, Invariant, PTL

\* The compiler lets nothing through that the evidence would refuse for its references,
\* and copies keep that (compile_fashion_plan, create_fashion_evidence, clone_batch).
THEOREM Provable == Spec => []CompiledIsProvable
<1>1. Inv => CompiledIsProvable
  BY DEF Inv, Sound, CompiledIsProvable
<1> QED BY <1>1, Invariant, PTL

\* Strict pictures show a view the product has a reference of (compile_fashion_plan).
THEOREM StrictShown == Spec => []StrictShowsTheView
<1>1. Inv => StrictShowsTheView
  BY DEF Inv, Sound, StrictShowsTheView
<1> QED BY <1>1, Invariant, PTL
=============================================================================
