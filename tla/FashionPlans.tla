---------------------------- MODULE FashionPlans ----------------------------
(***************************************************************************)
(* Pictures of people: talent/service.py (profiles of models and their     *)
(* authorizations), fashion/compiler.py, fashion/service.py, the           *)
(* authorization test of worker/executor.py, fashion/evidence.py, and what *)
(* clone_batch makes of a fashion batch.  One product, whose references,   *)
(* like those of the models, are named by their views.                     *)
(*                                                                         *)
(* Authorizations lapse: days pass between any two steps of a batch.       *)
(***************************************************************************)
EXTENDS Naturals, Sequences, FiniteSets, SequencesExt

CONSTANTS
  Profiles,      \* model profiles
  Requested,     \* lists of outputs a request may ask for
  ProductViews,  \* sets of views the product may have references for, to begin with
  Types, Statuses, Views,   \* what a new profile may be, and the views of references
  None,
  LastDay, MaxBatches       \* bounds

VARIABLES
  today,
  profiles,      \* model_profiles
  productViews,  \* views of the product's references
  modelViews,    \* views of a profile's references
  batches        \* generation_batches of fashion plans and their copies, in commit order

vars == <<today, profiles, productViews, modelViews, batches>>

Modes == {"strict", "creative"}

\* _OUTPUT_RULES: the views that make an output possible, of product and model.
OutputRules ==
  [product_front |-> [product |-> {"front"}, model |-> {}],
   model_front |-> [product |-> {"front"}, model |-> {"front", "full_body"}],
   model_side |-> [product |-> {"side"}, model |-> {"side", "full_body"}],
   model_back |-> [product |-> {"back"}, model |-> {"back", "full_body"}],
   detail |-> [product |-> {"detail", "front"}, model |-> {}],
   virtual_try_on |-> [product |-> {"front"}, model |-> {"front", "full_body"}]]

Profile == [type : Types, status : Statuses, expires : (0..LastDay) \union {None}]

ASSUME FashionAssumption ==
  /\ Requested \subseteq Seq(DOMAIN OutputRules)
  /\ Types \subseteq {"system_virtual", "brand_authorized"}
  /\ Statuses \subseteq {"not_required", "valid", "expired"}
  /\ {LastDay, MaxBatches} \subseteq Nat
  /\ \A S \in ProductViews : S \subseteq Views
  /\ None \notin Profiles \union Nat \union Profile

Created == {p \in Profiles : profiles[p] # None}

Init ==
  /\ today = 0
  /\ profiles = [p \in Profiles |-> None]
  /\ productViews \in ProductViews
  /\ modelViews = [p \in Profiles |-> {}]
  /\ batches = <<>>

NextDay ==
  /\ today < LastDay
  /\ today' = today + 1
  /\ UNCHANGED <<profiles, productViews, modelViews, batches>>

-----------------------------------------------------------------------------
(* Models and their authorization.                                         *)

\* validate_authorization.
Acceptable(profile) ==
  IF profile.type = "system_virtual"
  THEN profile.status = "not_required" /\ profile.expires = None
  ELSE /\ profile.status # "not_required" /\ profile.expires # None
       /\ profile.status = "valid" => profile.expires >= today

\* authorization_is_current, on the day it is asked; nothing sets is_active to false.
IsCurrent(profile) ==
  IF profile.type = "system_virtual" THEN profile.status = "not_required"
  ELSE profile.status = "valid" /\ profile.expires # None /\ profile.expires >= today

CreateProfile(p, profile) ==
  /\ profiles[p] = None
  /\ Acceptable(profile)
  /\ profiles' = [profiles EXCEPT ![p] = profile]
  /\ UNCHANGED <<today, productViews, modelViews, batches>>

AddModelReference(p, v) ==
  /\ p \in Created /\ v \notin modelViews[p]
  /\ modelViews' = [modelViews EXCEPT ![p] = @ \union {v}]
  /\ UNCHANGED <<today, profiles, productViews, batches>>

AddProductReference(v) ==
  /\ v \notin productViews
  /\ productViews' = productViews \union {v}
  /\ UNCHANGED <<today, profiles, modelViews, batches>>

-----------------------------------------------------------------------------
(* Plans.                                                                  *)

Covers(required, views) == required \intersect views # {}

\* Mutant: a product with references of any view lacks nothing.
LacksAny(output, views) == views = {}

Lacks(output, views) == ~Covers(OutputRules[output].product, views)

\* compile_fashion_plan: outputs are distinct, the model can be shown, and in
\* strict mode the product has a reference of the view.
Compilable(wanted, cited, models, mode) ==
  /\ IsInjective(wanted)
  /\ \A output \in Range(wanted) :
       /\ OutputRules[output].model # {} => Covers(OutputRules[output].model, models)
       /\ mode = "strict" => ~Lacks(output, cited)

Batch(p, output, mode) ==
  [planned |-> TRUE, profile |-> p, output |-> output, mode |-> mode,
   cited |-> productViews, models |-> modelViews[p], person |-> p,
   inferred |-> Lacks(output, productViews), source |-> 0, status |-> "queued", delivered |-> None]

\* create_fashion_plan: every output becomes a batch, in one transaction.
CreatePlan(p, wanted, mode) ==
  /\ p \in Created /\ IsCurrent(profiles[p])
  /\ Len(batches) + Len(wanted) <= MaxBatches
  /\ Compilable(wanted, productViews, modelViews[p], mode)
  /\ batches' = batches \o [n \in DOMAIN wanted |-> Batch(p, wanted[n], mode)]
  /\ UNCHANGED <<today, profiles, productViews, modelViews>>

\* clone_batch: the copy keeps the snapshot, with the references of the model,
\* and neither the profile nor the plan.  Reviews are not in this module: what is
\* rejected and retried is a duplicate here.
Clone(n, retry) ==
  /\ Len(batches) < MaxBatches
  /\ retry => batches[n].status = "failed"
  /\ batches' = Append(batches, [batches[n] EXCEPT !.planned = FALSE, !.profile = None,
                         !.source = n, !.status = "queued", !.delivered = None])
  /\ UNCHANGED <<today, profiles, productViews, modelViews>>

-----------------------------------------------------------------------------
(* The worker.                                                             *)

Become(n, status) ==
  /\ batches' = [batches EXCEPT ![n].status = status,
                   ![n].delivered = IF status = "review_pending" THEN today ELSE @]
  /\ UNCHANGED <<today, profiles, productViews, modelViews>>

\* Before the provider is called the authorization is tested again, by the
\* profile the batch names.
Authorize(n) ==
  /\ batches[n].status = "queued"
  /\ LET p == batches[n].profile
     IN Become(n, IF p = None \/ IsCurrent(profiles[p]) THEN "calling" ELSE "failed")

\* The provider does not answer: the step is retried, and authorized again, or given up.
Retry(n) == batches[n].status = "calling" /\ Become(n, "queued")
GiveUp(n) == batches[n].status = "calling" /\ Become(n, "failed")

\* The checks of create_fashion_evidence on the references a batch cites.
ReferencesSatisfied(b) ==
  /\ Covers(OutputRules[b.output].product, b.cited) \/ b.inferred
  /\ OutputRules[b.output].model # {} => Covers(OutputRules[b.output].model, b.models)
  /\ b.inferred => b.mode = "creative"

\* Mutant: the evidence trusts the test made before the call.
EvidenceTrusting(b, fits) == ReferencesSatisfied(b) /\ fits

Evidence(b, fits) == ReferencesSatisfied(b) /\ IsCurrent(profiles[b.profile]) /\ fits

\* The picture arrives.  Only a batch of a plan gets evidence.
Deliver(n, fits) ==
  /\ batches[n].status = "calling"
  /\ Become(n, IF batches[n].planned => Evidence(batches[n], fits) THEN "review_pending" ELSE "failed")

Next ==
  \/ NextDay
  \/ \E p \in Profiles : \/ \E profile \in Profile : CreateProfile(p, profile)
                         \/ \E v \in Views : AddModelReference(p, v)
                         \/ \E wanted \in Requested, mode \in Modes : CreatePlan(p, wanted, mode)
  \/ \E v \in Views : AddProductReference(v)
  \/ \E n \in DOMAIN batches : \/ \E retry \in BOOLEAN : Clone(n, retry)
                               \/ Authorize(n) \/ Retry(n) \/ GiveUp(n)
                               \/ \E fits \in BOOLEAN : Deliver(n, fits)

Spec == Init /\ [][Next]_vars

-----------------------------------------------------------------------------
(* Properties.                                                             *)

\* Type correctness.
TypeOK ==
  /\ today \in 0..LastDay
  /\ \A p \in Created : profiles[p] \in Profile
  /\ productViews \subseteq Views /\ modelViews \in [Profiles -> SUBSET Views]
  /\ \A n \in DOMAIN batches :
       /\ batches[n].status \in {"queued", "calling", "review_pending", "failed"}
       /\ batches[n].planned <=> batches[n].profile \in Created
       /\ batches[n].status = "review_pending" <=> batches[n].delivered \in 0..today

AuthorizedOn(profile, day) ==
  profile.type = "brand_authorized" => profile.status = "valid" /\ day <= profile.expires

\* A picture of a fashion plan reaches a reviewer only if the person in it was
\* authorized on the day it arrived, however long it waited and was retried.
DeliveredUnderAuthorization ==
  \A n \in DOMAIN batches : batches[n].planned /\ batches[n].status = "review_pending" =>
    AuthorizedOn(profiles[batches[n].profile], batches[n].delivered)

\* The same for every picture made from the references of a person.
PeopleAreAuthorized ==
  \A n \in DOMAIN batches : batches[n].models # {} /\ batches[n].status = "review_pending" =>
    AuthorizedOn(profiles[batches[n].person], batches[n].delivered)

\* What the compiler lets through satisfies the evidence: no picture is paid for
\* that its references were bound to fail, in a plan or in a copy.
CompiledIsProvable == \A n \in DOMAIN batches : ReferencesSatisfied(batches[n])

\* Strict pictures, copies included, come from a reference of the view they show.
StrictShowsTheView ==
  \A n \in DOMAIN batches : batches[n].mode = "strict" =>
    OutputRules[batches[n].output].product \intersect batches[n].cited # {}
=============================================================================
