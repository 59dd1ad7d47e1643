------------------------------ MODULE Catalog -------------------------------
(***************************************************************************)
(* What plans are compiled from: products with their references and truth  *)
(* anchors (catalog/service.py, catalog/router.py), and template packs     *)
(* with their versions (the first half of templates/service.py).           *)
(*                                                                         *)
(* A request reads, and writes with the commit at its end; other requests  *)
(* may commit between.  A version number is the greatest one read, plus    *)
(* one: nothing but the unique constraint of the table stands between two  *)
(* requests that have read the same.                                       *)
(***************************************************************************)
EXTENDS Naturals, Sequences

CONSTANTS
  Requests, Skus, Slugs,
  Presets,      \* the slugs of templates/presets.py
  Categories,
  Pictures,     \* references of a product: a picture for a view
  Rules,        \* rules a user may write
  MaxVersions   \* bound: versions of a product or a pack

ASSUME CatalogAssumption ==
  Presets \subseteq Slugs /\ MaxVersions \in Nat /\ "preset" \notin Rules

VARIABLES
  product,     \* the state and the category of a SKU
  references,  \* the pictures of a SKU
  anchors,     \* truth anchors of a SKU by version: the pictures analyzed, none when written by hand
  versions,    \* versions of a pack by number
  request      \* what a request has read, and asks

vars == <<product, references, anchors, versions, request>>
products == <<product, references, anchors>>

None == "none"
Idle == [kind |-> "idle"]

\* The rows of a table that is unique in the version, by version.
Newest(rows) == CHOOSE n \in DOMAIN rows \union {0} : \A v \in DOMAIN rows : v <= n

NextVersion(rows) == Newest(rows) + 1

Inserted(rows, v, d) == [n \in DOMAIN rows \union {v} |-> IF n = v THEN d ELSE rows[n]]

\* Mutant: the table has no unique constraint, and the last writer's row is read.
FreeAlways(rows, v) == TRUE

\* The unique constraint.
Free(rows, v) == v \notin DOMAIN rows

FirstVersion == 1

Init ==
  /\ product = [k \in Skus |-> [state |-> None, category |-> None]]
  /\ references = [k \in Skus |-> {}]
  /\ anchors = [k \in Skus |-> <<>>]
  /\ versions = [s \in Slugs |-> <<>>]
  /\ request = [q \in Requests |-> Idle]

Read(q, asked) ==
  /\ request[q] = Idle
  /\ request' = [request EXCEPT ![q] = asked]
  /\ UNCHANGED <<products, versions>>

Done(q) == request' = [request EXCEPT ![q] = Idle]

\* An IntegrityError: the transaction is rolled back.
Rejected(q) == Done(q) /\ UNCHANGED <<products, versions>>

-----------------------------------------------------------------------------
(* Products.                                                               *)

CreateRead(q, k, c) ==
  /\ product[k].state = None
  /\ Read(q, [kind |-> "create", key |-> k, category |-> c])

\* The product and its first, empty, truth anchor in one transaction.
CreateCommit(q) ==
  /\ request[q].kind = "create"
  /\ LET k == request[q].key IN
     IF product[k].state = None
     THEN /\ product' = [product EXCEPT ![k] = [state |-> "live", category |-> request[q].category]]
          /\ anchors' = [anchors EXCEPT ![k] = Inserted(@, FirstVersion, {})]
          /\ Done(q) /\ UNCHANGED <<references, versions>>
     ELSE Rejected(q)

\* update_product and archive_product of one that was live when read.
ChangeRead(q, k, kind, c) ==
  /\ product[k].state = "live"
  /\ Read(q, [kind |-> kind, key |-> k, category |-> c])

ChangeCommit(q) ==
  /\ request[q].kind \in {"update", "archive"}
  /\ product' = [product EXCEPT ![request[q].key] =
       IF request[q].kind = "update" THEN [@ EXCEPT !.category = request[q].category]
       ELSE [@ EXCEPT !.state = "archived"]]
  /\ Done(q) /\ UNCHANGED <<references, anchors, versions>>

\* add_reference, which an archived product does not refuse.
AddReference(k, p) ==
  /\ product[k].state # None /\ p \notin references[k]
  /\ references' = [references EXCEPT ![k] = @ \union {p}]
  /\ UNCHANGED <<product, anchors, versions, request>>

\* A document written by hand: the number is read at once.
AnchorRead(q, k) ==
  /\ product[k].state = "live"
  /\ NextVersion(anchors[k]) <= MaxVersions
  /\ Read(q, [kind |-> "anchor", key |-> k, document |-> {}, version |-> NextVersion(anchors[k])])

Analyzed(k) == references[k]

\* An analysis reads the references, then their pictures, then the number.
AnalyzeRead(q, k) ==
  /\ product[k].state = "live" /\ Analyzed(k) # {}
  /\ Read(q, [kind |-> "analysis", key |-> k, document |-> Analyzed(k)])

AnalyzeNumber(q) ==
  /\ request[q].kind = "analysis"
  /\ LET k == request[q].key IN
     /\ NextVersion(anchors[k]) <= MaxVersions
     /\ request' = [request EXCEPT ![q] = [kind |-> "anchor", key |-> k,
          document |-> request[q].document, version |-> NextVersion(anchors[k])]]
  /\ UNCHANGED <<products, versions>>

AnchorCommit(q) ==
  /\ request[q].kind = "anchor"
  /\ LET k == request[q].key
         v == request[q].version IN
     IF Free(anchors[k], v)
     THEN /\ anchors' = [anchors EXCEPT ![k] = Inserted(@, v, request[q].document)]
          /\ Done(q) /\ UNCHANGED <<product, references, versions>>
     ELSE Rejected(q)

-----------------------------------------------------------------------------
(* Template packs.  A pack exists with its first version.                  *)

Version(status, rules) == [status |-> status, rules |-> rules]

Exists(s) == versions[s] # <<>>

\* ensure_first_party_packs, before every list of packs and every plan.
SeedRead(q) == Read(q, [kind |-> "seed", existing |-> {s \in Slugs : Exists(s)}])

\* The presets one commit adds: all that were missing, or none.
Seeded(missing) == IF \E s \in missing : Exists(s) THEN {} ELSE missing

\* Mutant: the commit is inside of the loop.
SeedCommitInLoop(q) ==
  /\ request[q].kind = "seed"
  /\ LET missing == {s \in Presets \ request[q].existing : ~Exists(s)} IN
     IF missing = {} THEN Rejected(q)
     ELSE /\ versions' = [versions EXCEPT ![CHOOSE s \in missing : TRUE] = <<Version("published", "preset")>>]
          /\ UNCHANGED <<products, request>>

SeedCommit(q) ==
  /\ request[q].kind = "seed"
  /\ LET new == Seeded(Presets \ request[q].existing) IN
     versions' = [s \in Slugs |-> IF s \in new THEN <<Version("published", "preset")>> ELSE versions[s]]
  /\ Done(q) /\ UNCHANGED products

CreatePack(s, r) ==
  /\ ~Exists(s)
  /\ versions' = [versions EXCEPT ![s] = Inserted(@, FirstVersion, Version("draft", r))]
  /\ UNCHANGED <<products, request>>

\* create_pack_version, with new rules or those of a version of the pack.
VersionRead(q, s, r) ==
  /\ Exists(s)
  /\ r \in Rules \union {versions[s][v].rules : v \in DOMAIN versions[s]}
  /\ NextVersion(versions[s]) <= MaxVersions
  /\ Read(q, [kind |-> "version", key |-> s, rules |-> r, version |-> NextVersion(versions[s])])

VersionCommit(q) ==
  /\ request[q].kind = "version"
  /\ LET s == request[q].key
         v == request[q].version IN
     IF Free(versions[s], v)
     THEN /\ versions' = [versions EXCEPT ![s] = Inserted(@, v, Version("draft", request[q].rules))]
          /\ Done(q) /\ UNCHANGED products
     ELSE Rejected(q)

PublishRead(q, s, v) ==
  /\ v \in DOMAIN versions[s] /\ versions[s][v].status = "draft"
  /\ Read(q, [kind |-> "publish", key |-> s, version |-> v])

PublishCommit(q) ==
  /\ request[q].kind = "publish"
  /\ versions' = [versions EXCEPT ![request[q].key][request[q].version].status = "published"]
  /\ Done(q) /\ UNCHANGED products

-----------------------------------------------------------------------------
ProductNext ==
  \/ \E q \in Requests : CreateCommit(q) \/ ChangeCommit(q) \/ AnalyzeNumber(q) \/ AnchorCommit(q)
  \/ \E k \in Skus, p \in Pictures : AddReference(k, p)
  \/ \E q \in Requests, k \in Skus :
       \/ AnchorRead(q, k) \/ AnalyzeRead(q, k)
       \/ \E c \in Categories : \/ CreateRead(q, k, c)
                                \/ ChangeRead(q, k, "update", c) \/ ChangeRead(q, k, "archive", c)

PackNext ==
  \/ \E q \in Requests : SeedRead(q) \/ SeedCommit(q) \/ VersionCommit(q) \/ PublishCommit(q)
  \/ \E s \in Slugs, r \in Rules : CreatePack(s, r)
  \/ \E q \in Requests, s \in Slugs : \/ \E r \in Rules \union {"preset"} : VersionRead(q, s, r)
                                      \/ \E v \in 1..MaxVersions : PublishRead(q, s, v)

Next == ProductNext \/ PackNext

Spec == Init /\ [][Next]_vars

-----------------------------------------------------------------------------
(* Properties.                                                             *)

\* Type correctness; a product is never without a truth anchor, and a request holds
\* at most the number after the newest: a number is only ever lost to somebody.
TypeOK ==
  /\ \A k \in Skus : product[k].state \in {None, "live", "archived"} /\ references[k] \subseteq Pictures
  /\ \A k \in Skus : product[k].state # None => 1 \in DOMAIN anchors[k]
  /\ \A q \in Requests :
       /\ request[q].kind = "anchor" => request[q].version <= NextVersion(anchors[request[q].key])
       /\ request[q].kind = "version" => request[q].version <= NextVersion(versions[request[q].key])

\* The truth anchors of the products are logs: no two requests that have read the same
\* number both keep it, and no anchor is rewritten (unique constraint of truth_anchors).
AnchorLog == INSTANCE VersionLog WITH
  log <- anchors, Things <- Skus, Documents <- SUBSET Pictures
AnchorsAreLogs == AnchorLog!Spec

\* So are the rules of the versions of template packs: publishing changes no rule, and
\* a plan that names a version can be compiled from the same rules again.
PackLog == INSTANCE VersionLog WITH
  log <- [s \in Slugs |-> [v \in DOMAIN versions[s] |-> versions[s][v].rules]],
  Things <- Slugs, Documents <- Rules \union {"preset"}
RulesAreLogs == PackLog!Spec

\* Presets come together: where one of them has its first-party rules every other one
\* has a pack, though lists of packs race each other and users take slugs.
SeedIsWhole ==
  (\E s \in Presets : Exists(s) /\ versions[s][1].rules = "preset") => \A s \in Presets : Exists(s)

\* An analysis is of pictures of its own product, and there is one.
AnalysesShowReferences ==
  \A k \in Skus : \A v \in DOMAIN anchors[k] : anchors[k][v] \subseteq references[k]
=============================================================================
