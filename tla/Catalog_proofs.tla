--------------------------- MODULE Catalog_proofs ---------------------------
(***************************************************************************)
(* Proofs about Catalog for any number of requests, products and packs.    *)
(*                                                                         *)
(* That versions form a log is not inductive: a commit appends only        *)
(* because the number its request took was at most one past the end when   *)
(* it was read, logs only grow, and the unique constraint refuses it if    *)
(* that place has been taken.  Held says what every request still knows.   *)
(***************************************************************************)
EXTENDS Catalog, SequenceTheorems, TLAPS

Document == SUBSET Pictures
Rule == Rules \union {"preset"}
Product == [state : {None, "live", "archived"}, category : Categories \union {None}]
VersionRow == [status : {"draft", "published"}, rules : Rule]

RequestType ==
  {Idle}
    \union [kind : {"create", "update", "archive"}, key : Skus, category : Categories \union {None}]
    \union [kind : {"analysis"}, key : Skus, document : Document]
    \union [kind : {"anchor"}, key : Skus, document : Document, version : Nat]
    \union [kind : {"seed"}, existing : SUBSET Slugs]
    \union [kind : {"version"}, key : Slugs, rules : Rule, version : Nat]
    \union [kind : {"publish"}, key : Slugs, version : Nat]

Typed ==
  /\ product \in [Skus -> Product]
  /\ references \in [Skus -> Document]
  /\ anchors \in [Skus -> Seq(Document)]
  /\ versions \in [Slugs -> Seq(VersionRow)]
  /\ request \in [Requests -> RequestType]

\* A product has a truth anchor from the beginning.
Anchored == \A k \in Skus : product[k].state # None <=> anchors[k] # <<>>

\* What is still true of that which a request has read.
HeldProduct(r) ==
  /\ r.kind \in {"update", "archive", "analysis", "anchor"} => product[r.key].state # None
  /\ r.kind \in {"analysis", "anchor"} => r.document \subseteq references[r.key]
  /\ r.kind = "anchor" => r.version \in 1..(Len(anchors[r.key]) + 1)

HeldPack(r) ==
  /\ r.kind = "seed" => \A s \in r.existing : Exists(s)
  /\ r.kind = "version" => Exists(r.key) /\ r.version \in 1..(Len(versions[r.key]) + 1)
  /\ r.kind = "publish" => r.version \in 1..Len(versions[r.key])

Held == \A q \in Requests : HeldProduct(request[q]) /\ HeldPack(request[q])

Inv == Typed /\ Anchored /\ Held /\ AnalysesShowReferences /\ SeedIsWhole

-----------------------------------------------------------------------------
(* Logs.                                                                   *)

\* The newest version is the length of the log.
LEMMA NewestIsLength ==
  ASSUME NEW D, NEW rows \in Seq(D)
  PROVE  Newest(rows) = Len(rows) /\ NextVersion(rows) = Len(rows) + 1
<1> DEFINE P(n) == \A v \in DOMAIN rows : v <= n
<1>1. Len(rows) \in Nat /\ DOMAIN rows = 1..Len(rows)
  OBVIOUS
<1>2. Len(rows) \in DOMAIN rows \union {0} /\ P(Len(rows))
  BY <1>1
<1>3. \A n \in DOMAIN rows \union {0} : P(n) => n = Len(rows)
  <2>1. CASE Len(rows) = 0
    BY <1>1, <2>1
  <2>2. CASE Len(rows) # 0
    <3>1. Len(rows) \in DOMAIN rows
      BY <1>1, <2>2
    <3> QED BY <1>1, <3>1
  <2> QED BY <2>1, <2>2
<1>4. Newest(rows) \in DOMAIN rows \union {0} /\ P(Newest(rows))
  <2> HIDE DEF P
  <2>1. \E n \in DOMAIN rows \union {0} : P(n)
    BY <1>2
  <2>2. Newest(rows) = CHOOSE n \in DOMAIN rows \union {0} : P(n)
    BY DEF Newest, P
  <2> QED BY <2>1, <2>2
<1> QED BY <1>3, <1>4, <1>1 DEF NextVersion

\* A version at a free place next to the log is appended to it.
LEMMA InsertedIsAppended ==
  ASSUME NEW D, NEW rows \in Seq(D), NEW d \in D, NEW v \in 1..(Len(rows) + 1), Free(rows, v)
  PROVE  /\ Inserted(rows, v, d) = Append(rows, d)
         /\ Append(rows, d) \in Seq(D)
         /\ Len(Append(rows, d)) = Len(rows) + 1
         /\ Append(rows, d) # <<>>
         /\ Append(rows, d)[Len(rows) + 1] = d
         /\ \A n \in 1..Len(rows) : Append(rows, d)[n] = rows[n]
<1>1. v = Len(rows) + 1
  BY DEF Free
<1>2. Len(rows) \in Nat /\ DOMAIN rows = 1..Len(rows) /\ DOMAIN rows \union {v} = 1..(Len(rows) + 1)
  BY <1>1
<1>3. /\ Append(rows, d) \in Seq(D)
      /\ Len(Append(rows, d)) = Len(rows) + 1
      /\ Append(rows, d)[Len(rows) + 1] = d
      /\ \A n \in 1..Len(rows) : Append(rows, d)[n] = rows[n]
  OBVIOUS
<1>4. Inserted(rows, v, d) = [n \in 1..(Len(rows) + 1) |-> IF n = v THEN d ELSE rows[n]]
  BY <1>2 DEF Inserted
<1>5. /\ Inserted(rows, v, d) \in Seq(D)
      /\ Len(Inserted(rows, v, d)) = Len(rows) + 1
      /\ \A n \in 1..(Len(rows) + 1) : Inserted(rows, v, d)[n] = IF n = v THEN d ELSE rows[n]
  <2>1. \A n \in 1..(Len(rows) + 1) : (IF n = v THEN d ELSE rows[n]) \in D
    BY <1>1, <1>2
  <2> QED BY <1>2, <1>4, <2>1
<1>6. Inserted(rows, v, d) = Append(rows, d)
  BY <1>1, <1>2, <1>3, <1>5, SeqEqual
<1>7. Append(rows, d) # <<>>
  BY <1>2, <1>3
<1> QED BY <1>3, <1>6, <1>7

-----------------------------------------------------------------------------
(* The invariant.                                                          *)

\* What a request of each kind carries.
LEMMA Carried ==
  ASSUME NEW r \in RequestType
  PROVE  /\ r.kind \in {"create", "update", "archive"} =>
              r.key \in Skus /\ r.category \in Categories \union {None}
         /\ r.kind \in {"analysis", "anchor"} => r.key \in Skus /\ r.document \in Document
         /\ r.kind = "seed" => r.existing \subseteq Slugs
         /\ r.kind = "version" => r.key \in Slugs /\ r.rules \in Rule
         /\ r.kind = "publish" => r.key \in Slugs
         /\ r.kind \in {"anchor", "version", "publish"} => r.version \in Nat
BY DEF RequestType, Idle

\* Everything grows: no step takes back what a request may have read.
Grown ==
  /\ \A k \in Skus : /\ product[k].state # None => product'[k].state # None
                     /\ references[k] \subseteq references'[k]
                     /\ Len(anchors[k]) <= Len(anchors'[k])
  /\ \A s \in Slugs : Len(versions[s]) <= Len(versions'[s])

\* What one request holds survives a step of another.
LEMMA HeldOn ==
  ASSUME Typed, Typed', Grown, NEW q \in Requests, request'[q] = request[q],
         HeldProduct(request[q]), HeldPack(request[q])
  PROVE  HeldProduct(request[q])' /\ HeldPack(request[q])'
<1> DEFINE r == request[q]
<1>1. r \in RequestType
  BY DEF Typed
<1>2. \A k \in Skus : /\ Len(anchors[k]) \in Nat /\ Len(anchors'[k]) \in Nat
                      /\ Len(anchors[k]) <= Len(anchors'[k])
  BY DEF Typed, Grown
<1>3. \A s \in Slugs : /\ Len(versions[s]) \in Nat /\ Len(versions'[s]) \in Nat
                       /\ Len(versions[s]) <= Len(versions'[s])
                       /\ Exists(s) => Exists(s)'
  BY EmptySeq DEF Typed, Grown, Exists
<1>4. HeldProduct(request[q])'
  BY <1>1, <1>2, Carried DEF HeldProduct, Grown
<1>5. HeldPack(request[q])'
  BY <1>1, <1>3, Carried DEF HeldPack
<1> QED BY <1>4, <1>5

\* A step that only changes what one request holds, and holds it rightly.
LEMMA RequestStep ==
  ASSUME Inv, NEW q \in Requests, NEW r \in RequestType,
         request' = [request EXCEPT ![q] = r], UNCHANGED <<products, versions>>,
         HeldProduct(r), HeldPack(r)
  PROVE  Inv'
<1>1. Typed'
  BY DEF Inv, Typed, products
<1>2. Anchored' /\ AnalysesShowReferences' /\ SeedIsWhole'
  BY DEF Inv, Anchored, AnalysesShowReferences, SeedIsWhole, Exists, products
<1>3. ASSUME NEW p \in Requests
      PROVE  HeldProduct(request[p])' /\ HeldPack(request[p])'
  <2>1. request'[p] \in {request[p], r} /\ (p = q => request'[p] = r) /\ (p # q => request'[p] = request[p])
    BY DEF Inv, Typed
  <2>2. HeldProduct(request'[p]) /\ HeldPack(request'[p])
    BY <2>1 DEF Inv, Held
  <2> QED BY <2>2 DEF HeldProduct, HeldPack, Exists, products
<1> QED BY <1>1, <1>2, <1>3 DEF Inv, Held

\* A step that ends a request, or none, and lets everything grow, keeps what is held.
LEMMA GrowingStep ==
  ASSUME Inv, Typed', Grown,
         request' = request \/ (\E q \in Requests : Done(q))
  PROVE  Held'
<1>1. ASSUME NEW p \in Requests
      PROVE  HeldProduct(request[p])' /\ HeldPack(request[p])'
  <2>1. CASE request'[p] = request[p]
    BY <2>1, HeldOn DEF Inv, Held
  <2>2. CASE request'[p] # request[p]
    <3>1. request'[p] = Idle
      BY <2>2 DEF Done, Inv, Typed
    <3> QED BY <3>1 DEF HeldProduct, HeldPack, Idle
  <2> QED BY <2>1, <2>2
<1> QED BY <1>1 DEF Held

LEMMA InitInv == Init => Inv
<1> SUFFICES ASSUME Init PROVE Inv
  OBVIOUS
<1>1. \A D : <<>> \in Seq(D)
  BY EmptySeq
<1>2. Typed
  BY <1>1 DEF Init, Typed, Product, Document, RequestType, None
<1>3. Anchored /\ AnalysesShowReferences
  BY DEF Init, Anchored, AnalysesShowReferences, None
<1>4. Held
  BY DEF Init, Held, HeldProduct, HeldPack, Idle
<1>5. SeedIsWhole
  BY CatalogAssumption DEF Init, SeedIsWhole, Exists, CatalogAssumption
<1> QED BY <1>2, <1>3, <1>4, <1>5 DEF Inv

\* Every request that reads holds what it has read.
LEMMA ReadInv ==
  ASSUME Inv, NEW q \in Requests, NEW k \in Skus
  PROVE  /\ \A c \in Categories : CreateRead(q, k, c) => Inv'
         /\ \A c \in Categories, kind \in {"update", "archive"} : ChangeRead(q, k, kind, c) => Inv'
         /\ AnchorRead(q, k) => Inv'
         /\ AnalyzeRead(q, k) => Inv'
<1> USE DEF Read, None
<1>1. ASSUME NEW c \in Categories, CreateRead(q, k, c)
      PROVE  Inv'
  <2> DEFINE r == [kind |-> "create", key |-> k, category |-> c]
  <2>1. r \in RequestType /\ HeldProduct(r) /\ HeldPack(r)
    BY DEF RequestType, HeldProduct, HeldPack
  <2> HIDE DEF r
  <2> QED BY <1>1, <2>1, RequestStep DEF CreateRead, r
<1>2. ASSUME NEW c \in Categories, NEW kind \in {"update", "archive"}, ChangeRead(q, k, kind, c)
      PROVE  Inv'
  <2> DEFINE r == [kind |-> kind, key |-> k, category |-> c]
  <2>1. r \in RequestType /\ HeldProduct(r) /\ HeldPack(r)
    BY <1>2 DEF RequestType, HeldProduct, HeldPack, ChangeRead
  <2> HIDE DEF r
  <2> QED BY <1>2, <2>1, RequestStep DEF ChangeRead, r
<1>3. ASSUME AnchorRead(q, k)
      PROVE  Inv'
  <2> DEFINE r == [kind |-> "anchor", key |-> k, document |-> {}, version |-> NextVersion(anchors[k])]
  <2>1. anchors[k] \in Seq(Document)
    BY DEF Inv, Typed
  <2>2. NextVersion(anchors[k]) = Len(anchors[k]) + 1 /\ Len(anchors[k]) \in Nat
    BY <2>1, NewestIsLength
  <2>3. r \in RequestType
    BY <2>2 DEF RequestType, Document
  <2>4. HeldProduct(r) /\ HeldPack(r)
    BY <1>3, <2>2 DEF HeldProduct, HeldPack, AnchorRead
  <2> HIDE DEF r
  <2> QED BY <1>3, <2>3, <2>4, RequestStep DEF AnchorRead, r
<1>4. ASSUME AnalyzeRead(q, k)
      PROVE  Inv'
  <2> DEFINE r == [kind |-> "analysis", key |-> k, document |-> Analyzed(k)]
  <2>1. r \in RequestType /\ HeldProduct(r) /\ HeldPack(r)
    BY <1>4 DEF RequestType, HeldProduct, HeldPack, AnalyzeRead, Analyzed, Inv, Typed
  <2> HIDE DEF r
  <2> QED BY <1>4, <2>1, RequestStep DEF AnalyzeRead, r
<1> QED BY <1>1, <1>2, <1>3, <1>4

LEMMA PackReadInv ==
  ASSUME Inv, NEW q \in Requests, NEW s \in Slugs
  PROVE  /\ \A rules \in Rule : VersionRead(q, s, rules) => Inv'
         /\ \A v \in 1..MaxVersions : PublishRead(q, s, v) => Inv'
<1> USE DEF Read
<1>0. versions[s] \in Seq(VersionRow) /\ DOMAIN versions[s] = 1..Len(versions[s])
  BY DEF Inv, Typed
<1>1. ASSUME NEW rules \in Rule, VersionRead(q, s, rules)
      PROVE  Inv'
  <2> DEFINE r == [kind |-> "version", key |-> s, rules |-> rules, version |-> NextVersion(versions[s])]
  <2>1. NextVersion(versions[s]) = Len(versions[s]) + 1 /\ Len(versions[s]) \in Nat
    BY <1>0, NewestIsLength
  <2>2. r \in RequestType /\ HeldProduct(r) /\ HeldPack(r)
    BY <1>1, <2>1 DEF RequestType, HeldProduct, HeldPack, VersionRead
  <2> HIDE DEF r
  <2> QED BY <1>1, <2>2, RequestStep DEF VersionRead, r
<1>2. ASSUME NEW v \in 1..MaxVersions, PublishRead(q, s, v)
      PROVE  Inv'
  <2> DEFINE r == [kind |-> "publish", key |-> s, version |-> v]
  <2>1. r \in RequestType /\ HeldProduct(r) /\ HeldPack(r)
    BY <1>0, <1>2, CatalogAssumption DEF RequestType, HeldProduct, HeldPack, PublishRead, CatalogAssumption
  <2> HIDE DEF r
  <2> QED BY <1>2, <2>1, RequestStep DEF PublishRead, r
<1> QED BY <1>1, <1>2

\* A transaction that is rolled back.
LEMMA RejectedInv ==
  ASSUME Inv, NEW q \in Requests, Rejected(q)
  PROVE  Inv'
<1>1. Idle \in RequestType /\ HeldProduct(Idle) /\ HeldPack(Idle)
  BY DEF RequestType, HeldProduct, HeldPack, Idle
<1> QED BY <1>1, RequestStep DEF Rejected, Done

\* An anchor is appended to the log of a product that exists after the step.
LEMMA AnchorAppended ==
  ASSUME Inv, NEW q \in Requests, NEW k \in Skus, NEW d \in Document, d \subseteq references[k],
         anchors' = [anchors EXCEPT ![k] = Append(@, d)],
         product' \in [Skus -> Product], product'[k].state # None,
         \A i \in Skus \ {k} : product'[i] = product[i],
         Done(q), UNCHANGED <<references, versions>>
  PROVE  Inv'
<1>0. /\ \A i \in Skus : anchors[i] \in Seq(Document)
      /\ anchors'[k] = Append(anchors[k], d)
      /\ \A i \in Skus \ {k} : anchors'[i] = anchors[i]
  BY DEF Inv, Typed
<1>1. /\ Append(anchors[k], d) \in Seq(Document) /\ Append(anchors[k], d) # <<>>
      /\ Len(Append(anchors[k], d)) = Len(anchors[k]) + 1 /\ Len(anchors[k]) \in Nat
      /\ \A n \in 1..Len(anchors[k]) : Append(anchors[k], d)[n] = anchors[k][n]
      /\ Append(anchors[k], d)[Len(anchors[k]) + 1] = d
  BY <1>0, AppendProperties
<1>2. Typed'
  BY <1>0, <1>1 DEF Inv, Typed, Done, RequestType
<1>3. Grown
  BY <1>0, <1>1 DEF Grown, Inv, Typed
<1>4. Held'
  BY <1>2, <1>3, GrowingStep
<1>5. Anchored'
  BY <1>0, <1>1 DEF Inv, Anchored
<1>6. AnalysesShowReferences'
  <2> SUFFICES ASSUME NEW i \in Skus, NEW v \in DOMAIN anchors'[i]
               PROVE  anchors'[i][v] \subseteq references[i]
    BY DEF AnalysesShowReferences
  <2>1. CASE i # k
    BY <1>0, <2>1 DEF Inv, AnalysesShowReferences
  <2>2. CASE i = k
    <3>1. v \in 1..(Len(anchors[k]) + 1) /\ DOMAIN anchors[k] = 1..Len(anchors[k])
      BY <1>0, <1>1, <2>2
    <3> QED BY <1>0, <1>1, <2>2, <3>1 DEF Inv, AnalysesShowReferences
  <2> QED BY <2>1, <2>2
<1>7. SeedIsWhole'
  BY DEF Inv, SeedIsWhole, Exists
<1> QED BY <1>2, <1>4, <1>5, <1>6, <1>7 DEF Inv

\* A commit of an anchor is rolled back or appends it.
LEMMA AnchorCommitAppends ==
  ASSUME Inv, NEW q \in Requests, AnchorCommit(q)
  PROVE  \/ Rejected(q)
         \/ LET k == request[q].key
                d == request[q].document
            IN  /\ k \in Skus /\ d \in Document /\ d \subseteq references[k] /\ product[k].state # None
                /\ anchors' = [anchors EXCEPT ![k] = Append(@, d)]
                /\ Done(q) /\ UNCHANGED <<product, references, versions>>
<1> DEFINE k == request[q].key
           d == request[q].document
           v == request[q].version
<1>1. request[q] \in RequestType /\ request[q].kind = "anchor"
  BY DEF Inv, Typed, AnchorCommit
<1>2. /\ k \in Skus /\ d \in Document /\ d \subseteq references[k] /\ product[k].state # None
      /\ v \in 1..(Len(anchors[k]) + 1)
  BY <1>1, Carried DEF Inv, Held, HeldProduct
<1>3. anchors[k] \in Seq(Document)
  BY <1>2 DEF Inv, Typed
<1>4. CASE Free(anchors[k], v)
  <2>1. Inserted(anchors[k], v, d) = Append(anchors[k], d)
    BY <1>2, <1>3, <1>4, InsertedIsAppended
  <2> QED BY <1>2, <1>4, <2>1 DEF AnchorCommit
<1>5. CASE ~Free(anchors[k], v)
  BY <1>5 DEF AnchorCommit
<1> QED BY <1>4, <1>5

\* So does the creation of a product, with its empty first anchor.
LEMMA CreateCommitAppends ==
  ASSUME Inv, NEW q \in Requests, CreateCommit(q)
  PROVE  \/ Rejected(q)
         \/ LET k == request[q].key
            IN  /\ k \in Skus /\ product[k].state = None
                /\ product' = [product EXCEPT ![k] = [state |-> "live", category |-> request[q].category]]
                /\ anchors' = [anchors EXCEPT ![k] = Append(@, {})]
                /\ Done(q) /\ UNCHANGED <<references, versions>>
<1> DEFINE k == request[q].key
<1>1. request[q] \in RequestType /\ request[q].kind = "create"
  BY DEF Inv, Typed, CreateCommit
<1>2. k \in Skus
  BY <1>1, Carried
<1>3. CASE product[k].state = None
  <2>1. anchors[k] = <<>> /\ <<>> \in Seq(Document) /\ Len(<<>>) = 0
    BY <1>2, <1>3, EmptySeq DEF Inv, Anchored
  <2>2. Free(anchors[k], FirstVersion) /\ FirstVersion \in 1..(Len(anchors[k]) + 1)
    BY <2>1 DEF Free, FirstVersion
  <2>3. Inserted(anchors[k], FirstVersion, {}) = Append(anchors[k], {})
    <3>1. anchors[k] \in Seq(Document) /\ {} \in Document
      BY <2>1 DEF Document
    <3> QED BY <2>2, <3>1, InsertedIsAppended
  <2> QED BY <1>2, <1>3, <2>3 DEF CreateCommit
<1>4. CASE product[k].state # None
  BY <1>4 DEF CreateCommit
<1> QED BY <1>3, <1>4

\* The steps on products that are not reads.
LEMMA ProductCommitInv ==
  ASSUME Inv, NEW q \in Requests
  PROVE  /\ CreateCommit(q) => Inv'
         /\ ChangeCommit(q) => Inv'
         /\ AnalyzeNumber(q) => Inv'
         /\ AnchorCommit(q) => Inv'
<1>0. request[q] \in RequestType /\ HeldProduct(request[q])
  BY DEF Inv, Typed, Held
<1>1. ASSUME CreateCommit(q)
      PROVE  Inv'
  <2>1. CASE Rejected(q)
    BY <2>1, RejectedInv
  <2>2. CASE ~Rejected(q)
    <3> DEFINE k == request[q].key
               new == [state |-> "live", category |-> request[q].category]
    <3>1. /\ k \in Skus
          /\ product' = [product EXCEPT ![k] = new]
          /\ anchors' = [anchors EXCEPT ![k] = Append(@, {})]
          /\ Done(q) /\ UNCHANGED <<references, versions>>
      BY <1>1, <2>2, CreateCommitAppends
    <3>2. new \in Product /\ new.state # None
      BY <1>0, <1>1, Carried DEF CreateCommit, Product, None
    <3>3. product' \in [Skus -> Product] /\ product'[k] = new /\ \A i \in Skus \ {k} : product'[i] = product[i]
      <4> HIDE DEF k, new
      <4> QED BY <3>1, <3>2 DEF Inv, Typed
    <3>4. {} \in Document /\ {} \subseteq references[k]
      BY DEF Document
    <3> HIDE DEF k, new
    <3> QED BY <3>1, <3>2, <3>3, <3>4, AnchorAppended
  <2> QED BY <2>1, <2>2
<1>2. ASSUME ChangeCommit(q)
      PROVE  Inv'
  <2> DEFINE k == request[q].key
  <2>1. k \in Skus /\ product[k] \in Product /\ product[k].state # None
    BY <1>0, <1>2, Carried DEF ChangeCommit, HeldProduct, Inv, Typed
  <2>2. /\ product' \in [Skus -> Product] /\ product'[k].state # None
        /\ \A i \in Skus \ {k} : product'[i] = product[i]
    <3>1. CASE request[q].kind = "update"
      BY <1>0, <1>2, <2>1, <3>1, Carried DEF ChangeCommit, Product, Inv, Typed
    <3>2. CASE request[q].kind # "update"
      BY <1>0, <1>2, <2>1, <3>2 DEF ChangeCommit, Product, None, Inv, Typed
    <3> QED BY <3>1, <3>2
  <2>3. Done(q) /\ UNCHANGED <<references, anchors, versions>>
    BY <1>2 DEF ChangeCommit
  <2>4. Typed'
    BY <2>2, <2>3 DEF Inv, Typed, Done, RequestType
  <2>5. Grown
    <3>1. (\A i \in Skus : Len(anchors[i]) \in Nat) /\ (\A s \in Slugs : Len(versions[s]) \in Nat)
      BY DEF Inv, Typed
    <3> HIDE DEF k
    <3> QED BY <2>1, <2>2, <2>3, <3>1 DEF Grown
  <2>6. Held'
    BY <2>3, <2>4, <2>5, GrowingStep
  <2>7. Anchored'
    BY <2>1, <2>2, <2>3 DEF Inv, Anchored
  <2> QED BY <2>3, <2>4, <2>6, <2>7 DEF Inv, AnalysesShowReferences, SeedIsWhole, Exists
<1>3. ASSUME AnalyzeNumber(q)
      PROVE  Inv'
  <2> DEFINE k == request[q].key
             r == [kind |-> "anchor", key |-> k, document |-> request[q].document,
                   version |-> NextVersion(anchors[k])]
  <2>1. k \in Skus /\ request[q].document \in Document
    BY <1>0, <1>3, Carried DEF AnalyzeNumber
  <2>2. NextVersion(anchors[k]) = Len(anchors[k]) + 1 /\ Len(anchors[k]) \in Nat
    BY <2>1, NewestIsLength DEF Inv, Typed
  <2>3. r \in RequestType
    BY <2>1, <2>2 DEF RequestType
  <2>4. HeldProduct(r) /\ HeldPack(r)
    BY <1>0, <1>3, <2>2 DEF HeldProduct, HeldPack, AnalyzeNumber
  <2>5. request' = [request EXCEPT ![q] = r] /\ UNCHANGED <<products, versions>>
    BY <1>3 DEF AnalyzeNumber
  <2> HIDE DEF r
  <2> QED BY <2>3, <2>4, <2>5, RequestStep
<1>4. ASSUME AnchorCommit(q)
      PROVE  Inv'
  <2>1. CASE Rejected(q)
    BY <2>1, RejectedInv
  <2>2. CASE ~Rejected(q)
    BY <1>4, <2>2, AnchorCommitAppends, AnchorAppended DEF Inv, Typed
  <2> QED BY <2>1, <2>2
<1> QED BY <1>1, <1>2, <1>3, <1>4

LEMMA AddReferenceInv ==
  ASSUME Inv, NEW k \in Skus, NEW p \in Pictures, AddReference(k, p)
  PROVE  Inv'
<1>1. UNCHANGED <<product, anchors, versions, request>>
  BY DEF AddReference
<1>2. references' \in [Skus -> Document] /\ \A i \in Skus : references[i] \subseteq references'[i]
  BY DEF AddReference, Inv, Typed, Document
<1>3. Typed'
  BY <1>1, <1>2 DEF Inv, Typed
<1>4. Grown
  BY <1>1, <1>2 DEF Grown, Inv, Typed
<1>5. Held'
  BY <1>1, <1>3, <1>4, GrowingStep
<1>6. AnalysesShowReferences'
  BY <1>1, <1>2 DEF Inv, AnalysesShowReferences
<1> QED BY <1>1, <1>3, <1>5, <1>6 DEF Inv, Anchored, SeedIsWhole, Exists

\* The row of a pack is appended, to its log or as its first version.
LEMMA VersionAppended ==
  ASSUME Inv, NEW s \in Slugs, NEW row \in VersionRow,
         versions' = [versions EXCEPT ![s] = Append(@, row)],
         Exists(s) \/ row.rules # "preset",
         request' = request \/ (\E q \in Requests : Done(q)), UNCHANGED products
  PROVE  Inv'
<1>0. /\ \A i \in Slugs : versions[i] \in Seq(VersionRow)
      /\ versions'[s] = Append(versions[s], row)
      /\ \A i \in Slugs \ {s} : versions'[i] = versions[i]
  BY DEF Inv, Typed
<1>1. /\ Append(versions[s], row) \in Seq(VersionRow) /\ Append(versions[s], row) # <<>>
      /\ Len(Append(versions[s], row)) = Len(versions[s]) + 1 /\ Len(versions[s]) \in Nat
      /\ \A n \in 1..Len(versions[s]) : Append(versions[s], row)[n] = versions[s][n]
      /\ Append(versions[s], row)[Len(versions[s]) + 1] = row
  BY <1>0, AppendProperties
<1>2. Typed'
  <2>1. request' \in [Requests -> RequestType]
    BY DEF Inv, Typed, Done, RequestType
  <2> QED BY <1>0, <1>1, <2>1 DEF Inv, Typed, products
<1>3. Grown
  <2>1. \A i \in Slugs : Len(versions[i]) <= Len(versions'[i])
    BY <1>0, <1>1
  <2>2. \A k \in Skus : Len(anchors[k]) \in Nat
    BY DEF Inv, Typed
  <2> QED BY <2>1, <2>2 DEF Grown, products
<1>4. Held'
  BY <1>2, <1>3, GrowingStep
<1>5. SeedIsWhole'
  <2>1. \A i \in Slugs : Exists(i) => Exists(i)' /\ versions'[i][1] = versions[i][1]
    <3> SUFFICES ASSUME NEW i \in Slugs, Exists(i)
                 PROVE  Exists(i)' /\ versions'[i][1] = versions[i][1]
      OBVIOUS
    <3>1. versions[i] # <<>> /\ 1 \in 1..Len(versions[i])
      BY <1>0, EmptySeq DEF Exists
    <3> QED BY <1>0, <1>1, <3>1 DEF Exists
  <2>2. ~Exists(s) => versions'[s][1] = row
    BY <1>0, <1>1, EmptySeq DEF Exists
  <2>3. \A i \in Slugs : Exists(i)' /\ versions'[i][1].rules = "preset" => Exists(i) /\ versions[i][1].rules = "preset"
    BY <1>0, <2>1, <2>2 DEF Exists
  <2> QED BY <2>1, <2>3, CatalogAssumption DEF Inv, SeedIsWhole, CatalogAssumption
<1> QED BY <1>2, <1>4, <1>5 DEF Inv, Anchored, AnalysesShowReferences, products

\* A commit of a version is rolled back or appends it.
LEMMA VersionCommitAppends ==
  ASSUME Inv, NEW q \in Requests, VersionCommit(q)
  PROVE  \/ Rejected(q)
         \/ LET s == request[q].key
                row == Version("draft", request[q].rules)
            IN  /\ s \in Slugs /\ row \in VersionRow /\ Exists(s)
                /\ versions' = [versions EXCEPT ![s] = Append(@, row)]
                /\ Done(q) /\ UNCHANGED products
<1> DEFINE s == request[q].key
           v == request[q].version
           row == Version("draft", request[q].rules)
<1>1. request[q] \in RequestType /\ request[q].kind = "version"
  BY DEF Inv, Typed, VersionCommit
<1>2. s \in Slugs /\ row \in VersionRow /\ Exists(s) /\ v \in 1..(Len(versions[s]) + 1)
  BY <1>1, Carried DEF Inv, Held, HeldPack, Version, VersionRow
<1>3. versions[s] \in Seq(VersionRow)
  BY <1>2 DEF Inv, Typed
<1>4. CASE Free(versions[s], v)
  <2>1. Inserted(versions[s], v, row) = Append(versions[s], row)
    BY <1>2, <1>3, <1>4, InsertedIsAppended
  <2> QED BY <1>2, <1>4, <2>1 DEF VersionCommit
<1>5. CASE ~Free(versions[s], v)
  BY <1>5 DEF VersionCommit
<1> QED BY <1>4, <1>5

\* A new pack has one version, the one its author wrote.
LEMMA CreatePackAppends ==
  ASSUME Inv, NEW s \in Slugs, NEW r \in Rules, CreatePack(s, r)
  PROVE  /\ versions' = [versions EXCEPT ![s] = Append(@, Version("draft", r))]
         /\ Version("draft", r) \in VersionRow /\ r # "preset"
         /\ UNCHANGED <<products, request>>
<1>1. versions[s] = <<>> /\ <<>> \in Seq(VersionRow) /\ Len(<<>>) = 0
  BY EmptySeq DEF CreatePack, Exists
<1>2. Version("draft", r) \in VersionRow /\ r # "preset"
  BY CatalogAssumption DEF Version, VersionRow, Rule, CatalogAssumption
<1>3. Free(versions[s], FirstVersion) /\ FirstVersion \in 1..(Len(versions[s]) + 1)
  BY <1>1 DEF Free, FirstVersion
<1>4. Inserted(versions[s], FirstVersion, Version("draft", r)) = Append(versions[s], Version("draft", r))
  <2>1. versions[s] \in Seq(VersionRow)
    BY <1>1
  <2> QED BY <1>2, <1>3, <2>1, InsertedIsAppended
<1> QED BY <1>2, <1>4 DEF CreatePack

\* A seeding commit gives first versions to packs that have none.
LEMMA SeedCommitFounds ==
  ASSUME Inv, NEW q \in Requests, SeedCommit(q)
  PROVE  LET new == Seeded(Presets \ request[q].existing)
             first == <<Version("published", "preset")>>
         IN  /\ new \subseteq Slugs /\ \A s \in new : versions[s] = <<>>
             /\ first \in Seq(VersionRow) /\ Len(first) = 1 /\ first[1].rules = "preset"
             /\ versions' \in [Slugs -> Seq(VersionRow)]
             /\ \A s \in new : versions'[s] = first
             /\ \A s \in Slugs \ new : versions'[s] = versions[s]
<1> DEFINE new == Seeded(Presets \ request[q].existing)
           first == <<Version("published", "preset")>>
<1>1. new \subseteq Slugs /\ \A s \in new : versions[s] = <<>>
  BY CatalogAssumption DEF Seeded, Exists, CatalogAssumption
<1>2. Version("published", "preset") \in VersionRow /\ Version("published", "preset").rules = "preset"
  BY DEF Version, VersionRow, Rule
<1>3. first \in Seq(VersionRow) /\ Len(first) = 1 /\ first[1].rules = "preset"
  BY <1>2
<1>4. versions' = [s \in Slugs |-> IF s \in new THEN first ELSE versions[s]]
  BY DEF SeedCommit
<1> HIDE DEF new, first
<1>5. versions' \in [Slugs -> Seq(VersionRow)]
  BY <1>3, <1>4 DEF Inv, Typed
<1>6. (\A s \in new : versions'[s] = first) /\ (\A s \in Slugs \ new : versions'[s] = versions[s])
  BY <1>1, <1>4
<1> QED BY <1>1, <1>3, <1>5, <1>6 DEF new, first

LEMMA SeedCommitInv ==
  ASSUME Inv, NEW q \in Requests, SeedCommit(q)
  PROVE  Inv'
<1> DEFINE new == Seeded(Presets \ request[q].existing)
           first == <<Version("published", "preset")>>
<1>1. /\ new \subseteq Slugs /\ \A s \in new : versions[s] = <<>>
      /\ first \in Seq(VersionRow) /\ Len(first) = 1 /\ first[1].rules = "preset"
      /\ versions' \in [Slugs -> Seq(VersionRow)]
      /\ \A s \in new : versions'[s] = first
      /\ \A s \in Slugs \ new : versions'[s] = versions[s]
  BY SeedCommitFounds
<1>2. Done(q) /\ UNCHANGED products
  BY DEF SeedCommit
<1>3. request[q] \in RequestType /\ request[q].kind = "seed" /\ \A s \in request[q].existing : Exists(s)
  BY DEF SeedCommit, Inv, Typed, Held, HeldPack
<1>4. Typed'
  BY <1>1, <1>2 DEF Inv, Typed, Done, RequestType, products
<1>5. \A s \in Slugs : /\ Len(versions[s]) <= Len(versions'[s])
                       /\ Exists(s)' <=> Exists(s) \/ s \in new
                       /\ Exists(s) => versions'[s] = versions[s]
  <2> SUFFICES ASSUME NEW s \in Slugs
               PROVE  /\ Len(versions[s]) <= Len(versions'[s])
                      /\ Exists(s)' <=> Exists(s) \/ s \in new
                      /\ Exists(s) => versions'[s] = versions[s]
    OBVIOUS
  <2>0. first # <<>>
    OBVIOUS
  <2> HIDE DEF new, first
  <2>1. Len(versions[s]) \in Nat /\ first # <<>> /\ Len(<<>>) = 0
    <3>1. versions[s] \in Seq(VersionRow)
      BY DEF Inv, Typed
    <3> QED BY <2>0, <3>1
  <2>2. CASE s \in new
    BY <1>1, <2>1, <2>2 DEF Exists
  <2>3. CASE s \notin new
    BY <1>1, <2>1, <2>3 DEF Exists
  <2> QED BY <2>2, <2>3
<1>6. Grown
  <2>1. \A k \in Skus : Len(anchors[k]) \in Nat
    BY DEF Inv, Typed
  <2> QED BY <1>2, <1>5, <2>1 DEF Grown, products
<1>7. Held'
  BY <1>2, <1>4, <1>6, GrowingStep
<1>8. SeedIsWhole'
  <2>1. CASE new = {}
    <3>1. \A s \in Slugs : versions'[s] = versions[s]
      BY <1>1, <2>1
    <3> QED BY <3>1, CatalogAssumption DEF Inv, SeedIsWhole, Exists, CatalogAssumption
  <2>2. CASE new # {}
    <3>1. new = Presets \ request[q].existing
      BY <2>2 DEF Seeded
    <3>2. \A s \in Presets : Exists(s)'
      BY <1>3, <1>5, <3>1, CatalogAssumption DEF CatalogAssumption
    <3> QED BY <3>2 DEF SeedIsWhole
  <2> QED BY <2>1, <2>2
<1> QED BY <1>2, <1>4, <1>7, <1>8 DEF Inv, Anchored, AnalysesShowReferences, products

\* Publishing changes neither the length of a log nor a rule in it.
LEMMA PublishKeepsRules ==
  ASSUME Inv, NEW q \in Requests, PublishCommit(q)
  PROVE  /\ versions' \in [Slugs -> Seq(VersionRow)]
         /\ \A s \in Slugs : /\ DOMAIN versions'[s] = DOMAIN versions[s]
                              /\ Len(versions'[s]) = Len(versions[s])
                              /\ \A v \in DOMAIN versions[s] : versions'[s][v].rules = versions[s][v].rules
<1> DEFINE s0 == request[q].key
           v0 == request[q].version
           published == [versions[s0] EXCEPT ![v0] = [@ EXCEPT !.status = "published"]]
<1>1. request[q] \in RequestType /\ request[q].kind = "publish"
  BY DEF Inv, Typed, PublishCommit
<1>2. s0 \in Slugs /\ v0 \in 1..Len(versions[s0])
  BY <1>1, Carried DEF Inv, Held, HeldPack
<1>3. versions[s0] \in Seq(VersionRow) /\ DOMAIN versions[s0] = 1..Len(versions[s0]) /\ versions[s0][v0] \in VersionRow
  BY <1>2 DEF Inv, Typed
<1>4. versions' = [versions EXCEPT ![s0] = published]
  BY DEF PublishCommit
<1>5. [versions[s0][v0] EXCEPT !.status = "published"] \in VersionRow
  BY <1>3 DEF VersionRow
<1>6. published \in Seq(VersionRow) /\ DOMAIN published = 1..Len(versions[s0]) /\ Len(published) = Len(versions[s0])
  BY <1>2, <1>3, <1>5
<1>7. \A v \in DOMAIN versions[s0] : published[v].rules = versions[s0][v].rules
  <2>1. [versions[s0][v0] EXCEPT !.status = "published"].rules = versions[s0][v0].rules
    BY <1>3 DEF VersionRow
  <2> QED BY <1>2, <1>3, <2>1
<1> HIDE DEF s0, v0, published
<1>8. versions'[s0] = published /\ \A s \in Slugs \ {s0} : versions'[s] = versions[s]
  BY <1>2, <1>4 DEF Inv, Typed
<1>9. versions' \in [Slugs -> Seq(VersionRow)]
  BY <1>4, <1>6 DEF Inv, Typed
<1> QED BY <1>3, <1>6, <1>7, <1>8, <1>9

LEMMA PublishCommitInv ==
  ASSUME Inv, NEW q \in Requests, PublishCommit(q)
  PROVE  Inv'
<1>1. /\ versions' \in [Slugs -> Seq(VersionRow)]
      /\ \A s \in Slugs : /\ DOMAIN versions'[s] = DOMAIN versions[s]
                           /\ Len(versions'[s]) = Len(versions[s])
                           /\ \A v \in DOMAIN versions[s] : versions'[s][v].rules = versions[s][v].rules
  BY PublishKeepsRules
<1>2. Done(q) /\ UNCHANGED products
  BY DEF PublishCommit
<1>3. Typed'
  BY <1>1, <1>2 DEF Inv, Typed, Done, RequestType, products
<1>4. Grown
  <2>1. (\A k \in Skus : Len(anchors[k]) \in Nat) /\ (\A s \in Slugs : Len(versions[s]) \in Nat)
    BY DEF Inv, Typed
  <2> QED BY <1>1, <1>2, <2>1 DEF Grown, products
<1>5. Held'
  BY <1>2, <1>3, <1>4, GrowingStep
<1>6. SeedIsWhole'
  <2>1. \A s \in Slugs : /\ Exists(s)' <=> Exists(s)
                         /\ Exists(s) => versions'[s][1].rules = versions[s][1].rules
    <3> SUFFICES ASSUME NEW s \in Slugs
                 PROVE  (Exists(s)' <=> Exists(s)) /\ (Exists(s) => versions'[s][1].rules = versions[s][1].rules)
      OBVIOUS
    <3>1. /\ versions[s] \in Seq(VersionRow) /\ versions'[s] \in Seq(VersionRow)
          /\ DOMAIN versions[s] = 1..Len(versions[s]) /\ Len(versions[s]) \in Nat
      BY <1>1 DEF Inv, Typed
    <3>2. (Exists(s) <=> Len(versions[s]) # 0) /\ (Exists(s)' <=> Len(versions'[s]) # 0)
      BY <3>1, EmptySeq DEF Exists
    <3> QED BY <1>1, <3>1, <3>2
  <2> QED BY <2>1, CatalogAssumption DEF Inv, SeedIsWhole, CatalogAssumption
<1> QED BY <1>2, <1>3, <1>5, <1>6 DEF Inv, Anchored, AnalysesShowReferences, products

LEMMA NextInv == Inv /\ [Next]_vars => Inv'
<1> SUFFICES ASSUME Inv, [Next]_vars PROVE Inv'
  OBVIOUS
<1>1. ASSUME ProductNext
      PROVE  Inv'
  <2>1. ASSUME NEW q \in Requests, CreateCommit(q) \/ ChangeCommit(q) \/ AnalyzeNumber(q) \/ AnchorCommit(q)
        PROVE  Inv'
    BY <2>1, ProductCommitInv
  <2>2. ASSUME NEW k \in Skus, NEW p \in Pictures, AddReference(k, p)
        PROVE  Inv'
    BY <2>2, AddReferenceInv
  <2>3. ASSUME NEW q \in Requests, NEW k \in Skus, AnchorRead(q, k) \/ AnalyzeRead(q, k)
        PROVE  Inv'
    BY <2>3, ReadInv
  <2>4. ASSUME NEW q \in Requests, NEW k \in Skus, NEW c \in Categories,
               CreateRead(q, k, c) \/ ChangeRead(q, k, "update", c) \/ ChangeRead(q, k, "archive", c)
        PROVE  Inv'
    BY <2>4, ReadInv
  <2> QED BY <1>1, <2>1, <2>2, <2>3, <2>4 DEF ProductNext
<1>2. ASSUME PackNext
      PROVE  Inv'
  <2>1. ASSUME NEW q \in Requests, SeedRead(q)
        PROVE  Inv'
    <3> DEFINE r == [kind |-> "seed", existing |-> {x \in Slugs : Exists(x)}]
    <3>1. r \in RequestType /\ HeldProduct(r) /\ HeldPack(r)
      BY DEF RequestType, HeldProduct, HeldPack
    <3> HIDE DEF r
    <3> QED BY <2>1, <3>1, RequestStep DEF SeedRead, Read, r
  <2>2. ASSUME NEW q \in Requests, SeedCommit(q) \/ PublishCommit(q)
        PROVE  Inv'
    BY <2>2, SeedCommitInv, PublishCommitInv
  <2>3. ASSUME NEW q \in Requests, VersionCommit(q)
        PROVE  Inv'
    <3>1. CASE Rejected(q)
      BY <3>1, RejectedInv
    <3>2. CASE ~Rejected(q)
      BY <2>3, <3>2, VersionCommitAppends, VersionAppended
    <3> QED BY <3>1, <3>2
  <2>4. ASSUME NEW s \in Slugs, NEW r \in Rules, CreatePack(s, r)
        PROVE  Inv'
    <3>1. Version("draft", r).rules # "preset"
      BY <2>4, CreatePackAppends DEF Version
    <3> QED BY <2>4, <3>1, CreatePackAppends, VersionAppended
  <2>5. ASSUME NEW q \in Requests, NEW s \in Slugs, NEW r \in Rule, VersionRead(q, s, r)
        PROVE  Inv'
    BY <2>5, PackReadInv
  <2>6. ASSUME NEW q \in Requests, NEW s \in Slugs, NEW v \in 1..MaxVersions, PublishRead(q, s, v)
        PROVE  Inv'
    BY <2>6, PackReadInv
  <2> QED BY <1>2, <2>1, <2>2, <2>3, <2>4, <2>5, <2>6 DEF PackNext, Rule
<1>3. CASE UNCHANGED vars
  BY <1>3 DEF vars, Inv, Typed, Anchored, Held, HeldProduct, HeldPack, AnalysesShowReferences, SeedIsWhole, Exists
<1> QED BY <1>1, <1>2, <1>3 DEF Next

LEMMA InvTyped == Inv => TypeOK
<1> SUFFICES ASSUME Inv PROVE TypeOK
  OBVIOUS
<1>1. \A k \in Skus : anchors[k] \in Seq(Document) /\ NextVersion(anchors[k]) = Len(anchors[k]) + 1
  BY NewestIsLength DEF Inv, Typed
<1>2. \A s \in Slugs : versions[s] \in Seq(VersionRow) /\ NextVersion(versions[s]) = Len(versions[s]) + 1
  BY NewestIsLength DEF Inv, Typed
<1>3. \A k \in Skus : product[k].state # None => 1 \in DOMAIN anchors[k]
  <2> SUFFICES ASSUME NEW k \in Skus, product[k].state # None
               PROVE  1 \in DOMAIN anchors[k]
    OBVIOUS
  <2>1. anchors[k] # <<>> /\ anchors[k] \in Seq(Document)
    BY <1>1 DEF Inv, Anchored
  <2> QED BY <2>1, EmptySeq
<1>4. \A k \in Skus : product[k].state \in {None, "live", "archived"} /\ references[k] \subseteq Pictures
  BY DEF Inv, Typed, Product, Document
<1>5. ASSUME NEW q \in Requests
      PROVE  /\ request[q].kind = "anchor" => request[q].version <= NextVersion(anchors[request[q].key])
             /\ request[q].kind = "version" => request[q].version <= NextVersion(versions[request[q].key])
  <2>1. request[q] \in RequestType /\ HeldProduct(request[q]) /\ HeldPack(request[q])
    BY DEF Inv, Typed, Held
  <2>2. CASE request[q].kind = "anchor"
    <3>1. request[q].key \in Skus
      BY <2>1, <2>2, Carried
    <3> QED BY <1>1, <2>1, <2>2, <3>1 DEF HeldProduct
  <2>3. CASE request[q].kind = "version"
    <3>1. request[q].key \in Slugs
      BY <2>1, <2>3, Carried
    <3> QED BY <1>2, <2>1, <2>3, <3>1 DEF HeldPack
  <2> QED BY <2>2, <2>3
<1> QED BY <1>3, <1>4, <1>5 DEF TypeOK

LEMMA Invariant == Spec => []Inv
BY InitInv, NextInv, PTL DEF Spec

\* The version a request would give is never beyond the next one, every product has a
\* truth anchor, and everything has its type (catalog/service.py, templates/service.py).
THEOREM TypeCorrect == Spec => []TypeOK
BY Invariant, InvTyped, PTL

\* An analysis never shows a picture that is no reference of its product
\* (analyze_truth_anchor), however requests interleave.
THEOREM AnalysesCorrect == Spec => []AnalysesShowReferences
<1>1. Inv => AnalysesShowReferences
  BY DEF Inv
<1> QED BY <1>1, Invariant, PTL

\* First-party packs are there together or not at all (ensure_first_party_packs).
THEOREM SeedCorrect == Spec => []SeedIsWhole
<1>1. Inv => SeedIsWhole
  BY DEF Inv
<1> QED BY <1>1, Invariant, PTL

-----------------------------------------------------------------------------
(* The logs of anchors and of rules implement VersionLog.                  *)

LEMMA AnchorStep ==
  ASSUME Inv, Next
  PROVE  AnchorLog!Next \/ UNCHANGED anchors
<1>1. ASSUME NEW q \in Requests, AnchorCommit(q)
      PROVE  AnchorLog!Next \/ UNCHANGED anchors
  BY <1>1, AnchorCommitAppends DEF AnchorLog!Next, AnchorLog!Add, Document, Rejected, products
<1>2. ASSUME NEW q \in Requests, CreateCommit(q)
      PROVE  AnchorLog!Next \/ UNCHANGED anchors
  BY <1>2, CreateCommitAppends DEF AnchorLog!Next, AnchorLog!Add, Rejected, products
<1>3. ASSUME NEW q \in Requests,
             ChangeCommit(q) \/ AnalyzeNumber(q) \/ SeedRead(q) \/ SeedCommit(q) \/ VersionCommit(q) \/ PublishCommit(q)
      PROVE  UNCHANGED anchors
  BY <1>3 DEF ChangeCommit, AnalyzeNumber, SeedRead, SeedCommit, VersionCommit, PublishCommit, Read, Rejected, products
<1>4. ASSUME NEW q \in Requests, NEW k \in Skus,
             \/ AnchorRead(q, k) \/ AnalyzeRead(q, k)
             \/ \E c \in Categories :
                  CreateRead(q, k, c) \/ ChangeRead(q, k, "update", c) \/ ChangeRead(q, k, "archive", c)
      PROVE  UNCHANGED anchors
  BY <1>4 DEF AnchorRead, AnalyzeRead, CreateRead, ChangeRead, Read, products
<1>5. ASSUME NEW q \in Requests, NEW s \in Slugs,
             \/ \E r \in Rules \union {"preset"} : VersionRead(q, s, r)
             \/ \E v \in 1..MaxVersions : PublishRead(q, s, v)
      PROVE  UNCHANGED anchors
  BY <1>5 DEF VersionRead, PublishRead, Read, products
<1>6. ASSUME NEW k \in Skus, NEW p \in Pictures, AddReference(k, p)
      PROVE  UNCHANGED anchors
  BY <1>6 DEF AddReference
<1>7. ASSUME NEW s \in Slugs, NEW r \in Rules, CreatePack(s, r)
      PROVE  UNCHANGED anchors
  BY <1>7 DEF CreatePack, products
<1>8. CASE ProductNext
  BY <1>1, <1>2, <1>3, <1>4, <1>6, <1>8 DEF ProductNext
<1>9. CASE PackNext
  BY <1>3, <1>5, <1>7, <1>9 DEF PackNext
<1> QED BY <1>8, <1>9 DEF Next

\* Truth anchors are versioned without a gap, a double or a rewrite for any number of
\* requests that race (create_truth_anchor, create_product).
THEOREM AnchorsLogged == Spec => AnchorsAreLogs
<1>1. Init => AnchorLog!Init
  BY DEF Init, AnchorLog!Init
<1>2. Inv /\ [Next]_vars => [AnchorLog!Next]_anchors
  BY AnchorStep DEF vars
<1> QED BY <1>1, <1>2, Invariant, PTL DEF Spec, AnchorsAreLogs, AnchorLog!Spec

RulesOf(rows) == [v \in DOMAIN rows |-> rows[v].rules]
RuleLog == [s \in Slugs |-> RulesOf(versions[s])]

\* The rules of a log are a log.
LEMMA RulesOfLog ==
  ASSUME NEW rows \in Seq(VersionRow)
  PROVE  RulesOf(rows) \in Seq(Rule) /\ Len(RulesOf(rows)) = Len(rows)
<1>1. Len(rows) \in Nat /\ DOMAIN rows = 1..Len(rows) /\ \A v \in 1..Len(rows) : rows[v].rules \in Rule
  <2>1. Len(rows) \in Nat /\ DOMAIN rows = 1..Len(rows) /\ \A v \in 1..Len(rows) : rows[v] \in VersionRow
    OBVIOUS
  <2>2. \A row \in VersionRow : row.rules \in Rule
    BY DEF VersionRow
  <2> QED BY <2>1, <2>2
<1>2. RulesOf(rows) = [v \in 1..Len(rows) |-> rows[v].rules]
  BY <1>1 DEF RulesOf
<1> QED BY <1>1, <1>2

LEMMA RulesOfEmpty == RulesOf(<<>>) = <<>>
<1>1. <<>> \in Seq(VersionRow) /\ Len(<<>>) = 0
  OBVIOUS
<1>2. RulesOf(<<>>) \in Seq(Rule) /\ Len(RulesOf(<<>>)) = 0
  BY <1>1, RulesOfLog
<1> QED BY <1>2, EmptySeq

LEMMA RulesOfAppended ==
  ASSUME NEW rows \in Seq(VersionRow), NEW row \in VersionRow
  PROVE  RulesOf(Append(rows, row)) = Append(RulesOf(rows), row.rules)
<1> DEFINE a == RulesOf(Append(rows, row))
           b == Append(RulesOf(rows), row.rules)
<1>1. /\ Append(rows, row) \in Seq(VersionRow) /\ Len(Append(rows, row)) = Len(rows) + 1
      /\ Len(rows) \in Nat /\ DOMAIN rows = 1..Len(rows) /\ DOMAIN Append(rows, row) = 1..(Len(rows) + 1)
      /\ \A v \in 1..Len(rows) : Append(rows, row)[v] = rows[v]
      /\ Append(rows, row)[Len(rows) + 1] = row
  OBVIOUS
<1>2. row.rules \in Rule /\ RulesOf(rows) \in Seq(Rule) /\ Len(RulesOf(rows)) = Len(rows)
  BY RulesOfLog DEF VersionRow
<1>3. a \in Seq(Rule) /\ Len(a) = Len(rows) + 1
  BY <1>1, RulesOfLog
<1>4. /\ b \in Seq(Rule) /\ Len(b) = Len(rows) + 1
      /\ \A v \in 1..Len(rows) : b[v] = RulesOf(rows)[v]
      /\ b[Len(rows) + 1] = row.rules
  BY <1>2
<1> HIDE DEF a, b
<1>5. ASSUME NEW v \in 1..(Len(rows) + 1)
      PROVE  a[v] = b[v]
  <2>1. a[v] = Append(rows, row)[v].rules
    BY <1>1 DEF RulesOf, a
  <2>2. CASE v = Len(rows) + 1
    BY <1>1, <1>4, <2>1, <2>2
  <2>3. CASE v \in 1..Len(rows)
    <3>1. RulesOf(rows)[v] = rows[v].rules
      BY <1>1, <2>3 DEF RulesOf
    <3> QED BY <1>1, <1>4, <2>1, <2>3, <3>1
  <2> QED BY <1>1, <2>2, <2>3
<1>6. a = b
  BY <1>3, <1>4, <1>5, SeqEqual
<1> QED BY <1>6 DEF a, b

\* Appending a version appends its rules.
LEMMA RuleAdded ==
  ASSUME Inv, NEW s \in Slugs, NEW row \in VersionRow,
         versions' = [versions EXCEPT ![s] = Append(@, row)]
  PROVE  RuleLog' = [RuleLog EXCEPT ![s] = Append(@, row.rules)] /\ row.rules \in Rule
<1>1. /\ versions'[s] = Append(versions[s], row) /\ versions[s] \in Seq(VersionRow)
      /\ \A i \in Slugs \ {s} : versions'[i] = versions[i]
  BY DEF Inv, Typed
<1>2. RulesOf(versions'[s]) = Append(RulesOf(versions[s]), row.rules)
  BY <1>1, RulesOfAppended
<1>3. RuleLog' = [i \in Slugs |-> RulesOf(versions'[i])]
  BY DEF RuleLog, RulesOf
<1>4. RuleLog = [i \in Slugs |-> RulesOf(versions[i])]
  BY DEF RuleLog
<1>5. [RuleLog EXCEPT ![s] = Append(@, row.rules)]
        = [i \in Slugs |-> IF i = s THEN Append(RulesOf(versions[s]), row.rules) ELSE RulesOf(versions[i])]
  BY <1>4
<1>6. ASSUME NEW i \in Slugs
      PROVE  RulesOf(versions'[i]) = IF i = s THEN Append(RulesOf(versions[s]), row.rules) ELSE RulesOf(versions[i])
  <2>1. CASE i = s
    BY <1>2, <2>1
  <2>2. CASE i # s
    <3>1. versions'[i] = versions[i]
      BY <1>1, <2>2
    <3> QED BY <2>2, <3>1 DEF RulesOf
  <2> QED BY <2>1, <2>2
<1>7. row.rules \in Rule
  BY DEF VersionRow
<1> QED BY <1>3, <1>5, <1>6, <1>7

\* Seeding is Found, or nothing.
LEMMA RulesFounded ==
  ASSUME Inv, NEW q \in Requests, SeedCommit(q)
  PROVE  PackLog!Next
<1> DEFINE new == Seeded(Presets \ request[q].existing)
           first == <<Version("published", "preset")>>
           found == [s \in new |-> "preset"]
<1>1. /\ new \subseteq Slugs /\ \A s \in new : versions[s] = <<>>
      /\ first \in Seq(VersionRow) /\ Len(first) = 1 /\ first[1].rules = "preset"
      /\ versions' \in [Slugs -> Seq(VersionRow)]
      /\ \A s \in new : versions'[s] = first
      /\ \A s \in Slugs \ new : versions'[s] = versions[s]
  BY SeedCommitFounds
<1>2. RulesOf(first) = <<"preset">>
  <2> HIDE DEF first
  <2>1. RulesOf(first) \in Seq(Rule) /\ Len(RulesOf(first)) = 1
    BY <1>1, RulesOfLog
  <2>3. RulesOf(first)[1] = "preset"
    <3>1. 1 \in DOMAIN first
      BY <1>1
    <3> QED BY <1>1, <3>1 DEF RulesOf
  <2>2. <<"preset">> \in Seq(Rule) /\ Len(<<"preset">>) = 1 /\ <<"preset">>[1] = "preset"
    BY DEF Rule
  <2> QED BY <2>1, <2>2, <2>3, SeqEqual
<1>3. RulesOf(<<>>) = <<>>
  BY RulesOfEmpty
<1>4. RuleLog = [s \in Slugs |-> RulesOf(versions[s])] /\ RuleLog' = [s \in Slugs |-> RulesOf(versions'[s])]
  BY DEF RuleLog, RulesOf
<1> HIDE DEF new, first
<1>5. found \in [new -> Rule] /\ DOMAIN found = new /\ \A s \in new : found[s] = "preset"
  BY DEF Rule
<1>6. \A s \in new : RuleLog[s] = <<>>
  BY <1>1, <1>3, <1>4
<1>7. RuleLog' = [s \in Slugs |-> IF s \in DOMAIN found THEN <<found[s]>> ELSE RuleLog[s]]
  <2>1. \A s \in Slugs : RulesOf(versions'[s]) = IF s \in new THEN <<"preset">> ELSE RulesOf(versions[s])
    BY <1>1, <1>2
  <2>2. \A s \in Slugs : (IF s \in DOMAIN found THEN <<found[s]>> ELSE RuleLog[s])
                            = IF s \in new THEN <<"preset">> ELSE RulesOf(versions[s])
    BY <1>4, <1>5
  <2> HIDE DEF found
  <2> QED BY <1>4, <2>1, <2>2
<1> HIDE DEF found
<1>8. ASSUME NEW S \in SUBSET Slugs, NEW f \in [S -> Rule],
             \A s \in S : RuleLog[s] = <<>>,
             RuleLog' = [s \in Slugs |-> IF s \in S THEN <<f[s]>> ELSE RuleLog[s]]
      PROVE  PackLog!Next
  <2>1. PackLog!Found(f)
    BY <1>8 DEF PackLog!Found, RuleLog, RulesOf
  <2> QED BY <2>1 DEF PackLog!Next, Rule
<1> QED BY <1>1, <1>5, <1>6, <1>7, <1>8

LEMMA RuleStep ==
  ASSUME Inv, Next
  PROVE  PackLog!Next \/ UNCHANGED RuleLog
<1> USE DEF Read, Rejected
<1>0. UNCHANGED versions => UNCHANGED RuleLog
  BY DEF RuleLog
<1>1. ASSUME NEW s \in Slugs, NEW row \in VersionRow, versions' = [versions EXCEPT ![s] = Append(@, row)]
      PROVE  PackLog!Next
  <2>1. RuleLog' = [RuleLog EXCEPT ![s] = Append(@, row.rules)] /\ row.rules \in Rule
    BY <1>1, RuleAdded
  <2>2. PackLog!Add(s, row.rules)
    BY <2>1 DEF PackLog!Add, RuleLog, RulesOf
  <2> QED BY <2>1, <2>2 DEF PackLog!Next, Rule
<1>2. CASE ProductNext
  <2>1. UNCHANGED versions
    BY <1>2 DEF ProductNext, CreateCommit, ChangeCommit, AnalyzeNumber, AnchorCommit, AddReference,
                AnchorRead, AnalyzeRead, CreateRead, ChangeRead
  <2> QED BY <1>0, <2>1
<1>3. ASSUME NEW q \in Requests, SeedCommit(q)
      PROVE  PackLog!Next
  BY <1>3, RulesFounded
<1>4. ASSUME NEW q \in Requests, VersionCommit(q)
      PROVE  PackLog!Next \/ UNCHANGED RuleLog
  <2>1. CASE Rejected(q)
    BY <1>0, <2>1
  <2>2. CASE ~Rejected(q)
    BY <1>1, <1>4, <2>2, VersionCommitAppends
  <2> QED BY <2>1, <2>2
<1>5. ASSUME NEW s \in Slugs, NEW r \in Rules, CreatePack(s, r)
      PROVE  PackLog!Next
  BY <1>1, <1>5, CreatePackAppends
<1>6. ASSUME NEW q \in Requests, PublishCommit(q)
      PROVE  UNCHANGED RuleLog
  <2>1. \A s \in Slugs : RulesOf(versions'[s]) = RulesOf(versions[s])
    BY <1>6, PublishKeepsRules DEF RulesOf
  <2> QED BY <2>1 DEF RuleLog, RulesOf
<1>7. ASSUME NEW q \in Requests, SeedRead(q)
      PROVE  UNCHANGED RuleLog
  BY <1>0, <1>7 DEF SeedRead
<1>8. ASSUME NEW q \in Requests, NEW s \in Slugs,
             \/ \E r \in Rules \union {"preset"} : VersionRead(q, s, r)
             \/ \E v \in 1..MaxVersions : PublishRead(q, s, v)
      PROVE  UNCHANGED RuleLog
  BY <1>0, <1>8 DEF VersionRead, PublishRead
<1>9. CASE PackNext
  BY <1>3, <1>4, <1>5, <1>6, <1>7, <1>8, <1>9 DEF PackNext
<1> QED BY <1>2, <1>9 DEF Next

\* The rules of a template pack's versions are never changed, doubled or skipped
\* (create_template_pack, create_pack_version, publish_pack_version and seeding).
THEOREM RulesLogged == Spec => RulesAreLogs
<1>1. Init => PackLog!Init
  <2> SUFFICES ASSUME Init PROVE RuleLog = [s \in Slugs |-> <<>>]
    BY DEF PackLog!Init, RuleLog, RulesOf
  <2>1. \A s \in Slugs : versions[s] = <<>>
    BY DEF Init
  <2> QED BY <2>1, RulesOfEmpty DEF RuleLog
<1>2. Inv /\ [Next]_vars => [PackLog!Next]_RuleLog
  BY RuleStep DEF vars, RuleLog
<1>3. Inv /\ [Next]_vars => [PackLog!Next]_[s \in Slugs |-> [v \in DOMAIN versions[s] |-> versions[s][v].rules]]
  BY <1>2 DEF RuleLog, RulesOf
<1> QED BY <1>1, <1>3, Invariant, PTL DEF Spec, RulesAreLogs, PackLog!Spec
=============================================================================
