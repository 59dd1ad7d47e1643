------------------------- MODULE EditProjects_proofs -------------------------
(***************************************************************************)
(* Proofs about EditProjects for any number of requests, executions,       *)
(* layers and pictures, and any length of a project's history.             *)
(*                                                                         *)
(* A request acts on what it read some commits ago, while executions may   *)
(* overtake each other on the revision it read.  What stays true is that   *)
(* the revision passed with one picture only, since a picture passes only  *)
(* where none was recorded before; and the version a request looked up is  *)
(* never above the next one, so that, if it is free, it is the next one.   *)
(* Inv says both of every request in flight.  Calm, which needs Inv, says  *)
(* that an undisturbed revision has one execution at most, which implies   *)
(* that its step is running.                                               *)
(***************************************************************************)
EXTENDS EditProjects, WellFoundedInduction, FiniteSetTheorems, TLAPS

Derivation == {"compose", "provider", "select"}

RequestType ==
  [op : {"none", "layer", "delete", "lock", "reorder"} \union Derivation,
   on : Nat, source : Pictures \union {None}, made : Assets \union {None},
   seen : Assets \union {None, Absent} \union BOOLEAN, number : Nat,
   order : Seq(LayerIds)]

ExecutionType ==
  [at : {"idle", "working", "completing", "recording", "marking"}, on : Nat,
   made : Pictures \union {None}, seen : Assets \union {None, Absent}, retry : BOOLEAN,
   step : StepStatus, batch : BatchStatus]

TypeInv ==
  /\ TypeOK
  /\ revisions \in Seq(Revision)
  /\ request \in [Requests -> RequestType]
  /\ execution \in [Executions -> ExecutionType]

\* Revisions are numbered in the order of their commits; the first has no step.
History ==
  /\ Len(revisions) > 0
  /\ \A n \in DOMAIN revisions : revisions[n].version = n - 1
  /\ revisions[1].output = Root /\ revisions[1].step = "none"
  /\ 1 \notin scanned

\* A revision passed with one picture at most, and none without an output.
Examined(n) ==
  /\ \A a, b \in Passed(n) : a = b
  /\ Passed(n) # {} => revisions[n].output # None

\* There are finitely many layers, at places of their own.
Places ==
  /\ IsFiniteSet(Existing)
  /\ \E b \in Nat : \A i \in Existing : layers[i].position <= b
  /\ \A i, k \in Existing : layers[i].position = layers[k].position => i = k

\* What a request can have made by the time it knows its version.
Content(op) ==
  CASE op = "compose" -> Pictures
    [] op = "select" -> Masks
    [] OTHER -> {None}

\* What a request knows that is still true.
Asked(r) ==
  /\ r.op \in Derivation =>
       /\ r.on \in DOMAIN revisions /\ r.source \in Pictures /\ Passed(r.on) = {r.source}
       /\ r.number <= Len(revisions)
       /\ r.number # 0 => r.made \in Content(r.op)
  /\ r.op \in {"layer", "lock"} => r.seen \in BOOLEAN
  /\ r.op = "layer" => r.number # 0

\* An execution has a step to execute, and a picture when it records one.
Started(x) ==
  x # Idle =>
    /\ x.on \in DOMAIN revisions /\ x.on # 1
    /\ x.at \in {"completing", "recording"} => x.made \in Pictures

Inv ==
  /\ TypeInv
  /\ History
  /\ \A n \in DOMAIN revisions : Examined(n)
  /\ SourceIsParentsOutput
  /\ LineageIsWitnessed
  /\ Places
  /\ \A q \in Requests : Asked(request[q])
  /\ \A e \in Executions : Started(execution[e])

-----------------------------------------------------------------------------
(* Numbers.                                                                *)

LEMMA LeastIsMember ==
  ASSUME NEW S \in SUBSET Nat, S # {}
  PROVE  Min(S) \in S /\ \A x \in S : Min(S) <= x
<1>1. PICK r \in S : \A q \in S : <<q, r>> \notin OpToRel(<, Nat)
  BY WFMin, NatLessThanWellFounded, Zenon
<1>2. \A q \in S : ~(q < r)
  BY <1>1, Zenon DEF OpToRel
<1>3. \A q \in S : r <= q
  BY <1>2
<1> QED BY <1>3 DEF Min

LEMMA GreatestIsMember ==
  ASSUME NEW S \in SUBSET Nat, S # {}, NEW b \in Nat, \A x \in S : x <= b
  PROVE  Max(S) \in S /\ \A x \in S : x <= Max(S)
<1> DEFINE T == {b - x : x \in S}
<1>0. \A x \in S : b - x \in Nat
  OBVIOUS
<1>1. T \in SUBSET Nat /\ T # {}
  BY <1>0
<1>2. Min(T) \in T /\ \A y \in T : Min(T) <= y
  BY <1>1, LeastIsMember
<1>3. PICK r \in S : Min(T) = b - r
  BY <1>2
<1>4. ASSUME NEW x \in S PROVE r >= x
  <2>1. b - r <= b - x
    BY <1>2, <1>3
  <2> QED BY <2>1, S \subseteq Nat
<1> QED BY <1>4 DEF Max

\* The versions of a project, and the next one.
LEMMA VersionsInARow ==
  ASSUME TypeInv, History
  PROVE  Versions = 0..(Len(revisions) - 1) /\ NextVersion = Len(revisions)
<1> DEFINE k == Len(revisions)
<1>1. k \in Nat \ {0} /\ DOMAIN revisions = 1..k
  BY DEF TypeInv, History
<1>2. Versions = {n - 1 : n \in 1..k}
  BY <1>1 DEF Versions, History
<1> HIDE DEF k
<1>3. {n - 1 : n \in 1..k} = 0..(k - 1)
  <2>1. ASSUME NEW v \in 0..(k - 1) PROVE \E n \in 1..k : v = n - 1
    BY <1>1, v + 1 \in 1..k
  <2>2. \A n \in 1..k : n - 1 \in 0..(k - 1)
    BY <1>1
  <2> QED BY <2>1, <2>2
<1>4. Max(0..(k - 1)) \in 0..(k - 1) /\ \A x \in 0..(k - 1) : x <= Max(0..(k - 1))
  <2> DEFINE S == 0..(k - 1)
  <2>1. S \in SUBSET Nat /\ S # {} /\ k - 1 \in Nat /\ \A x \in S : x <= k - 1
    <3>1. k - 1 \in Nat /\ 0 \in S
      BY <1>1
    <3> QED BY <3>1
  <2> HIDE DEF S
  <2>2. Max(S) \in S /\ \A x \in S : x <= Max(S)
    BY <2>1, GreatestIsMember
  <2> QED BY <2>2 DEF S
<1>5. Max(0..(k - 1)) = k - 1
  BY <1>1, <1>4
<1>6. Versions = 0..(k - 1)
  BY <1>2, <1>3
<1>7. NextVersion = k
  BY <1>1, <1>5, <1>6 DEF NextVersion
<1> QED BY <1>6, <1>7 DEF k

\* The place a list gives a layer is one where it names it.
LEMMA PlaceNames ==
  ASSUME NEW order \in Seq(LayerIds), NEW i \in Range(order)
  PROVE  /\ Place(order, i) \in 1..Len(order)
         /\ order[Place(order, i)] = i
<1> DEFINE S == {n \in DOMAIN order : order[n] = i}
<1>1. S \in SUBSET Nat /\ S # {} /\ Len(order) \in Nat /\ \A x \in S : x <= Len(order)
  BY DEF Range
<1>2. Max(S) \in S
  BY <1>1, GreatestIsMember
<1> QED BY <1>2 DEF Place

\* Two layers of one list have two places.
LEMMA PlacesDiffer ==
  ASSUME NEW order \in Seq(LayerIds), NEW i \in Range(order), NEW k \in Range(order), i # k
  PROVE  Place(order, i) # Place(order, k)
  BY PlaceNames

-----------------------------------------------------------------------------
(* What others know.                                                       *)

\* No revision is lost, none is derived anew, and what it passed with stays.
Grown ==
  /\ Len(revisions) <= Len(revisions')
  /\ evidence \subseteq evidence'
  /\ \A n \in DOMAIN revisions :
       /\ n \in DOMAIN revisions'
       /\ revisions'[n].version = revisions[n].version
       /\ revisions'[n].parent = revisions[n].parent
       /\ revisions'[n].source = revisions[n].source
       /\ Passed(n) # {} => Passed(n)' = Passed(n)

LEMMA StillAsked ==
  ASSUME TypeInv, TypeInv', Grown, NEW r \in RequestType, Asked(r)
  PROVE  Asked(r)'
<1>1. ASSUME r.op \in Derivation
      PROVE  /\ r.on \in DOMAIN revisions' /\ Passed(r.on)' = {r.source}
             /\ r.number <= Len(revisions')
  <2>1. r.on \in DOMAIN revisions /\ Passed(r.on) = {r.source}
    BY <1>1 DEF Asked
  <2>2. r.on \in DOMAIN revisions' /\ Passed(r.on)' = Passed(r.on)
    BY <2>1 DEF Grown
  <2>3. r.number \in Nat /\ Len(revisions) \in Nat /\ Len(revisions') \in Nat
    BY DEF TypeInv, RequestType
  <2> QED BY <1>1, <2>1, <2>2, <2>3 DEF Asked, Grown
<1> QED BY <1>1 DEF Asked, Content

LEMMA StillStarted ==
  ASSUME Grown, NEW x, Started(x)
  PROVE  Started(x)'
  BY DEF Started, Grown

\* What was made from a revision was made from what it passed with.
LEMMA SourcesKept ==
  ASSUME Inv, TypeInv', History', Grown,
         \A n \in DOMAIN revisions' \ DOMAIN revisions :
           LET p == revisions'[n].parent IN
           p \in DOMAIN revisions /\ Passed(p) = {revisions'[n].source},
         \A n \in DOMAIN revisions' : Ready(n)' => Passed(n)' = {revisions'[n].output}
  PROVE  SourceIsParentsOutput'
<1>0. /\ DOMAIN revisions' = 1..Len(revisions') /\ DOMAIN revisions = 1..Len(revisions)
      /\ Len(revisions) \in Nat /\ Len(revisions') \in Nat
  BY DEF Inv, TypeInv
<1> SUFFICES ASSUME NEW n \in 2..Len(revisions'), NEW p, p = revisions'[n].parent
             PROVE  /\ p \in 1..(n - 1) /\ revisions'[p].version < revisions'[n].version
                    /\ Passed(p)' = {revisions'[n].source}
  BY <1>0 DEF SourceIsParentsOutput, Passed
<1>1. p \in 1..(n - 1) /\ p \in DOMAIN revisions /\ Passed(p) = {revisions'[n].source}
  <2>1. CASE n \in DOMAIN revisions
    <3>1. n \in 2..Len(revisions) /\ p = revisions[n].parent /\ revisions'[n].source = revisions[n].source
      BY <1>0, <2>1 DEF Grown
    <3>2. p \in 1..(n - 1) /\ Passed(p) = {revisions[n].source}
      BY <3>1 DEF Inv, SourceIsParentsOutput
    <3> QED BY <1>0, <3>1, <3>2
  <2>2. CASE n \notin DOMAIN revisions
    BY <1>0, <2>2
  <2> QED BY <2>1, <2>2
<1>2. Passed(p)' = Passed(p)
  BY <1>1 DEF Grown
<1>3. revisions'[p].version = p - 1 /\ revisions'[n].version = n - 1
  BY <1>0, <1>1 DEF History
<1> QED BY <1>1, <1>2, <1>3

\* What an asset came from stays on record.
LEMMA LineageKept ==
  ASSUME Inv, Grown, selections \subseteq selections',
         \A a \in Assets : lineage'[a] \in Assets =>
           \/ lineage'[a] = lineage[a]
           \/ \E row \in evidence' : row.output = a /\ revisions'[row.on].source = lineage'[a]
           \/ <<lineage'[a], a>> \in selections'
  PROVE  LineageIsWitnessed'
<1> SUFFICES ASSUME NEW a \in Assets, lineage[a] \in Assets, lineage'[a] = lineage[a]
             PROVE  \/ \E row \in evidence' : row.output = a /\ revisions'[row.on].source = lineage'[a]
                    \/ <<lineage'[a], a>> \in selections'
  BY DEF LineageIsWitnessed
<1>1. \A row \in evidence : row \in evidence' /\ revisions'[row.on].source = revisions[row.on].source
  BY DEF Inv, TypeInv, TypeOK, Grown
<1> QED BY <1>1 DEF Inv, LineageIsWitnessed

\* A step of one request, which leaves the workers as they are.
LEMMA RequestStep ==
  ASSUME Inv, TypeOK', revisions' \in Seq(Revision), Grown,
         History', \A n \in DOMAIN revisions' : Examined(n)',
         SourceIsParentsOutput', LineageIsWitnessed', Places',
         NEW q \in Requests, NEW r \in RequestType,
         request' = [request EXCEPT ![q] = r], Asked(r)', UNCHANGED workers
  PROVE  Inv'
<1>1. /\ request \in [Requests -> RequestType] /\ TypeInv
      /\ execution' = execution
  BY DEF Inv, TypeInv, workers
<1>2. TypeInv'
  BY <1>1 DEF TypeInv
<1>3. ASSUME NEW p \in Requests PROVE Asked(request[p])'
  <2>1. CASE p = q
    BY <1>1, <2>1
  <2>2. CASE p # q
    <3>1. Asked(request[p]) /\ request[p] \in RequestType /\ request'[p] = request[p]
      BY <1>1, <2>2 DEF Inv
    <3>2. \A x \in RequestType : Asked(x) => Asked(x)'
      BY <1>1, <1>2, StillAsked
    <3> QED BY <3>1, <3>2
  <2> QED BY <2>1, <2>2
<1>4. ASSUME NEW e \in Executions PROVE Started(execution[e])'
  <2>1. \A x : Started(x) => Started(x)'
    BY StillStarted
  <2> QED BY <1>1, <2>1 DEF Inv
<1> QED BY <1>2, <1>3, <1>4 DEF Inv

LEMMA OpenAsked == Open \in RequestType /\ Asked(Open)
  BY EditAssumption DEF Open, RequestType, Asked, Derivation

LEMMA IdleType == Idle \in ExecutionType
  BY DEF Idle, ExecutionType, StepStatus, BatchStatus

\* A step of a request that leaves the revisions as they are.
LEMMA AnswerStep ==
  ASSUME Inv, TypeOK', UNCHANGED <<revisions, evidence, workers>>,
         LineageIsWitnessed', Places',
         NEW q \in Requests, NEW r \in RequestType,
         request' = [request EXCEPT ![q] = r], Asked(r)'
  PROVE  Inv'
<1>1. revisions' \in Seq(Revision) /\ UNCHANGED <<scanned, workers>>
  BY DEF Inv, TypeInv, workers
<1>2. \A n : Passed(n)' = Passed(n) /\ Ready(n)' = Ready(n)
  BY DEF Passed, Ready
<1>3. Grown
  BY <1>2 DEF Inv, TypeInv, Grown
<1>4. History' /\ \A n \in DOMAIN revisions' : Examined(n)'
  BY <1>1, <1>2 DEF Inv, History, Examined
<1>5. SourceIsParentsOutput'
  BY <1>2 DEF Inv, SourceIsParentsOutput
<1> QED BY <1>1, <1>3, <1>4, <1>5, RequestStep

\* A request that reads, or is answered without a commit.
LEMMA ReadStep ==
  ASSUME Inv, UNCHANGED <<database, workers>>, served' \in 0..MaxRequests,
         NEW q \in Requests, NEW r \in RequestType,
         request' = [request EXCEPT ![q] = r], Asked(r)
  PROVE  Inv'
<1>1. UNCHANGED <<revisions, evidence, lineage, selections, layers, scanned, disturbed, workers>>
  BY DEF database, workers
<1>2. TypeOK'
  BY <1>1 DEF Inv, TypeInv, TypeOK
<1>3. LineageIsWitnessed' /\ Places'
  BY <1>1 DEF Inv, LineageIsWitnessed, Places, Existing
<1>4. Asked(r)'
  BY <1>1 DEF Asked, Passed
<1> QED BY <1>1, <1>2, <1>3, <1>4, AnswerStep

LEMMA LayerIsThere == \A l \in Layer : l \notin {None, Deleted}
  BY EditAssumption DEF Layer

LEMMA InitInv == Init => Inv
<1> SUFFICES ASSUME Init PROVE Inv
  OBVIOUS
<1> DEFINE first == [version |-> 0, parent |-> 0, source |-> Root, output |-> Root,
                     status |-> "ready", batch |-> "none", step |-> "none"]
<1>1. revisions = <<first>> /\ first \in Revision
  BY EditAssumption DEF Init, Revision, BatchStatus, StepStatus
<1>2. layers \in [LayerIds -> Layer \union {None, Deleted}] /\ Existing = {1, 2}
  <2>1. 1 \in LayerIds /\ 2 \in LayerIds
    BY EditAssumption
  <2>2. /\ [position |-> 1, locked |-> FALSE] \notin {None, Deleted}
        /\ [position |-> 2, locked |-> TRUE] \notin {None, Deleted}
    <3>1. [position |-> 1, locked |-> FALSE] \in Layer /\ [position |-> 2, locked |-> TRUE] \in Layer
      BY DEF Layer
    <3> QED BY <3>1, LayerIsThere
  <2> QED BY <2>1, <2>2 DEF Init, Layer, Existing
<1>3. lineage \in [Assets -> Assets \union {None, Absent}]
      /\ \A a \in Assets : lineage[a] \notin Assets
  BY EditAssumption DEF Init, Assets
<1>4. TypeInv
  <2>1. \A q \in Requests : request[q] \in RequestType
    BY OpenAsked DEF Init
  <2>2. request \in [Requests -> RequestType]
    BY OpenAsked DEF Init
  <2>3. \A n \in DOMAIN revisions : revisions[n] \in Revision
    BY <1>1
  <2>4. revisions \in Seq(Revision)
    BY <1>1
  <2>5. served \in 0..MaxRequests
    BY EditAssumption DEF Init
  <2>6. execution \in [Executions -> ExecutionType]
    BY IdleType DEF Init
  <2> QED BY <1>2, <1>3, <2>2, <2>3, <2>4, <2>5, <2>6 DEF TypeInv, TypeOK, Init
<1>5. DOMAIN revisions = {1} /\ Len(revisions) = 1 /\ Passed(1) = {Root}
  BY <1>1 DEF Passed
<1>6. History /\ SourceIsParentsOutput /\ \A n \in DOMAIN revisions : Examined(n)
  <2>1. revisions[1] = first
    BY <1>1
  <2>2. History
    BY <1>5, <2>1 DEF History, Init
  <2>3. SourceIsParentsOutput
    BY <1>5, <2>1 DEF SourceIsParentsOutput
  <2>4. Examined(1)
    BY <1>5, <2>1, EditAssumption DEF Examined, Assets
  <2> QED BY <1>5, <2>2, <2>3, <2>4
<1>7. LineageIsWitnessed
  BY <1>3 DEF LineageIsWitnessed
<1>8. Places
  <2>1. IsFiniteSet({1, 2})
    <3>1. IsFiniteSet({1}) /\ {1, 2} = {1} \union {2}
      BY FS_Singleton
    <3> QED BY <3>1, FS_AddElement
  <2>2. layers[1].position = 1 /\ layers[2].position = 2
    BY EditAssumption DEF Init
  <2>3. \A i \in Existing : layers[i].position <= 2
    BY <1>2, <2>2
  <2> QED BY <1>2, <2>1, <2>2, <2>3 DEF Places
<1>9. \A q \in Requests : Asked(request[q])
  BY OpenAsked DEF Init
<1>10. \A e \in Executions : Started(execution[e])
  BY DEF Init, Started
<1> QED BY <1>4, <1>6, <1>7, <1>8, <1>9, <1>10 DEF Inv

-----------------------------------------------------------------------------
(* Revisions.                                                              *)

\* A commit that adds a revision made as the request was asked to, with or
\* without the evidence that its output passed.
LEMMA AddRevision ==
  ASSUME Inv, NEW q \in Requests, NEW r \in Revision,
         request[q].op \in Derivation,
         request[q].number # 0, VersionFree(request[q].number),
         r.version = request[q].number, r.parent = request[q].on, r.source = request[q].source,
         revisions' = Append(revisions, r), request' = [request EXCEPT ![q] = Open],
         \/ r.output = None /\ evidence' = evidence
         \/ /\ r.output \in Pictures
            /\ evidence' = evidence \union
                 {[on |-> Len(revisions) + 1, output |-> r.output, passed |-> TRUE]},
         lineage' \in [Assets -> Assets \union {None, Absent}],
         \A a \in Assets : lineage'[a] \in Assets =>
           \/ lineage'[a] = lineage[a]
           \/ r.output = a /\ r.output # None /\ r.source = lineage'[a],
         UNCHANGED <<selections, layers, served, workers>>
  PROVE  Inv'
<1>a. PICK k \in Nat : k = Len(revisions)
  BY DEF Inv, TypeInv
<1> DEFINE asked == request[q]
           row == [on |-> k + 1, output |-> r.output, passed |-> TRUE]
<1>0. TypeInv /\ History /\ k \in Nat \ {0} /\ DOMAIN revisions = 1..k
      /\ revisions \in Seq(Revision) /\ evidence \subseteq [on : 1..k, output : Pictures, passed : BOOLEAN]
  BY <1>a DEF Inv, TypeInv, TypeOK, History
<1>1. r.version = k
  <2>1. asked.number \in Nat /\ asked.number <= k
    BY <1>a, <1>0 DEF Inv, TypeInv, RequestType, Asked
  <2>2. asked.number \notin 0..(k - 1)
    BY <1>a, <1>0, VersionsInARow DEF VersionFree
  <2> QED BY <1>0, <2>1, <2>2
<1>2. /\ revisions' \in Seq(Revision) /\ Len(revisions') = k + 1
      /\ DOMAIN revisions' = 1..(k + 1)
      /\ revisions'[k + 1] = r /\ \A n \in 1..k : revisions'[n] = revisions[n]
  BY <1>a, <1>0
<1>3. \/ r.output = None /\ evidence' = evidence
      \/ r.output \in Pictures /\ evidence' = evidence \union {row}
  BY <1>a
<1>4. \A n \in 1..k : Passed(n)' = Passed(n)
  <2> SUFFICES ASSUME NEW n \in 1..k, NEW a \in Pictures
               PROVE  [on |-> n, output |-> a, passed |-> TRUE] \in evidence' <=>
                      [on |-> n, output |-> a, passed |-> TRUE] \in evidence
    BY DEF Passed
  <2>1. [on |-> n, output |-> a, passed |-> TRUE] # row
    BY <1>0
  <2> QED BY <1>3, <2>1
<1>5. /\ r.output = None => Passed(k + 1)' = {}
      /\ r.output # None => Passed(k + 1)' = {r.output}
  <2>1. \A a \in Pictures : [on |-> k + 1, output |-> a, passed |-> TRUE] \notin evidence
    BY <1>0
  <2>2. ASSUME r.output = None PROVE Passed(k + 1)' = {}
    <3>1. evidence' = evidence
      BY <1>3, <2>2, EditAssumption DEF Assets
    <3> QED BY <1>0, <2>1, <3>1 DEF Passed
  <2>3. ASSUME r.output # None PROVE Passed(k + 1)' = {r.output}
    <3>1. r.output \in Pictures /\ evidence' = evidence \union {row}
      BY <1>3, <2>3
    <3>2. \A a \in Pictures : [on |-> k + 1, output |-> a, passed |-> TRUE] = row <=> a = r.output
      OBVIOUS
    <3>3. \A a \in Pictures : [on |-> k + 1, output |-> a, passed |-> TRUE] \in evidence' <=> a = r.output
      BY <2>1, <3>1, <3>2
    <3>4. k + 1 # 1
      BY <1>0
    <3> QED BY <3>1, <3>3, <3>4 DEF Passed
  <2> QED BY <2>2, <2>3
<1>6. Grown
  BY <1>a, <1>0, <1>2, <1>3, <1>4 DEF Grown
<1>7. History'
  BY <1>0, <1>1, <1>2 DEF Inv, History, workers
<1>8. \A n \in DOMAIN revisions' : Examined(n)'
  <2>1. ASSUME NEW n \in 1..k PROVE Examined(n)'
    <3>1. Examined(n) /\ Passed(n)' = Passed(n) /\ revisions'[n] = revisions[n]
      BY <1>0, <1>2, <1>4 DEF Inv
    <3> QED BY <3>1 DEF Examined
  <2>2. Examined(k + 1)'
    BY <1>2, <1>5 DEF Examined
  <2> QED BY <1>0, <1>2, <2>1, <2>2
<1>9. TypeOK'
  <2>1. evidence' \subseteq [on : DOMAIN revisions', output : Pictures, passed : BOOLEAN]
    <3>1. evidence \subseteq [on : 1..(k + 1), output : Pictures, passed : BOOLEAN]
      BY <1>0
    <3>2. r.output \in Pictures => row \in [on : 1..(k + 1), output : Pictures, passed : BOOLEAN]
      BY <1>0
    <3> QED BY <1>2, <1>3, <3>1, <3>2
  <2> QED BY <1>0, <1>2, <2>1 DEF TypeInv, TypeOK, workers
<1>10. TypeInv'
  <2>1. request' \in [Requests -> RequestType]
    BY <1>0, OpenAsked DEF TypeInv
  <2> QED BY <1>0, <1>2, <1>9, <2>1 DEF TypeInv, workers
<1>11. SourceIsParentsOutput'
  <2>1. r.parent \in DOMAIN revisions /\ Passed(r.parent) = {r.source}
    BY DEF Inv, Asked
  <2>2. \A n \in DOMAIN revisions' \ DOMAIN revisions : revisions'[n] = r
    BY <1>0, <1>2
  <2>3. ASSUME NEW n \in DOMAIN revisions', Ready(n)'
        PROVE  Passed(n)' = {revisions'[n].output}
    <3>1. CASE n \in 1..k
      <4>1. Ready(n)
        BY <1>2, <2>3, <3>1 DEF Ready
      <4> QED BY <1>0, <1>2, <1>4, <3>1, <4>1 DEF Inv, SourceIsParentsOutput
    <3>2. CASE n = k + 1
      BY <1>2, <1>5, <2>3, <3>2 DEF Ready
    <3> QED BY <1>0, <1>2, <3>1, <3>2
  <2> QED BY <1>6, <1>7, <1>10, <2>1, <2>2, <2>3, SourcesKept
<1>12. LineageIsWitnessed'
  <2>1. ASSUME NEW a \in Assets, r.output = a, r.output # None, r.source = lineage'[a]
        PROVE  \E x \in evidence' : x.output = a /\ revisions'[x.on].source = lineage'[a]
    <3>1. row \in evidence' /\ row.output = a /\ revisions'[row.on] = r
      BY <1>2, <1>3, <2>1
    <3> QED BY <2>1, <3>1
  <2> QED BY <1>6, <2>1, LineageKept
<1>13. Places'
  BY DEF Inv, Places, Existing
<1>14. Asked(Open)'
  BY DEF Asked, Open, Derivation
<1> QED BY <1>2, <1>6, <1>7, <1>8, <1>9, <1>11, <1>12, <1>13, <1>14, OpenAsked, RequestStep

\* Where an asset was derived from, by the rule of Derived.
LEMMA DerivedFrom ==
  ASSUME NEW a \in Assets, NEW seen, NEW source \in Pictures,
         lineage \in [Assets -> Assets \union {None, Absent}]
  PROVE  /\ Derived(a, seen, source) \in Assets \union {None, Absent}
         /\ Derived(a, seen, source) \in Assets =>
              Derived(a, seen, source) = lineage[a] \/ Derived(a, seen, source) = source
<1>1. source \in Assets
  BY DEF Assets
<1>2. CASE seen \notin {Absent, None}
  BY <1>2 DEF Derived
<1>3. CASE seen \in {Absent, None} /\ a # source
  BY <1>1, <1>3 DEF Derived
<1>4. CASE seen \in {Absent, None} /\ a = source
  BY <1>4, EditAssumption DEF Derived
<1> QED BY <1>2, <1>3, <1>4

LEMMA CommitCompositionInv ==
  ASSUME Inv, NEW q \in Requests, CommitComposition(q)
  PROVE  Inv'
<1> DEFINE asked == request[q]
           r == Made(asked, "ready", "review_pending", "succeeded")
           parent == Derived(asked.made, asked.seen, asked.source)
<1>1. /\ asked.op = "compose" /\ asked.op \in Derivation /\ asked.number # 0
      /\ VersionFree(asked.number)
      /\ lineage' = [lineage EXCEPT ![asked.made] = parent]
      /\ revisions' = Append(revisions, r) /\ request' = [request EXCEPT ![q] = Open]
      /\ evidence' = evidence \union
           {[on |-> Len(revisions) + 1, output |-> asked.made, passed |-> TRUE]}
      /\ UNCHANGED <<selections, layers, served, workers>>
  BY DEF CommitComposition, Answer, Derivation
<1>2. /\ asked \in RequestType /\ asked.made \in Pictures /\ asked.source \in Pictures
      /\ lineage \in [Assets -> Assets \union {None, Absent}]
  <2>1. asked \in RequestType /\ Asked(asked)
    BY DEF Inv, TypeInv
  <2>2. asked.made \in Pictures
    BY <1>1, <2>1 DEF Asked, Content
  <2>3. asked.source \in Pictures
    BY <1>1, <2>1 DEF Asked
  <2> QED BY <2>1, <2>2, <2>3 DEF Inv, TypeInv, TypeOK
<1>3. /\ r \in Revision /\ r.version = asked.number /\ r.parent = asked.on
      /\ r.source = asked.source /\ r.output = asked.made
  BY <1>2 DEF Made, Revision, RequestType, BatchStatus, StepStatus
<1>4. asked.made \in Assets /\ asked.made # None
  BY <1>2, EditAssumption DEF Assets
<1>5. /\ parent \in Assets \union {None, Absent}
      /\ parent \in Assets => parent = lineage[asked.made] \/ parent = asked.source
  BY <1>2, <1>4, DerivedFrom
<1> HIDE DEF r, parent
<1>6. lineage' \in [Assets -> Assets \union {None, Absent}]
  BY <1>1, <1>2, <1>5
<1>7. ASSUME NEW a \in Assets, lineage'[a] \in Assets
      PROVE  lineage'[a] = lineage[a] \/ (r.output = a /\ r.output # None /\ r.source = lineage'[a])
  BY <1>1, <1>2, <1>3, <1>4, <1>5, <1>7
<1>8. r.output \in Pictures /\ evidence' = evidence \union
        {[on |-> Len(revisions) + 1, output |-> r.output, passed |-> TRUE]}
  BY <1>1, <1>2, <1>3
<1> QED BY <1>1, <1>3, <1>6, <1>7, <1>8, AddRevision

LEMMA CommitRevisionInv ==
  ASSUME Inv, NEW q \in Requests, CommitRevision(q)
  PROVE  Inv'
<1> DEFINE asked == request[q]
           r == Made(asked, "queued", "queued", "queued")
<1>1. /\ asked.op = "provider" /\ asked.op \in Derivation /\ asked.number # 0
      /\ VersionFree(asked.number)
      /\ revisions' = Append(revisions, r) /\ request' = [request EXCEPT ![q] = Open]
      /\ UNCHANGED <<evidence, lineage, selections, layers, served, workers>>
  BY DEF CommitRevision, Answer, Derivation
<1>2. asked \in RequestType /\ Asked(asked)
  BY DEF Inv, TypeInv
<1>3. asked.made = None /\ asked.source \in Pictures
  BY <1>1, <1>2 DEF Asked, Content
<1>4. /\ r \in Revision /\ r.version = asked.number /\ r.parent = asked.on
      /\ r.source = asked.source /\ r.output = None
  BY <1>2, <1>3 DEF Made, Revision, RequestType, BatchStatus, StepStatus
<1>5. lineage \in [Assets -> Assets \union {None, Absent}]
  BY DEF Inv, TypeInv, TypeOK
<1> HIDE DEF r
<1> QED BY <1>1, <1>4, <1>5, AddRevision

LEMMA CommitSelectionInv ==
  ASSUME Inv, NEW q \in Requests, CommitSelection(q)
  PROVE  Inv'
<1> DEFINE asked == request[q]
           parent == Derived(asked.made, asked.seen, asked.source)
<1>1. /\ asked.op = "select" /\ asked.op \in Derivation /\ asked.number # 0
      /\ lineage' = [lineage EXCEPT ![asked.made] = parent]
      /\ selections' = selections \union {<<asked.source, asked.made>>}
      /\ request' = [request EXCEPT ![q] = Open]
      /\ UNCHANGED <<revisions, evidence, layers, served, workers>>
  BY DEF CommitSelection, Answer, Derivation
<1>2. /\ asked.made \in Assets /\ asked.source \in Pictures
      /\ lineage \in [Assets -> Assets \union {None, Absent}]
  <2>1. asked \in RequestType /\ Asked(asked)
    BY DEF Inv, TypeInv
  <2>2. asked.made \in Masks
    BY <1>1, <2>1 DEF Asked, Content
  <2> QED BY <1>1, <2>1, <2>2 DEF Inv, TypeInv, TypeOK, Assets, Asked
<1>3. /\ parent \in Assets \union {None, Absent}
      /\ parent \in Assets => parent = lineage[asked.made] \/ parent = asked.source
  BY <1>2, DerivedFrom
<1> HIDE DEF parent
<1>4. TypeOK'
  BY <1>1, <1>2, <1>3 DEF Inv, TypeInv, TypeOK, workers
<1>5. Grown
  BY <1>1 DEF Inv, TypeInv, Grown, Passed
<1>6. LineageIsWitnessed'
  <2>1. ASSUME NEW a \in Assets, lineage'[a] \in Assets
        PROVE  lineage'[a] = lineage[a] \/ <<lineage'[a], a>> \in selections'
    BY <1>1, <1>2, <1>3, <2>1
  <2> QED BY <1>1, <1>5, <2>1, LineageKept
<1>7. Places'
  BY <1>1 DEF Inv, Places, Existing
<1>8. Asked(Open)'
  BY DEF Asked, Open, Derivation
<1> QED BY <1>1, <1>4, <1>6, <1>7, <1>8, OpenAsked, AnswerStep

-----------------------------------------------------------------------------
(* Executions.                                                             *)

\* A commit on one revision that was derived, with or without new evidence.
LEMMA WorkStep ==
  ASSUME Inv, NEW n \in DOMAIN revisions, n # 1, NEW r \in Revision,
         r.version = revisions[n].version, r.parent = revisions[n].parent,
         r.source = revisions[n].source,
         revisions' = [revisions EXCEPT ![n] = r],
         \/ /\ evidence' = evidence
            /\ r.output = revisions[n].output
            /\ r.status = revisions[n].status \/ r.status = "failed"
         \/ /\ r.output \in Pictures
            /\ \E passed \in BOOLEAN :
                 /\ evidence' = evidence \union
                      {[on |-> n, output |-> r.output, passed |-> passed]}
                 /\ passed => revisions[n].output = None
                 /\ r.status = "ready" => passed,
         lineage' \in [Assets -> Assets \union {None, Absent}],
         \A a \in Assets : lineage'[a] \in Assets =>
           \/ lineage'[a] = lineage[a]
           \/ \E row \in evidence' : row.on = n /\ row.output = a /\ lineage'[a] = r.source,
         execution' \in [Executions -> ExecutionType],
         \A e \in Executions : Started(execution'[e]),
         served' \in 0..MaxRequests, scanned' = scanned,
         disturbed' \in SUBSET DOMAIN revisions,
         UNCHANGED <<selections, layers, request>>
  PROVE  Inv'
<1>a. PICK k \in Nat : k = Len(revisions)
  BY DEF Inv, TypeInv
<1>0. TypeInv /\ History /\ k \in Nat \ {0} /\ DOMAIN revisions = 1..k
      /\ revisions \in Seq(Revision)
  BY <1>a DEF Inv, TypeInv, History
<1>1. /\ revisions' \in Seq(Revision) /\ Len(revisions') = k /\ DOMAIN revisions' = 1..k
      /\ revisions'[n] = r /\ \A m \in 1..k : m # n => revisions'[m] = revisions[m]
  BY <1>a, <1>0
<1>2. Examined(n)
  BY DEF Inv
<1>3. ASSUME NEW m \in 1..k, m # n PROVE Passed(m)' = Passed(m)
  BY <1>3 DEF Passed
<1>4. /\ Passed(n) # {} => Passed(n)' = Passed(n)
      /\ \A a, b \in Passed(n)' : a = b
      /\ Passed(n)' # {} => r.output # None
      /\ Ready(n)' => Passed(n)' = {r.output}
  <2>1. CASE /\ evidence' = evidence /\ r.output = revisions[n].output
             /\ r.status = revisions[n].status \/ r.status = "failed"
    <3>1. Passed(n)' = Passed(n)
      BY <2>1 DEF Passed
    <3>2. Ready(n)' => Ready(n)
      BY <1>1, <2>1 DEF Ready
    <3> QED BY <1>2, <2>1, <3>1, <3>2 DEF Examined, Inv, SourceIsParentsOutput
  <2>2. ASSUME r.output \in Pictures, NEW passed \in BOOLEAN,
               evidence' = evidence \union {[on |-> n, output |-> r.output, passed |-> passed]},
               passed => revisions[n].output = None,
               r.status = "ready" => passed
        PROVE  /\ Passed(n) # {} => Passed(n)' = Passed(n)
               /\ \A a, b \in Passed(n)' : a = b
               /\ Passed(n)' # {} => r.output # None
               /\ Ready(n)' => Passed(n)' = {r.output}
    <3>0. r.output # None
      BY <2>2, EditAssumption DEF Assets
    <3>1. CASE passed
      <4>1. Passed(n) = {}
        BY <1>2, <2>2, <3>1 DEF Examined
      <4>2. \A a \in Pictures : [on |-> n, output |-> a, passed |-> TRUE] \notin evidence
        BY <4>1 DEF Passed
      <4>3. \A a \in Pictures : [on |-> n, output |-> a, passed |-> TRUE] \in evidence' <=> a = r.output
        BY <2>2, <3>1, <4>2
      <4>4. Passed(n)' = {r.output}
        BY <2>2, <4>3 DEF Passed
      <4> QED BY <3>0, <4>1, <4>4
    <3>2. CASE ~passed
      <4>1. \A a \in Pictures : [on |-> n, output |-> a, passed |-> TRUE] # [on |-> n, output |-> r.output, passed |-> passed]
        BY <3>2
      <4>2. Passed(n)' = Passed(n)
        BY <2>2, <4>1 DEF Passed
      <4>3. ~Ready(n)'
        BY <1>1, <2>2, <3>2 DEF Ready
      <4> QED BY <1>2, <3>0, <4>2, <4>3 DEF Examined
    <3> QED BY <3>1, <3>2
  <2> QED BY <2>1, <2>2
<1>5. Grown
  BY <1>a, <1>0, <1>1, <1>3, <1>4 DEF Grown
<1>6. TypeInv'
  <2>1. evidence' \subseteq [on : DOMAIN revisions', output : Pictures, passed : BOOLEAN]
    BY <1>0, <1>1 DEF TypeInv, TypeOK
  <2> QED BY <1>0, <1>1, <2>1 DEF TypeInv, TypeOK
<1>7. History'
  BY <1>0, <1>1 DEF History
<1>8. \A m \in DOMAIN revisions' : Examined(m)'
  <2>1. ASSUME NEW m \in 1..k, m # n PROVE Examined(m)'
    <3>1. Examined(m) /\ Passed(m)' = Passed(m) /\ revisions'[m] = revisions[m]
      BY <1>0, <1>1, <1>3, <2>1 DEF Inv
    <3> QED BY <3>1 DEF Examined
  <2>2. Examined(n)'
    BY <1>1, <1>4 DEF Examined
  <2> QED BY <1>1, <2>1, <2>2
<1>9. SourceIsParentsOutput'
  <2>1. ASSUME NEW m \in DOMAIN revisions', m # n, Ready(m)'
        PROVE  Passed(m)' = {revisions'[m].output}
    <3>1. Ready(m) /\ revisions'[m] = revisions[m]
      BY <1>1, <2>1 DEF Ready
    <3> QED BY <1>0, <1>1, <1>3, <2>1, <3>1 DEF Inv, SourceIsParentsOutput
  <2>2. \A m \in DOMAIN revisions' : Ready(m)' => Passed(m)' = {revisions'[m].output}
    BY <1>1, <1>4, <2>1
  <2> QED BY <1>0, <1>1, <1>5, <1>6, <1>7, <2>2, SourcesKept
<1>10. LineageIsWitnessed'
  <2>1. \A a \in Assets : lineage'[a] \in Assets =>
          \/ lineage'[a] = lineage[a]
          \/ \E row \in evidence' : row.output = a /\ revisions'[row.on].source = lineage'[a]
    BY <1>1
  <2> QED BY <1>5, <2>1, LineageKept
<1>11. Places'
  BY DEF Inv, Places, Existing
<1>12. \A q \in Requests : Asked(request[q])'
  BY <1>0, <1>5, <1>6, StillAsked DEF Inv, TypeInv
<1>13. \A e \in Executions : Started(execution[e])'
  <2>1. \A e \in Executions : Started(execution'[e])
    OBVIOUS
  <2> QED BY <1>0, <1>1, <2>1 DEF Started
<1> QED BY <1>6, <1>7, <1>8, <1>9, <1>10, <1>11, <1>12, <1>13 DEF Inv

\* A worker that reads.
LEMMA WorkRead ==
  ASSUME Inv, UNCHANGED <<database, served, request, disturbed>>,
         execution' \in [Executions -> ExecutionType],
         \A e \in Executions : Started(execution'[e]),
         scanned' \in SUBSET DOMAIN revisions, 1 \notin scanned'
  PROVE  Inv'
<1>1. UNCHANGED <<revisions, evidence, lineage, selections, layers>>
  BY DEF database
<1>2. TypeInv'
  BY <1>1 DEF Inv, TypeInv, TypeOK
<1>3. History' /\ \A n \in DOMAIN revisions' : Examined(n)'
  BY <1>1 DEF Inv, History, Examined, Passed
<1>4. SourceIsParentsOutput' /\ LineageIsWitnessed' /\ Places'
  <2>1. SourceIsParentsOutput'
    BY <1>1 DEF Inv, SourceIsParentsOutput, Passed, Ready
  <2>2. LineageIsWitnessed' /\ Places'
    BY <1>1 DEF Inv, LineageIsWitnessed, Places, Existing
  <2> QED BY <2>1, <2>2
<1>5. \A q \in Requests : Asked(request[q])'
  BY <1>1 DEF Inv, Asked, Passed
<1>6. \A e \in Executions : Started(execution[e])'
  <2>1. \A e \in Executions : Started(execution'[e])
    OBVIOUS
  <2> QED BY <1>1, <2>1 DEF Started
<1> QED BY <1>2, <1>3, <1>4, <1>5, <1>6 DEF Inv

\* An execution that moves to a state that suits it.
LEMMA Advanced ==
  ASSUME Inv, NEW e \in Executions, NEW x \in ExecutionType, Started(x),
         execution' = [execution EXCEPT ![e] = x]
  PROVE  /\ execution' \in [Executions -> ExecutionType]
         /\ \A f \in Executions : Started(execution'[f])
         /\ execution'[e] = x
         /\ \A f \in Executions : f # e => execution'[f] = execution[f]
<1>1. execution \in [Executions -> ExecutionType] /\ \A f \in Executions : Started(execution[f])
  BY DEF Inv, TypeInv
<1>2. /\ execution' \in [Executions -> ExecutionType] /\ execution'[e] = x
      /\ \A f \in Executions : f # e => execution'[f] = execution[f]
  BY <1>1
<1>3. ASSUME NEW f \in Executions PROVE Started(execution'[f])
  <2>1. CASE f = e
    BY <1>2, <2>1
  <2>2. CASE f # e
    BY <1>1, <1>2, <2>2
  <2> QED BY <2>1, <2>2
<1> QED BY <1>2, <1>3

LEMMA IdleStarted == Started(Idle)
  BY DEF Started

\* What an execution that is not idle has.
LEMMA Busy ==
  ASSUME Inv, NEW e \in Executions, execution[e].at # "idle"
  PROVE  /\ execution[e] \in ExecutionType /\ execution[e] # Idle
         /\ execution[e].on \in DOMAIN revisions /\ execution[e].on # 1
         /\ revisions[execution[e].on] \in Revision
         /\ execution[e].at \in {"completing", "recording"} => execution[e].made \in Pictures
<1>1. execution[e] \in ExecutionType /\ Started(execution[e])
  BY DEF Inv, TypeInv
<1>2. execution[e] # Idle
  BY DEF Idle
<1> QED BY <1>1, <1>2 DEF Started, Inv, TypeInv, TypeOK

LEMMA LeaseInv ==
  ASSUME Inv, NEW e \in Executions, NEW n \in DOMAIN revisions, Lease(e, n)
  PROVE  Inv'
<1> DEFINE x == [Idle EXCEPT !.at = "working", !.on = n]
           r == [revisions[n] EXCEPT !.step = "running", !.batch = "running"]
<1>1. /\ revisions[n] \in Revision /\ revisions \in Seq(Revision) /\ n \in Nat /\ n # 1
      /\ lineage \in [Assets -> Assets \union {None, Absent}]
      /\ disturbed \in SUBSET DOMAIN revisions
  BY DEF Inv, TypeInv, TypeOK, Lease, Claimable, History
<1>2. /\ x \in ExecutionType /\ x.on = n /\ x.at = "working"
  BY <1>1 DEF Idle, ExecutionType, StepStatus, BatchStatus
<1>3. Started(x)
  BY <1>1, <1>2 DEF Started
<1>4. /\ r \in Revision /\ r.version = revisions[n].version /\ r.parent = revisions[n].parent
      /\ r.source = revisions[n].source /\ r.output = revisions[n].output
      /\ r.status = revisions[n].status
  BY <1>1 DEF Revision, StepStatus, BatchStatus
<1>5. /\ revisions' = [revisions EXCEPT ![n] = r] /\ execution' = [execution EXCEPT ![e] = x]
      /\ UNCHANGED <<evidence, lineage, selections, layers, request, scanned, disturbed>>
      /\ served' \in 0..MaxRequests
  <2>1. served' \in 0..MaxRequests
    BY EditAssumption DEF Lease, Inv, TypeInv, TypeOK
  <2>2. revisions' = [revisions EXCEPT ![n] = r]
    BY <1>1 DEF Lease
  <2> QED BY <2>1, <2>2 DEF Lease
<1> HIDE DEF r, x
<1>6. execution' \in [Executions -> ExecutionType] /\ \A f \in Executions : Started(execution'[f])
  BY <1>2, <1>3, <1>5, Advanced
<1> QED BY <1>1, <1>4, <1>5, <1>6, WorkStep

\* An action that sets the step of a revision and perhaps its batch.
LEMMA SetStep ==
  ASSUME Inv, NEW n \in DOMAIN revisions, revisions[n].step # "none" \/ n # 1,
         NEW st \in StepStatus, NEW bt \in BatchStatus,
         revisions' = [revisions EXCEPT ![n].step = st, ![n].batch = bt],
         disturbed' \in SUBSET DOMAIN revisions,
         UNCHANGED <<evidence, lineage, selections, layers, served, request, execution, scanned>>
  PROVE  Inv'
<1> DEFINE r == [revisions[n] EXCEPT !.step = st, !.batch = bt]
<1>1. /\ revisions[n] \in Revision /\ revisions \in Seq(Revision) /\ n # 1
      /\ lineage \in [Assets -> Assets \union {None, Absent}]
      /\ served \in 0..MaxRequests
      /\ execution \in [Executions -> ExecutionType] /\ \A e \in Executions : Started(execution[e])
  BY DEF Inv, TypeInv, TypeOK, History
<1>2. /\ r \in Revision /\ r.version = revisions[n].version /\ r.parent = revisions[n].parent
      /\ r.source = revisions[n].source /\ r.output = revisions[n].output
      /\ r.status = revisions[n].status
  BY <1>1 DEF Revision
<1>3. revisions' = [revisions EXCEPT ![n] = r]
  BY <1>1
<1> HIDE DEF r
<1> QED BY <1>1, <1>2, <1>3, WorkStep

LEMMA TimeInv ==
  ASSUME Inv, NEW n \in DOMAIN revisions
  PROVE  /\ RefuseDisabled(n) => Inv'
         /\ LeaseExpires(n) => Inv'
         /\ RecoverRead(n) => Inv'
         /\ RecoverCommit(n) => Inv'
         /\ RecoverEnd(n) => Inv'
<1>0. /\ disturbed \in SUBSET DOMAIN revisions /\ disturbed \union {n} \in SUBSET DOMAIN revisions
      /\ scanned \in SUBSET DOMAIN revisions /\ 1 \notin scanned
      /\ revisions[n] \in Revision /\ revisions \in Seq(Revision)
      /\ execution \in [Executions -> ExecutionType] /\ \A e \in Executions : Started(execution[e])
      /\ revisions[1].step = "none"
  BY DEF Inv, TypeInv, TypeOK, History
<1> DEFINE bt == revisions[n].batch
<1>1. bt \in BatchStatus
  BY <1>0 DEF Revision
<1>2. ASSUME RefuseDisabled(n) PROVE Inv'
  <2>1. /\ revisions' = [revisions EXCEPT ![n].step = "failed", ![n].batch = "failed"]
        /\ UNCHANGED <<evidence, lineage, selections, layers, served, request, execution, scanned, disturbed>>
        /\ revisions[n].step # "none"
    BY <1>2 DEF RefuseDisabled, Claimable, workers
  <2> QED BY <1>0, <2>1, SetStep DEF StepStatus, BatchStatus
<1>3. ASSUME LeaseExpires(n) PROVE Inv'
  <2>1. /\ revisions' = [revisions EXCEPT ![n].step = "expired", ![n].batch = bt]
        /\ UNCHANGED <<evidence, lineage, selections, layers, served, request, execution, scanned>>
        /\ revisions[n].step # "none" /\ disturbed' \in SUBSET DOMAIN revisions
    BY <1>0, <1>3 DEF LeaseExpires, Revision
  <2> QED BY <1>1, <2>1, SetStep DEF StepStatus
<1>4. ASSUME RecoverCommit(n) PROVE Inv'
  <2>1. /\ revisions' = [revisions EXCEPT ![n].step = "retry_queued", ![n].batch = bt]
        /\ UNCHANGED <<evidence, lineage, selections, layers, served, request, execution, scanned>>
        /\ n # 1 /\ disturbed' \in SUBSET DOMAIN revisions
    BY <1>0, <1>4 DEF RecoverCommit, Revision
  <2> QED BY <1>1, <2>1, SetStep DEF StepStatus
<1>5. ASSUME RecoverRead(n) \/ RecoverEnd(n) PROVE Inv'
  <2>1. /\ UNCHANGED <<database, served, request, execution, disturbed>>
        /\ scanned' \in SUBSET DOMAIN revisions /\ 1 \notin scanned'
    BY <1>0, <1>5 DEF RecoverRead, RecoverEnd
  <2> QED BY <1>0, <2>1, WorkRead
<1> QED BY <1>2, <1>3, <1>4, <1>5

\* What an execution reads.
LEMMA WorkReadInv ==
  ASSUME Inv, NEW e \in Executions
  PROVE  /\ \A a \in Pictures : CompleteRead(e, a) => Inv'
         /\ CompleteLook(e) => Inv'
         /\ \A retry \in BOOLEAN : FailRead(e, retry) => Inv'
         /\ Stop(e) => Inv'
<1> DEFINE x == execution[e]
<1>1. ASSUME NEW y \in ExecutionType, Started(y), Advance(e, y), UNCHANGED database PROVE Inv'
  <2>1. execution' \in [Executions -> ExecutionType] /\ \A f \in Executions : Started(execution'[f])
    BY <1>1, Advanced DEF Advance
  <2> QED BY <1>1, <2>1, WorkRead DEF Advance, Inv, TypeInv, TypeOK, History
<1>2. ASSUME NEW a \in Pictures, CompleteRead(e, a) PROVE Inv'
  <2> DEFINE y == [x EXCEPT !.at = "completing", !.made = a]
  <2>1. x \in ExecutionType /\ x.on \in DOMAIN revisions /\ x.on # 1
    BY <1>2, Busy DEF CompleteRead
  <2>2. y \in ExecutionType /\ y.on = x.on /\ y.made = a
    BY <2>1 DEF ExecutionType
  <2>3. Started(y) /\ Started(Idle) /\ Idle \in ExecutionType
    BY <2>1, <2>2, IdleStarted, IdleType DEF Started
  <2>4. (Advance(e, y) \/ Advance(e, Idle)) /\ UNCHANGED database
    BY <1>2 DEF CompleteRead
  <2> HIDE DEF y
  <2> QED BY <1>1, <2>2, <2>3, <2>4
<1>3. ASSUME CompleteLook(e) PROVE Inv'
  <2> DEFINE y == [x EXCEPT !.at = "recording", !.seen = lineage[x.made]]
  <2>1. x \in ExecutionType /\ x.on \in DOMAIN revisions /\ x.on # 1 /\ x.made \in Pictures
    BY <1>3, Busy DEF CompleteLook
  <2>2. lineage[x.made] \in Assets \union {None, Absent}
    BY <2>1 DEF Inv, TypeInv, TypeOK, Assets
  <2>3. y \in ExecutionType /\ y.on = x.on /\ y.made = x.made
    BY <2>1, <2>2 DEF ExecutionType
  <2>4. Started(y)
    BY <2>1, <2>3 DEF Started
  <2>5. Advance(e, y) /\ UNCHANGED database
    BY <1>3 DEF CompleteLook
  <2> HIDE DEF y
  <2> QED BY <1>1, <2>3, <2>4, <2>5
<1>4. ASSUME NEW retry \in BOOLEAN, FailRead(e, retry) PROVE Inv'
  <2> DEFINE r == revisions[x.on]
             y == [x EXCEPT !.at = "marking", !.retry = retry, !.step = r.step, !.batch = r.batch]
  <2>1. x \in ExecutionType /\ x.on \in DOMAIN revisions /\ x.on # 1 /\ r \in Revision
    BY <1>4, Busy DEF FailRead
  <2>2. y \in ExecutionType /\ y.on = x.on /\ y.at = "marking"
    BY <2>1 DEF ExecutionType, Revision
  <2>3. Started(y) /\ Started(Idle) /\ Idle \in ExecutionType
    BY <2>1, <2>2, IdleStarted, IdleType DEF Started
  <2>4. (Advance(e, y) \/ Advance(e, Idle)) /\ UNCHANGED database
    BY <1>4 DEF FailRead
  <2> HIDE DEF y
  <2> QED BY <1>1, <2>2, <2>3, <2>4
<1>5. ASSUME Stop(e) PROVE Inv'
  BY <1>1, <1>5, IdleStarted, IdleType DEF Stop
<1> QED BY <1>2, <1>3, <1>4, <1>5

LEMMA CompleteCommitInv ==
  ASSUME Inv, NEW e \in Executions, NEW fits \in BOOLEAN, CompleteCommit(e, fits)
  PROVE  Inv'
<1> DEFINE x == execution[e]
           n == x.on
           passed == Passes(n, fits)
           st == IF passed THEN "ready" ELSE "failed"
           bt == IF passed THEN "review_pending" ELSE "failed"
           r == [revisions[n] EXCEPT !.output = x.made, !.step = "succeeded", !.status = st, !.batch = bt]
           parent == Derived(x.made, x.seen, revisions[n].source)
<1>1. /\ n \in DOMAIN revisions /\ n # 1 /\ x.made \in Pictures /\ revisions[n] \in Revision
      /\ revisions \in Seq(Revision) /\ lineage \in [Assets -> Assets \union {None, Absent}]
      /\ x.made \in Assets /\ disturbed \in SUBSET DOMAIN revisions /\ served \in 0..MaxRequests
  BY Busy DEF CompleteCommit, Inv, TypeInv, TypeOK, Assets
<1>2. passed \in BOOLEAN /\ (passed => revisions[n].output = None)
  BY DEF Passes
<1>3. /\ r \in Revision /\ r.version = revisions[n].version /\ r.parent = revisions[n].parent
      /\ r.source = revisions[n].source /\ r.output = x.made
      /\ r.status = "ready" => passed
  BY <1>1 DEF Revision, StepStatus, BatchStatus
<1>4. /\ parent \in Assets \union {None, Absent}
      /\ parent \in Assets => parent = lineage[x.made] \/ parent = revisions[n].source
  <2>1. revisions[n].source \in Pictures
    BY <1>1 DEF Revision
  <2> QED BY <1>1, <2>1, DerivedFrom
<1>5. /\ lineage' = [lineage EXCEPT ![x.made] = parent]
      /\ evidence' = evidence \union {[on |-> n, output |-> x.made, passed |-> passed]}
      /\ revisions' = [revisions EXCEPT ![n] = r]
      /\ execution' = [execution EXCEPT ![e] = Idle]
      /\ UNCHANGED <<selections, layers, served, request, scanned, disturbed>>
  BY <1>1 DEF CompleteCommit, Advance
<1> HIDE DEF r, parent, passed, x
<1>6. execution' \in [Executions -> ExecutionType] /\ \A f \in Executions : Started(execution'[f])
  BY <1>5, IdleType, IdleStarted, Advanced
<1>7. lineage' \in [Assets -> Assets \union {None, Absent}]
  BY <1>1, <1>4, <1>5
<1>8. ASSUME NEW a \in Assets, lineage'[a] \in Assets, lineage'[a] # lineage[a]
      PROVE  \E row \in evidence' : row.on = n /\ row.output = a /\ lineage'[a] = r.source
  <2>1. a = x.made /\ lineage'[a] = r.source
    BY <1>1, <1>3, <1>4, <1>5, <1>8
  <2> DEFINE row == [on |-> n, output |-> x.made, passed |-> passed]
  <2>2. row \in evidence' /\ row.on = n /\ row.output = x.made
    BY <1>5
  <2> HIDE DEF row
  <2> QED BY <2>1, <2>2
<1>9. \E p \in BOOLEAN :
        /\ evidence' = evidence \union {[on |-> n, output |-> r.output, passed |-> p]}
        /\ p => revisions[n].output = None
        /\ r.status = "ready" => p
  BY <1>2, <1>3, <1>5
<1> HIDE DEF n
<1> QED BY <1>1, <1>3, <1>5, <1>6, <1>7, <1>8, <1>9, WorkStep

LEMMA FailCommitInv ==
  ASSUME Inv, NEW e \in Executions, FailCommit(e)
  PROVE  Inv'
<1> DEFINE x == execution[e]
           n == x.on
           new == IF x.retry THEN "retry_queued" ELSE "failed"
           st == Flushed(revisions[n].step, x.step, new)
           bt == Flushed(revisions[n].batch, x.batch, new)
           r == [revisions[n] EXCEPT !.status = "failed", !.step = st, !.batch = bt]
<1>1. /\ n \in DOMAIN revisions /\ n # 1 /\ revisions[n] \in Revision
      /\ revisions \in Seq(Revision) /\ lineage \in [Assets -> Assets \union {None, Absent}]
      /\ disturbed \in SUBSET DOMAIN revisions /\ served \in 0..MaxRequests
  BY Busy DEF FailCommit, Inv, TypeInv, TypeOK
<1>2. /\ r \in Revision /\ r.version = revisions[n].version /\ r.parent = revisions[n].parent
      /\ r.source = revisions[n].source /\ r.output = revisions[n].output
      /\ r.status = "failed"
  BY <1>1 DEF Revision, StepStatus, BatchStatus, Flushed
<1>3. /\ revisions' = [revisions EXCEPT ![n] = r]
      /\ execution' = [execution EXCEPT ![e] = Idle]
      /\ UNCHANGED <<evidence, lineage, selections, layers, served, request, scanned, disturbed>>
  BY <1>1 DEF FailCommit, Advance
<1> HIDE DEF r, x
<1>4. execution' \in [Executions -> ExecutionType] /\ \A f \in Executions : Started(execution'[f])
  BY <1>3, IdleType, IdleStarted, Advanced
<1> HIDE DEF n
<1> QED BY <1>1, <1>2, <1>3, <1>4, WorkStep

-----------------------------------------------------------------------------
(* Reading.                                                                *)

LEMMA BeginStep ==
  ASSUME Inv, NEW q \in Requests, NEW r \in RequestType, Begin(q, r), Asked(r)
  PROVE  Inv'
<1>1. served' \in 0..MaxRequests
  BY EditAssumption DEF Begin, Inv, TypeInv, TypeOK
<1> QED BY <1>1, ReadStep DEF Begin

LEMMA BeginRevisionInv ==
  ASSUME Inv, NEW q \in Requests, NEW n \in DOMAIN revisions, NEW op \in Derivation,
         BeginRevision(q, n, op)
  PROVE  Inv'
<1> DEFINE r == [Open EXCEPT !.op = op, !.on = n, !.source = revisions[n].output]
<1>1. /\ Ready(n) /\ revisions[n] \in Revision /\ n \in Nat /\ Len(revisions) \in Nat
      /\ Passed(n) = {revisions[n].output}
  BY DEF BeginRevision, Inv, TypeInv, TypeOK, SourceIsParentsOutput
<1>2. revisions[n].output \in Pictures
  BY <1>1 DEF Ready, Revision
<1>3. /\ r.op = op /\ r.on = n /\ r.source = revisions[n].output /\ r.number = 0
      /\ r \in RequestType
  <2>1. r.op = op /\ r.on = n /\ r.source = revisions[n].output /\ r.number = 0
    BY DEF Open
  <2>2. r \in RequestType
    BY <1>1, <1>2, OpenAsked DEF RequestType
  <2> QED BY <2>1, <2>2
<1>4. Asked(r)
  BY <1>1, <1>2, <1>3 DEF Asked, Derivation
<1>5. Begin(q, r)
  BY DEF BeginRevision
<1> HIDE DEF r
<1> QED BY <1>3, <1>4, <1>5, BeginStep

LEMMA RenderedInv ==
  ASSUME Inv, NEW q \in Requests, Rendered(q)
  PROVE  Inv'
<1>1. PICK a \in Assets \union {None} : Look(q, a) /\ a \in Content(request[q].op)
  BY DEF Rendered, Content, Assets
<1> DEFINE asked == request[q]
           seen == IF a = None THEN None ELSE lineage[a]
           r == [asked EXCEPT !.made = a, !.seen = seen, !.number = NextVersion]
<1>2. /\ asked \in RequestType /\ Asked(asked) /\ asked.op \in Derivation
      /\ NextVersion = Len(revisions) /\ Len(revisions) \in Nat
      /\ lineage \in [Assets -> Assets \union {None, Absent}]
  BY <1>1, VersionsInARow DEF Inv, TypeInv, TypeOK, Look, Derivation
<1>3. seen \in Assets \union {None, Absent}
  BY <1>2
<1>4. /\ r \in RequestType /\ r.op = asked.op /\ r.on = asked.on /\ r.source = asked.source
      /\ r.made = a /\ r.number = Len(revisions)
  BY <1>2, <1>3 DEF RequestType
<1>5. Asked(r)
  BY <1>1, <1>2, <1>4 DEF Asked, Derivation
<1>6. /\ request' = [request EXCEPT ![q] = r] /\ UNCHANGED <<database, workers>>
      /\ served' \in 0..MaxRequests
  <2>1. request' = [request EXCEPT ![q] = r]
    BY <1>1, <1>2 DEF Look
  <2> QED BY <1>1, <2>1 DEF Look, Inv, TypeInv, TypeOK
<1> HIDE DEF r
<1> QED BY <1>4, <1>5, <1>6, ReadStep

LEMMA RefusedInv ==
  ASSUME Inv, NEW q \in Requests, Refused(q)
  PROVE  Inv'
<1>1. request' = [request EXCEPT ![q] = Open] /\ UNCHANGED <<database, workers>> /\ served' \in 0..MaxRequests
  BY DEF Refused, Answer, Inv, TypeInv, TypeOK
<1> QED BY <1>1, OpenAsked, ReadStep

-----------------------------------------------------------------------------
(* Layers.                                                                 *)

\* A commit that changes layers only.
LEMMA LayerStep ==
  ASSUME Inv, NEW q \in Requests, request' = [request EXCEPT ![q] = Open],
         layers' \in [LayerIds -> Layer \union {None, Deleted}], Places',
         UNCHANGED <<revisions, evidence, lineage, selections, served, workers>>
  PROVE  Inv'
<1>1. TypeOK'
  BY DEF Inv, TypeInv, TypeOK, workers
<1>2. LineageIsWitnessed'
  BY DEF Inv, LineageIsWitnessed
<1>3. Asked(Open)'
  BY DEF Asked, Open, Derivation
<1> QED BY <1>1, <1>2, <1>3, OpenAsked, AnswerStep

LEMMA BeginLayerInv ==
  ASSUME Inv, NEW q \in Requests, NEW locked \in BOOLEAN, NEW copied \in LayerIds \union {None},
         BeginLayer(q, locked, copied)
  PROVE  Inv'
<1> DEFINE taken == Positions \union {0}
           number == 1 + Max(taken)
           r == [Open EXCEPT !.op = "layer", !.number = number, !.seen = locked]
<1>1. PICK b \in Nat : \A i \in Existing : layers[i].position <= b
  BY DEF Inv, Places
<1>2. \A i \in Existing : layers[i] \in Layer
  BY DEF Inv, TypeInv, TypeOK, Existing
<1>3. taken \in SUBSET Nat /\ taken # {} /\ \A x \in taken : x <= b
  BY <1>1, <1>2 DEF Positions, Layer
<1>4. number \in Nat \ {0} /\ Begin(q, r)
  <2>1. Max(taken) \in Nat
    BY <1>3, GreatestIsMember
  <2> QED BY <2>1 DEF BeginLayer
<1> HIDE DEF number
<1>5. r \in RequestType /\ r.op = "layer" /\ r.seen = locked /\ r.number # 0
  <2>1. r.op = "layer" /\ r.seen = locked /\ r.number = number
    BY DEF Open
  <2>2. r \in RequestType
    BY <1>4, OpenAsked DEF RequestType
  <2> QED BY <1>4, <2>1, <2>2
<1>6. Asked(r)
  BY <1>5 DEF Asked, Derivation
<1> HIDE DEF r
<1> QED BY <1>4, <1>5, <1>6, BeginStep

LEMMA BeginOtherInv ==
  ASSUME Inv, NEW q \in Requests
  PROVE  /\ \A i \in LayerIds : BeginDelete(q, i) => Inv'
         /\ \A i \in LayerIds : BeginLock(q, i) => Inv'
         /\ BeginReorder(q) => Inv'
<1>1. ASSUME NEW i \in LayerIds, BeginDelete(q, i) PROVE Inv'
  <2> DEFINE r == [Open EXCEPT !.op = "delete", !.on = i]
  <2>1. r.op = "delete" /\ i \in Nat
    BY EditAssumption DEF Open
  <2>2. r \in RequestType
    BY <2>1, OpenAsked DEF RequestType
  <2>3. Asked(r) /\ Begin(q, r)
    BY <1>1, <2>1 DEF Asked, Derivation, BeginDelete
  <2> HIDE DEF r
  <2> QED BY <2>2, <2>3, BeginStep
<1>2. ASSUME NEW i \in LayerIds, BeginLock(q, i) PROVE Inv'
  <2> DEFINE r == [Open EXCEPT !.op = "lock", !.on = i, !.seen = ~layers[i].locked]
  <2>1. r.op = "lock" /\ r.seen = ~layers[i].locked /\ i \in Nat
    BY EditAssumption DEF Open
  <2>2. (~layers[i].locked) \in BOOLEAN
    OBVIOUS
  <2>3. r \in RequestType
    BY <2>1, <2>2, OpenAsked DEF RequestType
  <2>4. Asked(r) /\ Begin(q, r)
    BY <1>2, <2>1, <2>2 DEF Asked, Derivation, BeginLock
  <2> HIDE DEF r
  <2> QED BY <2>3, <2>4, BeginStep
<1>3. ASSUME BeginReorder(q) PROVE Inv'
  <2>0. PICK n \in {Cardinality(Existing), Cardinality(Existing) + 1} :
          \E order \in [1..n -> Existing] :
            Begin(q, [Open EXCEPT !.op = "reorder", !.order = order])
    BY <1>3 DEF BeginReorder
  <2>1. PICK order \in [1..n -> Existing] :
          Begin(q, [Open EXCEPT !.op = "reorder", !.order = order])
    BY <2>0
  <2>2. n \in Nat
    <3>1. Cardinality(Existing) \in Nat
      BY FS_CardinalityType DEF Inv, Places
    <3> QED BY <3>1
  <2>3. order \in Seq(LayerIds)
    BY <2>2 DEF Existing
  <2> DEFINE r == [Open EXCEPT !.op = "reorder", !.order = order]
  <2>4. r.op = "reorder"
    BY DEF Open
  <2>5. r \in RequestType
    BY <2>3, OpenAsked DEF RequestType
  <2>6. Asked(r) /\ Begin(q, r)
    BY <2>1, <2>4 DEF Asked, Derivation
  <2> HIDE DEF r
  <2> QED BY <2>5, <2>6, BeginStep
<1> QED BY <1>1, <1>2, <1>3

LEMMA CommitLayerInv ==
  ASSUME Inv, NEW q \in Requests, CommitLayer(q)
  PROVE  Inv'
<1> DEFINE asked == request[q]
           id == Min(Unused)
           new == [position |-> asked.number, locked |-> asked.seen]
<1>1. /\ asked.op = "layer" /\ asked.number \notin Positions /\ Unused # {}
      /\ layers' = [layers EXCEPT ![id] = new]
      /\ request' = [request EXCEPT ![q] = Open]
      /\ UNCHANGED <<revisions, evidence, lineage, selections, served, workers>>
  BY DEF CommitLayer, Answer
<1>2. asked \in RequestType /\ Asked(asked) /\ layers \in [LayerIds -> Layer \union {None, Deleted}]
  BY DEF Inv, TypeInv, TypeOK
<1>3. new \in Layer /\ new.position = asked.number /\ asked.number \in Nat /\ new \notin {None, Deleted}
  <2>1. asked.number \in Nat \ {0} /\ asked.seen \in BOOLEAN
    BY <1>1, <1>2 DEF Asked, RequestType
  <2> QED BY <2>1, LayerIsThere DEF Layer
<1>4. id \in LayerIds \ Existing
  <2>1. Unused # {} /\ Unused \in SUBSET Nat
    BY <1>1, EditAssumption DEF Unused
  <2>2. id \in Unused
    BY <2>1, LeastIsMember
  <2> QED BY <2>2 DEF Unused, Existing
<1> HIDE DEF new, id
<1>5. /\ layers' \in [LayerIds -> Layer \union {None, Deleted}] /\ layers'[id] = new
      /\ \A i \in LayerIds \ {id} : layers'[i] = layers[i]
  BY <1>1, <1>2, <1>3, <1>4
<1>6. Existing' = Existing \union {id}
  BY <1>3, <1>4, <1>5 DEF Existing
<1>7. IsFiniteSet(Existing')
  BY <1>6, FS_AddElement DEF Inv, Places
<1>8. \A i \in Existing : i \in LayerIds \ {id} /\ layers[i].position \in Positions
                          /\ layers[i].position \in Nat
  BY <1>2, <1>4 DEF Existing, Positions, Layer
<1>9. \A i, k \in Existing' : layers'[i].position = layers'[k].position => i = k
  BY <1>1, <1>3, <1>5, <1>6, <1>8 DEF Inv, Places
<1>10. \E b \in Nat : \A i \in Existing' : layers'[i].position <= b
  <2>1. PICK b \in Nat : \A i \in Existing : layers[i].position <= b
    BY DEF Inv, Places
  <2>2. b + asked.number \in Nat
    BY <1>3
  <2>3. \A i \in Existing' : layers'[i].position <= b + asked.number
    BY <1>3, <1>5, <1>6, <1>8, <2>1
  <2> QED BY <2>2, <2>3
<1> QED BY <1>1, <1>5, <1>7, <1>9, <1>10, LayerStep DEF Places

LEMMA CommitDeleteInv ==
  ASSUME Inv, NEW q \in Requests, CommitDelete(q)
  PROVE  Inv'
<1>1. /\ layers' = [layers EXCEPT ![request[q].on] = Deleted]
      /\ request' = [request EXCEPT ![q] = Open]
      /\ UNCHANGED <<revisions, evidence, lineage, selections, served, workers>>
  BY DEF CommitDelete, Answer
<1>2. layers \in [LayerIds -> Layer \union {None, Deleted}]
  BY DEF Inv, TypeInv, TypeOK
<1>3. layers' \in [LayerIds -> Layer \union {None, Deleted}]
      /\ Existing' = Existing \ {request[q].on} /\ \A i \in Existing' : layers'[i] = layers[i]
  BY <1>1, <1>2 DEF Existing
<1>4. IsFiniteSet(Existing')
  BY <1>3, FS_RemoveElement DEF Inv, Places
<1>5. Places'
  BY <1>3, <1>4 DEF Inv, Places
<1> QED BY <1>1, <1>3, <1>5, LayerStep

LEMMA CommitLockInv ==
  ASSUME Inv, NEW q \in Requests, CommitLock(q)
  PROVE  Inv'
<1> DEFINE i == request[q].on
           new == [layers[i] EXCEPT !.locked = request[q].seen]
<1>1. /\ request[q].op = "lock" /\ i \in Existing /\ layers' = [layers EXCEPT ![i] = new]
      /\ request' = [request EXCEPT ![q] = Open]
      /\ UNCHANGED <<revisions, evidence, lineage, selections, served, workers>>
  BY DEF CommitLock, Answer
<1>2. layers \in [LayerIds -> Layer \union {None, Deleted}] /\ request[q].seen \in BOOLEAN
  BY <1>1 DEF Inv, TypeInv, TypeOK, Asked
<1>3. layers[i] \in Layer /\ i \in LayerIds
  BY <1>1, <1>2 DEF Existing
<1>4. new \in Layer /\ new.position = layers[i].position /\ new \notin {None, Deleted}
  BY <1>2, <1>3, LayerIsThere DEF Layer
<1> HIDE DEF new
<1>5. /\ layers' \in [LayerIds -> Layer \union {None, Deleted}] /\ Existing' = Existing
      /\ \A k \in Existing : layers'[k].position = layers[k].position
  BY <1>1, <1>2, <1>3, <1>4 DEF Existing
<1>6. Places'
  BY <1>5 DEF Inv, Places
<1> QED BY <1>1, <1>5, <1>6, LayerStep

\* The two renumberings of a list: to the negative places, and from them to the
\* positive ones while the layers that are not listed stay where they are.
LEMMA ReorderClashes ==
  ASSUME NEW order
  PROVE  Clashes(order) <=>
           \/ \E i \in Range(order), k \in Existing :
                i # k /\ -Place(order, i) = layers[k].position
           \/ \E i \in Range(order), k \in Existing :
                i # k /\ Place(order, i) = (IF k \in Range(order) THEN -Place(order, k)
                                            ELSE layers[k].position)
<1> DEFINE Between == [k \in Existing |-> IF k \in Range(order) THEN -Place(order, k)
                                          ELSE layers[k].position]
           Negative == [i \in Range(order) |-> -Place(order, i)]
           Positive == [i \in Range(order) |-> Place(order, i)]
<1>1. /\ Phases(order) = <<Negative, Positive>>
      /\ DOMAIN Phases(order) = {1, 2}
      /\ Phases(order)[1] = Negative /\ Phases(order)[2] = Positive
  BY DEF Phases
<1>2. Clashes(order) <=> Clash(Numbered, Negative) \/ Clash(Between, Positive)
  <2> DEFINE Before(n) == IF n = 1 THEN Numbered ELSE [i \in Existing |->
                            IF i \in Range(order) THEN Phases(order)[n - 1][i]
                            ELSE layers[i].position]
  <2>1. Clashes(order) <=> \E n \in DOMAIN Phases(order) : Clash(Before(n), Phases(order)[n])
    BY DEF Clashes
  <2>2. 2 - 1 = 1
    OBVIOUS
  <2>3. Before(1) = Numbered /\ Before(2) = Between
    BY <1>1, <2>2
  <2> HIDE DEF Negative, Positive, Between, Before
  <2> QED BY <1>1, <2>1, <2>3
<1>3. Clash(Numbered, Negative) <=>
        \E i \in Range(order), k \in Existing : i # k /\ -Place(order, i) = layers[k].position
  BY DEF Clash, Numbered
<1>4. Clash(Between, Positive) <=>
        \E i \in Range(order), k \in Existing :
          i # k /\ Place(order, i) = (IF k \in Range(order) THEN -Place(order, k)
                                      ELSE layers[k].position)
  BY DEF Clash
<1> QED BY <1>2, <1>3, <1>4

LEMMA CommitReorderInv ==
  ASSUME Inv, NEW q \in Requests, CommitReorder(q)
  PROVE  Inv'
<1>0. PICK order \in Seq(LayerIds) : order = request[q].order
  BY DEF Inv, TypeInv, RequestType
<1> DEFINE new(i) == [layers[i] EXCEPT !.position = Place(order, i)]
<1>1. /\ Range(order) \subseteq Existing /\ ~Clashes(order)
      /\ layers' = [i \in LayerIds |-> IF i \in Range(order) THEN new(i) ELSE layers[i]]
      /\ request' = [request EXCEPT ![q] = Open]
      /\ UNCHANGED <<revisions, evidence, lineage, selections, served, workers>>
  BY <1>0 DEF CommitReorder, Answer, Renumbered
<1>2. layers \in [LayerIds -> Layer \union {None, Deleted}] /\ Len(order) \in Nat
  BY DEF Inv, TypeInv, TypeOK
<1>3. ASSUME NEW i \in Range(order)
      PROVE  /\ Place(order, i) \in 1..Len(order)
             /\ new(i) \in Layer /\ new(i).position = Place(order, i) /\ new(i) \notin {None, Deleted}
  <2>1. layers[i] \in Layer
    BY <1>1, <1>2 DEF Existing
  <2>2. Place(order, i) \in 1..Len(order)
    BY PlaceNames
  <2>3. new(i) \in Layer /\ new(i).position = Place(order, i)
    BY <1>2, <2>1, <2>2 DEF Layer
  <2> QED BY <2>2, <2>3, LayerIsThere
<1> HIDE DEF new
<1>4. /\ layers' \in [LayerIds -> Layer \union {None, Deleted}] /\ Existing' = Existing
      /\ \A i \in Range(order) : layers'[i].position = Place(order, i)
      /\ \A i \in Existing \ Range(order) : layers'[i] = layers[i]
  BY <1>1, <1>2, <1>3 DEF Existing
<1>5. ASSUME NEW i \in Existing, NEW k \in Existing, layers'[i].position = layers'[k].position
      PROVE  i = k
  <2>1. CASE i \in Range(order) /\ k \in Range(order)
    BY <1>4, <1>5, <2>1, PlacesDiffer
  <2>2. ASSUME NEW x \in Range(order), NEW y \in Existing \ Range(order)
        PROVE  layers'[x].position # layers'[y].position
    BY <1>1, <1>4, ReorderClashes
  <2>3. CASE i \notin Range(order) /\ k \notin Range(order)
    BY <1>4, <1>5, <2>3 DEF Inv, Places
  <2> QED BY <1>1, <1>5, <2>1, <2>2, <2>3
<1>6. \E b \in Nat : \A i \in Existing' : layers'[i].position <= b
  <2>1. PICK b \in Nat : \A i \in Existing : layers[i].position <= b
    BY DEF Inv, Places
  <2>2. b + Len(order) \in Nat
    BY <1>2
  <2>3. ASSUME NEW i \in Existing PROVE layers'[i].position <= b + Len(order)
    <3>1. CASE i \in Range(order)
      BY <1>2, <1>3, <1>4, <3>1
    <3>2. CASE i \notin Range(order)
      <4>1. layers[i] \in Layer
        BY <1>2 DEF Existing
      <4>2. layers[i].position \in Nat /\ layers[i].position <= b
        BY <2>1, <4>1 DEF Layer
      <4> QED BY <1>2, <1>4, <3>2, <4>2
    <3> QED BY <3>1, <3>2
  <2> QED BY <1>4, <2>2, <2>3
<1>7. Places'
  BY <1>4, <1>5, <1>6 DEF Inv, Places
<1> QED BY <1>1, <1>4, <1>7, LayerStep

-----------------------------------------------------------------------------
(* The invariant and what follows from it.                                 *)

LEMMA InvStep == Inv /\ [Next]_vars => Inv'
<1> SUFFICES ASSUME Inv, [Next]_vars PROVE Inv'
  OBVIOUS
<1>1. CASE UNCHANGED vars
  <2>1. UNCHANGED <<database, served, request, disturbed, execution, scanned>>
    BY <1>1 DEF vars, workers
  <2> QED BY <2>1, WorkRead DEF Inv, TypeInv, TypeOK, History
<1>2. ASSUME NEW q \in Requests,
             \/ \E n \in DOMAIN revisions, op \in Derivation : BeginRevision(q, n, op)
             \/ Rendered(q) \/ Refused(q)
      PROVE  Inv'
  BY <1>2, BeginRevisionInv, RenderedInv, RefusedInv
<1>3. ASSUME NEW q \in Requests,
             CommitComposition(q) \/ CommitRevision(q) \/ CommitSelection(q)
      PROVE  Inv'
  BY <1>3, CommitCompositionInv, CommitRevisionInv, CommitSelectionInv
<1>4. ASSUME NEW q \in Requests,
             \/ \E locked \in BOOLEAN, copied \in LayerIds \union {None} :
                  BeginLayer(q, locked, copied)
             \/ \E i \in LayerIds : BeginDelete(q, i) \/ BeginLock(q, i)
             \/ BeginReorder(q)
      PROVE  Inv'
  BY <1>4, BeginLayerInv, BeginOtherInv
<1>5. ASSUME NEW q \in Requests,
             CommitLayer(q) \/ CommitDelete(q) \/ CommitLock(q) \/ CommitReorder(q)
      PROVE  Inv'
  BY <1>5, CommitLayerInv, CommitDeleteInv, CommitLockInv, CommitReorderInv
<1>6. ASSUME NEW e \in Executions,
             \/ \E n \in DOMAIN revisions : Lease(e, n)
             \/ \E a \in Pictures : CompleteRead(e, a)
             \/ CompleteLook(e)
             \/ \E fits \in BOOLEAN : CompleteCommit(e, fits)
             \/ \E retry \in BOOLEAN : FailRead(e, retry)
             \/ FailCommit(e) \/ Stop(e)
      PROVE  Inv'
  BY <1>6, LeaseInv, WorkReadInv, CompleteCommitInv, FailCommitInv
<1>7. ASSUME NEW n \in DOMAIN revisions,
             \/ RefuseDisabled(n) \/ LeaseExpires(n)
             \/ RecoverRead(n) \/ RecoverCommit(n) \/ RecoverEnd(n)
      PROVE  Inv'
  BY <1>7, TimeInv
<1>8. CASE Next
  BY <1>2, <1>3, <1>4, <1>5, <1>6, <1>7, <1>8 DEF Next, Derivation
<1> QED BY <1>1, <1>8

LEMMA Invariant == Spec => []Inv
  BY InitInv, InvStep, PTL DEF Spec

\* Type correctness; no commit ever leaves a layer at a negative position.
THEOREM TypeCorrect == Spec => []TypeOK
<1>1. Inv => TypeOK
  BY DEF Inv, TypeInv
<1> QED BY <1>1, Invariant, PTL

\* However many requests take the next version or the next position at once, the
\* versions of a project have no gap and no repetition, and no two layers share
\* a position (next_version, and the unique constraints of editing/models.py).
THEOREM NumbersOnce == Spec => []NumbersAreGivenOnce
<1>1. Inv => NumbersAreGivenOnce
  BY VersionsInARow DEF Inv, Places, NumbersAreGivenOnce
<1> QED BY <1>1, Invariant, PTL

\* A revision was made from the one picture with which its parent ever passed,
\* however long it took to render, and although executions may replace or fail
\* the parent meanwhile (_ready_parent and the check immutable_derivation of
\* create_edit_evidence, under the row lock of the flushed step).
THEOREM SourcesCorrect == Spec => []SourceIsParentsOutput
<1>1. Inv => SourceIsParentsOutput
  BY DEF Inv
<1> QED BY <1>1, Invariant, PTL

\* Every recorded parent of an asset is vouched for by the evidence of a revision
\* that began with it or by a selection, although assets are shared by their
\* content and one revision may be given several.
THEOREM LineageCorrect == Spec => []LineageIsWitnessed
<1>1. Inv => LineageIsWitnessed
  BY DEF Inv
<1> QED BY <1>1, Invariant, PTL

\* reorder_layers can always carry out a list of all the layers.
THEOREM ReordersCorrect == Spec => []ReordersFit
<1>1. Inv => ReordersFit
  <2> SUFFICES ASSUME Inv, NEW q \in Requests, Range(request[q].order) = Existing
               PROVE  ~Clashes(request[q].order)
    BY DEF ReordersFit
  <2>1. PICK order \in Seq(LayerIds) : order = request[q].order
    BY DEF Inv, TypeInv, RequestType
  <2>2. \A i \in Range(order) : Place(order, i) \in Nat \ {0}
    BY PlaceNames
  <2>3. \A k \in Existing : layers[k].position \in Nat \ {0}
    BY DEF Inv, TypeInv, TypeOK, Existing, Layer
  <2> QED BY <2>1, <2>2, <2>3, ReorderClashes
<1> QED BY <1>1, Invariant, PTL

-----------------------------------------------------------------------------
(* Undisturbed revisions.                                                  *)

\* An undisturbed revision has one execution at most, whose lease is live; the
\* step of a settled one is over.
CalmAt(n) ==
  /\ \A e \in Executions : execution[e] # Idle /\ execution[e].on = n =>
       /\ revisions[n].step = "running" /\ revisions[n].batch = "running"
       /\ execution[e].at = "marking" =>
            execution[e].step = "running" /\ execution[e].batch = "running"
  /\ \A e, f \in Executions :
       execution[e] # Idle /\ execution[e].on = n /\ execution[f] # Idle /\ execution[f].on = n => e = f
  /\ Settled(n) => revisions[n].step \in {"none", "succeeded", "failed"}

Calm == \A n \in DOMAIN revisions : n \notin disturbed => CalmAt(n)

\* What a step leaves as it is for a revision.
LEMMA CalmKept ==
  ASSUME NEW n, CalmAt(n), revisions'[n] = revisions[n],
         \A e \in Executions :
           \/ execution'[e] = execution[e] \/ execution'[e] = Idle \/ execution'[e].on # n
  PROVE  CalmAt(n)'
  BY DEF CalmAt, Settled

LEMMA CalmStep == Inv /\ Calm /\ [Next]_vars => Calm'
<1> SUFFICES ASSUME Inv, Calm, [Next]_vars, NEW n \in DOMAIN revisions', n \notin disturbed'
             PROVE  CalmAt(n)'
  BY DEF Calm
<1>0. /\ revisions \in Seq(Revision) /\ execution \in [Executions -> ExecutionType]
      /\ \A e \in Executions : Started(execution[e])
  BY DEF Inv, TypeInv
<1>1. ASSUME UNCHANGED <<revisions, execution, disturbed>> PROVE CalmAt(n)'
  <2>1. CalmAt(n) /\ revisions'[n] = revisions[n]
    BY <1>1 DEF Calm
  <2> QED BY <1>1, <2>1, CalmKept
<1>2. ASSUME NEW r, revisions' = Append(revisions, r), UNCHANGED <<execution, disturbed>>,
             r.batch = "queued" \/ r.step = "succeeded"
      PROVE  CalmAt(n)'
  <2>1. PICK k \in Nat : k = Len(revisions)
    BY <1>0
  <2>2. /\ DOMAIN revisions = 1..k /\ n \in 1..(k + 1) /\ revisions'[k + 1] = r
        /\ \A m \in 1..k : revisions'[m] = revisions[m]
    BY <1>0, <1>2, <2>1
  <2>3. CASE n \in 1..k
    <3>1. CalmAt(n) /\ revisions'[n] = revisions[n]
      BY <1>2, <2>2, <2>3 DEF Calm
    <3> QED BY <1>2, <3>1, CalmKept
  <2>4. CASE n = k + 1
    <3>1. \A e \in Executions : ~(execution'[e] # Idle /\ execution'[e].on = n)
      BY <1>0, <1>2, <2>1, <2>2, <2>4 DEF Started
    <3>2. Settled(n)' => revisions'[n].step = "succeeded"
      BY <1>2, <2>2, <2>4 DEF Settled
    <3> QED BY <3>1, <3>2 DEF CalmAt
  <2> QED BY <2>1, <2>2, <2>3, <2>4
\* A step of an execution, or of time, at one revision.
<1>3. ASSUME NEW m \in DOMAIN revisions, NEW r, revisions' = [revisions EXCEPT ![m] = r],
             disturbed \subseteq disturbed',
             \A e \in Executions :
               \/ execution'[e] = execution[e] \/ execution'[e] = Idle \/ execution'[e].on = m,
             n = m /\ CalmAt(m) => CalmAt(m)'
      PROVE  CalmAt(n)'
  <2>1. n \in DOMAIN revisions /\ (n # m => revisions'[n] = revisions[n])
    BY <1>0, <1>3
  <2>2. CalmAt(n)
    BY <1>3, <2>1 DEF Calm
  <2>3. CASE n = m
    BY <1>3, <2>2, <2>3
  <2>4. CASE n # m
    BY <1>3, <2>1, <2>2, <2>4, CalmKept
  <2> QED BY <2>3, <2>4
\* A revision that no execution is on.
<1>4. ASSUME NEW m \in DOMAIN revisions, CalmAt(m), revisions[m].step # "running"
      PROVE  \A e \in Executions : ~(execution[e] # Idle /\ execution[e].on = m)
  BY <1>4 DEF CalmAt
<1>5. ASSUME NEW e \in Executions, NEW m \in DOMAIN revisions, Lease(e, m) PROVE CalmAt(n)'
  <2> DEFINE x == [Idle EXCEPT !.at = "working", !.on = m]
             r == [revisions[m] EXCEPT !.step = "running", !.batch = "running"]
  <2>1. /\ revisions[m] \in Revision /\ revisions' = [revisions EXCEPT ![m] = r]
        /\ execution' = [execution EXCEPT ![e] = x] /\ disturbed' = disturbed
        /\ revisions[m].step # "running"
    BY <1>0, <1>5 DEF Lease, Claimable, Inv, TypeInv, TypeOK
  <2>2. /\ r.step = "running" /\ r.batch = "running" /\ x.on = m /\ x.at = "working"
    BY <2>1 DEF Revision, Idle
  <2>3. revisions'[m] = r
    BY <1>0, <2>1
  <2> HIDE DEF r, x
  <2>4. execution'[e] = x /\ \A f \in Executions : f # e => execution'[f] = execution[f]
    BY <1>0, <2>1
  <2>5. ASSUME CalmAt(m) PROVE CalmAt(m)'
    <3>1. \A f \in Executions : execution'[f] # Idle /\ execution'[f].on = m => f = e
      BY <1>4, <2>1, <2>4, <2>5
    <3>2. ~Settled(m)'
      BY <2>2, <2>3 DEF Settled
    <3> QED BY <2>2, <2>3, <2>4, <3>1, <3>2 DEF CalmAt
  <2> QED BY <1>3, <2>1, <2>2, <2>4, <2>5
<1>6. ASSUME NEW e \in Executions, NEW y, Advance(e, y), UNCHANGED database,
             \/ y = Idle
             \/ /\ execution[e] # Idle /\ y.on = execution[e].on
                /\ y.at = "marking" => /\ y.step = revisions[y.on].step
                                       /\ y.batch = revisions[y.on].batch
      PROVE  CalmAt(n)'
  <2>1. /\ revisions' = revisions /\ disturbed' = disturbed /\ execution'[e] = y
        /\ \A f \in Executions : f # e => execution'[f] = execution[f]
    BY <1>0, <1>6 DEF Advance, database
  <2>2. CalmAt(n)
    BY <2>1 DEF Calm
  <2>3. ASSUME NEW f \in Executions, execution'[f] # Idle, execution'[f].on = n
        PROVE  /\ execution[f] # Idle /\ execution[f].on = n
               /\ execution'[f].at = "marking" =>
                    \/ execution'[f] = execution[f]
                    \/ /\ execution'[f].step = revisions[n].step
                       /\ execution'[f].batch = revisions[n].batch
    BY <1>6, <2>1, <2>3
  <2> QED BY <2>1, <2>2, <2>3 DEF CalmAt, Settled
<1>7. ASSUME NEW e \in Executions, NEW r, execution[e].at # "idle",
             revisions' = [revisions EXCEPT ![execution[e].on] = r], Advance(e, Idle),
             CalmAt(execution[e].on) /\ r.batch \in {"none", "review_pending", "failed"}
               => r.step \in {"succeeded", "failed"}
      PROVE  CalmAt(n)'
  <2>1. PICK m \in DOMAIN revisions : m = execution[e].on
    BY <1>7, Busy
  <2>2. /\ revisions'[m] = r /\ execution'[e] = Idle /\ disturbed' = disturbed
        /\ \A f \in Executions : f # e => execution'[f] = execution[f]
        /\ execution[e] # Idle
    BY <1>0, <1>7, <2>1, Busy DEF Advance
  <2>3. ASSUME CalmAt(m) PROVE CalmAt(m)'
    <3>1. \A f \in Executions : ~(execution'[f] # Idle /\ execution'[f].on = m)
      BY <2>1, <2>2, <2>3 DEF CalmAt
    <3>2. Settled(m)' => revisions'[m].step \in {"succeeded", "failed"}
      BY <1>7, <2>1, <2>2, <2>3 DEF Settled
    <3> QED BY <3>1, <3>2 DEF CalmAt
  <2>4. \A f \in Executions : execution'[f] = execution[f] \/ execution'[f] = Idle
    BY <2>2
  <2> QED BY <1>3, <1>7, <2>1, <2>2, <2>3, <2>4
<1>8. ASSUME NEW e \in Executions, NEW fits \in BOOLEAN, CompleteCommit(e, fits) PROVE CalmAt(n)'
  <2> DEFINE m == execution[e].on
             passed == Passes(m, fits)
             st == IF passed THEN "ready" ELSE "failed"
             bt == IF passed THEN "review_pending" ELSE "failed"
             r == [revisions[m] EXCEPT !.output = execution[e].made, !.step = "succeeded",
                                       !.status = st, !.batch = bt]
  <2>1. execution[e].at # "idle" /\ revisions[m] \in Revision /\ m \in DOMAIN revisions
    BY <1>8, Busy DEF CompleteCommit
  <2>2. r.step = "succeeded"
    BY <2>1 DEF Revision
  <2>3. revisions' = [revisions EXCEPT ![m] = r] /\ Advance(e, Idle)
    BY <1>0, <1>8, <2>1 DEF CompleteCommit
  <2> HIDE DEF r
  <2> QED BY <1>7, <2>1, <2>2, <2>3
<1>9. ASSUME NEW e \in Executions, FailCommit(e) PROVE CalmAt(n)'
  <2> DEFINE x == execution[e]
             m == x.on
             new == IF x.retry THEN "retry_queued" ELSE "failed"
             st == Flushed(revisions[m].step, x.step, new)
             bt == Flushed(revisions[m].batch, x.batch, new)
             r == [revisions[m] EXCEPT !.status = "failed", !.step = st, !.batch = bt]
  <2>1. /\ x.at = "marking" /\ x.at # "idle" /\ x # Idle /\ revisions[m] \in Revision
        /\ m \in DOMAIN revisions
    BY <1>9, Busy DEF FailCommit
  <2>2. r.step = st /\ r.batch = bt
    BY <2>1 DEF Revision
  <2>3. revisions' = [revisions EXCEPT ![m] = r] /\ Advance(e, Idle)
    BY <1>0, <1>9, <2>1 DEF FailCommit
  <2>4. ASSUME CalmAt(m) PROVE st = new /\ bt = new
    <3>1. x.step = "running" /\ x.batch = "running"
      BY <2>1, <2>4 DEF CalmAt
    <3> QED BY <3>1 DEF Flushed
  <2>5. CalmAt(m) /\ r.batch \in {"none", "review_pending", "failed"} => r.step = "failed"
    BY <2>2, <2>4
  <2> HIDE DEF r
  <2> QED BY <1>7, <2>1, <2>3, <2>5
<1>10. ASSUME NEW m \in DOMAIN revisions,
              RefuseDisabled(m) \/ LeaseExpires(m) \/ RecoverCommit(m)
       PROVE  CalmAt(n)'
  <2>0. revisions[m] \in Revision
    BY DEF Inv, TypeInv, TypeOK
  <2>1. CASE RefuseDisabled(m)
    <3> DEFINE r == [revisions[m] EXCEPT !.step = "failed", !.batch = "failed"]
    <3>1. /\ revisions' = [revisions EXCEPT ![m] = r] /\ UNCHANGED <<execution, disturbed>>
          /\ revisions[m].step # "running" /\ r.step = "failed"
      BY <1>0, <2>0, <2>1 DEF RefuseDisabled, Claimable, workers, Revision
    <3> HIDE DEF r
    <3>2. revisions'[m] = r
      BY <1>0, <3>1
    <3>3. CalmAt(m) => CalmAt(m)'
      BY <1>4, <3>1, <3>2 DEF CalmAt
    <3> QED BY <1>3, <3>1, <3>3
  <2>2. CASE LeaseExpires(m)
    <3> DEFINE r == [revisions[m] EXCEPT !.step = "expired"]
    <3>1. /\ revisions' = [revisions EXCEPT ![m] = r] /\ UNCHANGED execution
          /\ disturbed \subseteq disturbed' /\ (m \notin disturbed' => ~Executed(m))
          /\ revisions[m].step = "running" /\ r.batch = revisions[m].batch
      BY <1>0, <2>0, <2>2 DEF LeaseExpires, Revision
    <3> HIDE DEF r
    <3>2. revisions'[m] = r
      BY <1>0, <3>1
    <3>3. n = m /\ CalmAt(m) => CalmAt(m)'
      BY <3>1, <3>2 DEF CalmAt, Executed, Settled
    <3> QED BY <1>3, <3>1, <3>3
  <2>3. CASE RecoverCommit(m)
    <3> DEFINE r == [revisions[m] EXCEPT !.step = "retry_queued"]
    <3>1. /\ revisions' = [revisions EXCEPT ![m] = r] /\ UNCHANGED execution
          /\ disturbed \subseteq disturbed'
          /\ m \notin disturbed' => revisions[m].step \in {"expired", "retry_queued"}
          /\ r.batch = revisions[m].batch
      BY <1>0, <2>0, <2>3 DEF RecoverCommit, Revision
    <3> HIDE DEF r
    <3>2. revisions'[m] = r
      BY <1>0, <3>1
    <3>3. ASSUME n = m, CalmAt(m) PROVE CalmAt(m)'
      <4>1. \A e \in Executions : ~(execution[e] # Idle /\ execution[e].on = m)
        BY <1>4, <3>1, <3>3
      <4>2. ~Settled(m)'
        BY <3>1, <3>2, <3>3 DEF CalmAt, Settled
      <4> QED BY <3>1, <4>1, <4>2 DEF CalmAt
    <3> QED BY <1>3, <3>1, <3>3
  <2> QED BY <1>10, <2>1, <2>2, <2>3
<1>11. ASSUME NEW e \in Executions, NEW a \in Pictures, CompleteRead(e, a) PROVE CalmAt(n)'
  <2> DEFINE y == [execution[e] EXCEPT !.at = "completing", !.made = a]
  <2>1. execution[e] \in ExecutionType /\ execution[e] # Idle
    BY <1>11, Busy DEF CompleteRead
  <2>2. y.on = execution[e].on /\ y.at # "marking"
    BY <2>1 DEF ExecutionType
  <2>3. (Advance(e, y) \/ Advance(e, Idle)) /\ UNCHANGED database
    BY <1>11 DEF CompleteRead
  <2> HIDE DEF y
  <2> QED BY <1>6, <2>1, <2>2, <2>3
<1>12. ASSUME NEW e \in Executions, CompleteLook(e) PROVE CalmAt(n)'
  <2> DEFINE y == [execution[e] EXCEPT !.at = "recording", !.seen = lineage[execution[e].made]]
  <2>1. execution[e] \in ExecutionType /\ execution[e] # Idle
    BY <1>12, Busy DEF CompleteLook
  <2>2. y.on = execution[e].on /\ y.at # "marking"
    BY <2>1 DEF ExecutionType
  <2>3. Advance(e, y) /\ UNCHANGED database
    BY <1>12 DEF CompleteLook
  <2> HIDE DEF y
  <2> QED BY <1>6, <2>1, <2>2, <2>3
<1>13. ASSUME NEW e \in Executions, NEW retry \in BOOLEAN, FailRead(e, retry) PROVE CalmAt(n)'
  <2> DEFINE r == revisions[execution[e].on]
             y == [execution[e] EXCEPT !.at = "marking", !.retry = retry,
                                       !.step = r.step, !.batch = r.batch]
  <2>1. execution[e] \in ExecutionType /\ execution[e] # Idle
    BY <1>13, Busy DEF FailRead
  <2>2. y.on = execution[e].on /\ y.step = r.step /\ y.batch = r.batch
    BY <2>1 DEF ExecutionType
  <2>3. (Advance(e, y) \/ Advance(e, Idle)) /\ UNCHANGED database
    BY <1>13 DEF FailRead
  <2> HIDE DEF y
  <2> QED BY <1>6, <2>1, <2>2, <2>3
<1>14. ASSUME NEW e \in Executions, Stop(e) PROVE CalmAt(n)'
  BY <1>6, <1>14 DEF Stop
<1>15. ASSUME NEW q \in Requests, CommitComposition(q) PROVE CalmAt(n)'
  <2> DEFINE r == Made(request[q], "ready", "review_pending", "succeeded")
  <2>1. /\ revisions' = Append(revisions, r) /\ UNCHANGED <<execution, disturbed>>
        /\ r.step = "succeeded"
    BY <1>15 DEF CommitComposition, Answer, workers, Made
  <2> HIDE DEF r
  <2> QED BY <1>2, <2>1
<1>16. ASSUME NEW q \in Requests, CommitRevision(q) PROVE CalmAt(n)'
  <2> DEFINE r == Made(request[q], "queued", "queued", "queued")
  <2>1. /\ revisions' = Append(revisions, r) /\ UNCHANGED <<execution, disturbed>>
        /\ r.batch = "queued"
    BY <1>16 DEF CommitRevision, Answer, workers, Made
  <2> HIDE DEF r
  <2> QED BY <1>2, <2>1
<1>17. CASE UNCHANGED vars
  BY <1>1, <1>17 DEF vars, database, workers
<1>18. CASE Next
  <2>1. ASSUME NEW q \in Requests,
               \/ \E m \in DOMAIN revisions, op \in Derivation : BeginRevision(q, m, op)
               \/ Rendered(q) \/ CommitSelection(q)
               \/ \E locked \in BOOLEAN, copied \in LayerIds \union {None} : BeginLayer(q, locked, copied)
               \/ \E i \in LayerIds : BeginDelete(q, i) \/ BeginLock(q, i)
               \/ CommitLayer(q) \/ CommitDelete(q) \/ CommitLock(q)
               \/ BeginReorder(q) \/ CommitReorder(q) \/ Refused(q)
        PROVE  UNCHANGED <<revisions, execution, disturbed>>
    BY <2>1 DEF BeginRevision, Rendered, Look, CommitSelection, BeginLayer, BeginDelete,
          BeginLock, BeginReorder, CommitLayer, CommitDelete, CommitLock, CommitReorder,
          Refused, Begin, Answer, database, workers
  <2>2. ASSUME NEW m \in DOMAIN revisions, RecoverRead(m) \/ RecoverEnd(m)
        PROVE  UNCHANGED <<revisions, execution, disturbed>>
    BY <2>2 DEF RecoverRead, RecoverEnd, database
  <2> QED BY <1>1, <1>5, <1>8, <1>9, <1>10, <1>11, <1>12, <1>13, <1>14, <1>15, <1>16, <1>18,
             <2>1, <2>2 DEF Next, Derivation
<1> QED BY <1>17, <1>18

LEMMA CalmInit == Init => Calm
<1> SUFFICES ASSUME Init, NEW n \in DOMAIN revisions PROVE CalmAt(n)
  BY DEF Calm
<1>1. \A e \in Executions : execution[e] = Idle
  BY DEF Init
<1>2. revisions[n].step = "none"
  BY DEF Init
<1> QED BY <1>1, <1>2 DEF CalmAt

LEMMA Undisturbed == Spec => [](Inv /\ Calm)
<1>1. Spec => []Calm
  BY CalmInit, CalmStep, Invariant, PTL DEF Spec
<1> QED BY <1>1, Invariant, PTL

\* A settled revision is not given another picture, parent or verdict by retries,
\* crashes, late hints or any number of scans, as long as its lease does not end
\* under an execution and no scan takes back a step that has gone on.  If that
\* happens, a second picture is recorded as a failure (executor.py, recovery.py).
THEOREM SettledRevisionsStay == Spec => ReadyRevisionsStay
<1>1. Inv /\ Calm /\ [Next]_vars =>
        [\A n \in DOMAIN revisions :
           /\ n \in DOMAIN revisions'
           /\ Settled(n) /\ n \notin disturbed' => revisions'[n] = revisions[n]
           /\ revisions[n].output \in {None, revisions'[n].output} \/ revisions'[n].status = "failed"]_vars
  <2> SUFFICES ASSUME Inv, Calm, Next, NEW n \in DOMAIN revisions
               PROVE  /\ n \in DOMAIN revisions'
                      /\ Settled(n) /\ n \notin disturbed' => revisions'[n] = revisions[n]
                      /\ \/ revisions[n].output \in {None, revisions'[n].output}
                         \/ revisions'[n].status = "failed"
    OBVIOUS
  <2>0. revisions \in Seq(Revision) /\ revisions[n] \in Revision
    BY DEF Inv, TypeInv, TypeOK
  <2>1. CASE revisions' = revisions
    BY <2>1
  <2>2. ASSUME NEW q \in Requests, CommitComposition(q) \/ CommitRevision(q)
        PROVE  n \in DOMAIN revisions' /\ revisions'[n] = revisions[n]
    <3>1. PICK r : revisions' = Append(revisions, r)
      BY <2>2 DEF CommitComposition, CommitRevision
    <3> QED BY <2>0, <3>1
  <2>3. ASSUME NEW m \in DOMAIN revisions, NEW r, revisions' = [revisions EXCEPT ![m] = r],
               Settled(m) => m \in disturbed',
               revisions[m] \in Revision =>
                 r.output = revisions[m].output \/ revisions[m].output = None \/ r.status = "failed"
        PROVE  /\ n \in DOMAIN revisions'
               /\ Settled(n) /\ n \notin disturbed' => revisions'[n] = revisions[n]
               /\ \/ revisions[n].output \in {None, revisions'[n].output}
                  \/ revisions'[n].status = "failed"
    <3>1. n \in DOMAIN revisions' /\ revisions'[n] = IF n = m THEN r ELSE revisions[n]
      BY <2>0, <2>3
    <3> QED BY <2>0, <2>3, <3>1
  <2>4. ASSUME NEW m \in DOMAIN revisions, Settled(m), m \notin disturbed
        PROVE  /\ revisions[m].step \notin {"queued", "running", "expired", "retry_queued"}
               /\ \A e \in Executions : execution[e] # Idle => execution[e].on # m
    BY <2>4 DEF Calm, CalmAt
  <2>5. ASSUME NEW e \in Executions, CompleteCommit(e, TRUE) \/ CompleteCommit(e, FALSE)
        PROVE  /\ n \in DOMAIN revisions'
               /\ Settled(n) /\ n \notin disturbed' => revisions'[n] = revisions[n]
               /\ \/ revisions[n].output \in {None, revisions'[n].output}
                  \/ revisions'[n].status = "failed"
    <3>1. PICK fits \in BOOLEAN : CompleteCommit(e, fits)
      BY <2>5
    <3> DEFINE m == execution[e].on
               passed == Passes(m, fits)
               st == IF passed THEN "ready" ELSE "failed"
               bt == IF passed THEN "review_pending" ELSE "failed"
               r == [revisions[m] EXCEPT !.output = execution[e].made, !.step = "succeeded",
                                         !.status = st, !.batch = bt]
    <3>2. m \in DOMAIN revisions /\ execution[e] # Idle
      BY <3>1, Busy DEF CompleteCommit
    <3>3. revisions' = [revisions EXCEPT ![m] = r] /\ disturbed' = disturbed
      BY <2>0, <3>1, <3>2 DEF CompleteCommit, Advance
    <3>4. Settled(m) => m \in disturbed'
      BY <2>4, <3>2, <3>3
    <3>5. revisions[m] \in Revision => revisions[m].output = None \/ r.status = "failed"
      BY DEF Passes, Revision
    <3> HIDE DEF r, m
    <3> QED BY <2>3, <3>2, <3>3, <3>4, <3>5
  <2>6. ASSUME NEW e \in Executions, FailCommit(e)
        PROVE  /\ n \in DOMAIN revisions'
               /\ Settled(n) /\ n \notin disturbed' => revisions'[n] = revisions[n]
               /\ \/ revisions[n].output \in {None, revisions'[n].output}
                  \/ revisions'[n].status = "failed"
    <3> DEFINE m == execution[e].on
               new == IF execution[e].retry THEN "retry_queued" ELSE "failed"
               st == Flushed(revisions[m].step, execution[e].step, new)
               bt == Flushed(revisions[m].batch, execution[e].batch, new)
               r == [revisions[m] EXCEPT !.status = "failed", !.step = st, !.batch = bt]
    <3>2. m \in DOMAIN revisions /\ execution[e] # Idle
      BY <2>6, Busy DEF FailCommit
    <3>3. revisions' = [revisions EXCEPT ![m] = r] /\ disturbed' = disturbed
      BY <2>0, <2>6, <3>2 DEF FailCommit, Advance
    <3>4. Settled(m) => m \in disturbed'
      BY <2>4, <3>2, <3>3
    <3>5. revisions[m] \in Revision => r.status = "failed"
      BY DEF Revision
    <3> HIDE DEF r, m
    <3> QED BY <2>3, <3>2, <3>3, <3>4, <3>5
  <2>7. ASSUME NEW m \in DOMAIN revisions,
               \/ \E e \in Executions : Lease(e, m)
               \/ RefuseDisabled(m) \/ LeaseExpires(m) \/ RecoverCommit(m)
        PROVE  /\ n \in DOMAIN revisions'
               /\ Settled(n) /\ n \notin disturbed' => revisions'[n] = revisions[n]
               /\ \/ revisions[n].output \in {None, revisions'[n].output}
                  \/ revisions'[n].status = "failed"
    <3>1. \E r : /\ revisions' = [revisions EXCEPT ![m] = r]
                 /\ revisions[m] \in Revision => r.output = revisions[m].output
      <4> DEFINE leased == [revisions[m] EXCEPT !.step = "running", !.batch = "running"]
                 refused == [revisions[m] EXCEPT !.step = "failed", !.batch = "failed"]
                 expired == [revisions[m] EXCEPT !.step = "expired"]
                 taken == [revisions[m] EXCEPT !.step = "retry_queued"]
      <4>1. \E r \in {leased, refused, expired, taken} : revisions' = [revisions EXCEPT ![m] = r]
        BY <2>0, <2>7 DEF Lease, RefuseDisabled, LeaseExpires, RecoverCommit
      <4>2. \A r \in {leased, refused, expired, taken} :
              revisions[m] \in Revision => r.output = revisions[m].output
        BY DEF Revision
      <4> QED BY <4>1, <4>2
    <3>2. Settled(m) => m \in disturbed'
      <4>1. disturbed \subseteq disturbed'
        BY <2>7 DEF Lease, RefuseDisabled, LeaseExpires, RecoverCommit, workers
      <4>2. CASE RecoverCommit(m)
        BY <2>4, <4>1, <4>2 DEF RecoverCommit
      <4>3. CASE ~RecoverCommit(m)
        BY <2>4, <2>7, <4>1, <4>3 DEF Lease, RefuseDisabled, LeaseExpires, Claimable
      <4> QED BY <4>2, <4>3
    <3> QED BY <2>3, <3>1, <3>2
  <2>8. ASSUME NEW q \in Requests,
               \/ \E m \in DOMAIN revisions, op \in Derivation : BeginRevision(q, m, op)
               \/ Rendered(q) \/ CommitSelection(q)
               \/ \E locked \in BOOLEAN, copied \in LayerIds \union {None} : BeginLayer(q, locked, copied)
               \/ \E i \in LayerIds : BeginDelete(q, i) \/ BeginLock(q, i)
               \/ CommitLayer(q) \/ CommitDelete(q) \/ CommitLock(q)
               \/ BeginReorder(q) \/ CommitReorder(q) \/ Refused(q)
        PROVE  revisions' = revisions
    BY <2>8 DEF BeginRevision, Rendered, Look, CommitSelection, BeginLayer, BeginDelete,
          BeginLock, BeginReorder, CommitLayer, CommitDelete, CommitLock, CommitReorder,
          Refused, Begin, database
  <2>9. ASSUME NEW e \in Executions,
               \/ \E a \in Pictures : CompleteRead(e, a)
               \/ CompleteLook(e)
               \/ \E retry \in BOOLEAN : FailRead(e, retry)
               \/ Stop(e)
        PROVE  revisions' = revisions
    BY <2>9 DEF CompleteRead, CompleteLook, FailRead, Stop, database
  <2>10. ASSUME NEW m \in DOMAIN revisions, RecoverRead(m) \/ RecoverEnd(m)
         PROVE  revisions' = revisions
    BY <2>10 DEF RecoverRead, RecoverEnd, database
  <2> QED BY <2>1, <2>2, <2>5, <2>6, <2>7, <2>8, <2>9, <2>10 DEF Next, Derivation
<1> QED BY <1>1, Undisturbed, PTL DEF Spec, ReadyRevisionsStay
=============================================================================
