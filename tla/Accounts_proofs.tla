-------------------------- MODULE Accounts_proofs ---------------------------
(***************************************************************************)
(* Proofs about Accounts for any number of accounts and requests.          *)
(*                                                                         *)
(* That only a race removes the last administrator follows from what an    *)
(* update still knows when it commits: if it takes an administrator away   *)
(* it had read another one, and where it read what still holds that other  *)
(* one stays.                                                              *)
(*                                                                         *)
(* That failures are bounded follows from counting the logins in flight    *)
(* with them: a login is let in below the limit, so failures and logins in *)
(* flight exceed it by at most the requests served at once, and every      *)
(* outage of Redis lets in each of these requests once more.               *)
(***************************************************************************)
EXTENDS Accounts, FiniteSetTheorems, TLAPS

Change == [old : User, new : User]

RequestType ==
  [op : {"none", "login", "right", "wrong", "admitted", "counting", "update"},
   user : Users \union {None},
   change : Change \union {None}, seen : SUBSET Users]

\* An update that is to commit and takes an administrator away has seen another.
LeavesOne(r) ==
  r.user \in r.seen /\ ~(r.change.new.admin /\ r.change.new.active) =>
    \E a \in r.seen : a # r.user

Held(r) ==
  /\ r.op # "none" => r.user \in Users
  /\ r.op \in {"right", "counting", "update"} => r.user \in Created
  /\ r.op \in {"counting", "update"} => r.change \in Change
  /\ r.op = "counting" => r.user \in r.seen
  /\ r.op = "update" => LeavesOne(r)

Inv ==
  /\ TypeOK
  /\ request \in [Requests -> RequestType]
  /\ \A q \in Requests : Held(request[q])

LEMMA AnotherOne ==
  ASSUME NEW S, NEW u \in S, Cardinality(S) > 1
  PROVE  \E a \in S : a # u
<1> SUFFICES ASSUME \A a \in S : a = u PROVE FALSE
  OBVIOUS
<1>1. S = {u}
  OBVIOUS
<1>2. Cardinality({u}) = 1
  BY FS_Singleton
<1> QED BY <1>1, <1>2

LEMMA InitInv == Init => Inv
<1> SUFFICES ASSUME Init PROVE Inv
  OBVIOUS
<1>1. TypeOK
  BY AccountAssumption DEF Init, TypeOK, AccountAssumption, User, Created
<1>2. Open \in RequestType /\ Held(Open)
  BY DEF Open, RequestType, Held
<1>3. \A q \in Requests : request[q] = Open
  BY DEF Init
<1> QED BY <1>1, <1>2, <1>3 DEF Init, Inv

\* Accounts are never taken back, so what other requests hold stays.
LEMMA RequestStep ==
  ASSUME Inv, TypeOK', Created \subseteq Created', NEW q \in Requests, NEW r \in RequestType,
         request' = [request EXCEPT ![q] = r], Held(r)
  PROVE  Inv'
<1>1. request' \in [Requests -> RequestType]
  BY DEF Inv
<1>2. ASSUME NEW p \in Requests
      PROVE  Held(request[p])'
  <2>1. Held(request'[p])
    BY DEF Inv
  <2> QED BY <2>1 DEF Held, LeavesOne
<1> QED BY <1>1, <1>2 DEF Inv

LEMMA StillInv ==
  ASSUME Inv, TypeOK', Created \subseteq Created', UNCHANGED request
  PROVE  Inv'
BY DEF Inv, Held, LeavesOne

LEMMA OpenHeld == Open \in RequestType /\ Held(Open)
BY DEF Open, RequestType, Held

-----------------------------------------------------------------------------
(* Steps.                                                                  *)

LEMMA LoginInv ==
  ASSUME Inv, NEW q \in Requests
  PROVE  /\ \A u \in Tried : Login(q, u) => Inv'
         /\ \A right \in BOOLEAN : Authenticate(q, right) => Inv'
         /\ LoginFails(q) => Inv'
         /\ LoginSucceeds(q) => Inv'
         /\ Broken(q) => Inv'
<1>0. TypeOK /\ request[q] \in RequestType /\ Held(request[q])
  BY DEF Inv
<1>1. ASSUME NEW u \in Tried, Login(q, u)
      PROVE  Inv'
  <2>1. CASE Limited(u)
    <3>1. UNCHANGED vars
      BY <1>1, <2>1 DEF Login, TurnedAway
    <3> QED BY <1>0, <3>1, StillInv DEF vars, TypeOK, Created
  <2>2. CASE ~Limited(u)
    <3> DEFINE r == [Open EXCEPT !.op = "login", !.user = u]
    <3>1. r \in RequestType /\ Held(r)
      BY AccountAssumption DEF RequestType, Held, Open, AccountAssumption
    <3>2. request' = [request EXCEPT ![q] = r] /\ UNCHANGED <<users, tokens, throttle>>
      BY <1>1, <2>2 DEF Login
    <3> HIDE DEF r
    <3> QED BY <1>0, <3>1, <3>2, RequestStep DEF throttle, TypeOK, Created
  <2> QED BY <2>1, <2>2
<1>2. ASSUME NEW right \in BOOLEAN, Authenticate(q, right)
      PROVE  Inv'
  <2> DEFINE u == request[q].user
             op == IF right /\ u \in Created /\ users[u].active THEN "right" ELSE "wrong"
             r == [request[q] EXCEPT !.op = op]
  <2>1. r \in RequestType /\ Held(r)
    BY <1>0, <1>2 DEF RequestType, Held, Authenticate
  <2>2. request' = [request EXCEPT ![q] = r] /\ UNCHANGED <<users, tokens, throttle>>
    BY <1>2 DEF Authenticate
  <2> HIDE DEF r
  <2> QED BY <1>0, <2>1, <2>2, RequestStep DEF throttle, TypeOK, Created
<1>3. ASSUME LoginFails(q)
      PROVE  Inv'
  <2>1. request[q].user \in Users
    BY <1>0, <1>3 DEF LoginFails, Held
  <2>2. TypeOK' /\ Created' = Created
    BY <1>0, <1>3, <2>1, AccountAssumption DEF LoginFails, CountFailure, TypeOK, Created, AccountAssumption
  <2> QED BY <1>3, <2>2, OpenHeld, RequestStep DEF LoginFails, Answer
<1>4. ASSUME LoginSucceeds(q)
      PROVE  Inv'
  <2>1. request[q].user \in Created
    BY <1>0, <1>4 DEF LoginSucceeds, Held
  <2>2. TypeOK' /\ Created' = Created
    BY <1>0, <1>4, <2>1, AccountAssumption DEF LoginSucceeds, TypeOK, Created, AccountAssumption
  <2> QED BY <1>4, <2>2, OpenHeld, RequestStep DEF LoginSucceeds, Answer
<1>5. ASSUME Broken(q)
      PROVE  Inv'
  <2>1. TypeOK' /\ Created' = Created
    BY <1>0, <1>5 DEF Broken, TypeOK, Created, throttle
  <2> QED BY <1>5, <2>1, OpenHeld, RequestStep DEF Broken, Answer
<1> QED BY <1>1, <1>2, <1>3, <1>4, <1>5

LEMMA AdmitInv ==
  ASSUME Inv, NEW q \in Requests, NEW actor \in Users, Admit(q, actor)
  PROVE  Inv'
<1> DEFINE r == [Open EXCEPT !.op = "admitted", !.user = actor, !.seen = {actor}]
<1>1. r \in RequestType /\ Held(r)
  BY DEF RequestType, Held, Open
<1>2. request' = [request EXCEPT ![q] = r] /\ TypeOK' /\ Created' = Created
  BY DEF Admit, Inv, TypeOK, Created, throttle
<1> HIDE DEF r
<1> QED BY <1>1, <1>2, RequestStep

LEMMA UpdateReadInv ==
  ASSUME Inv, NEW q \in Requests, NEW u \in Users, NEW change \in User, UpdateRead(q, u, change)
  PROVE  Inv'
<1>0. u \in Created /\ users[u] \in User /\ request[q] \in RequestType
  BY DEF UpdateRead, Inv, TypeOK, Created
<1> DEFINE old == Loaded(q, u)
           seen == request[q].seen
           r == [op |-> IF Administers(old) /\ ~Administers(change) THEN "counting" ELSE "update",
                 user |-> u, change |-> [old |-> old, new |-> change],
                 seen |-> IF Administers(old) THEN seen \union {u} ELSE seen]
<1>1. old \in User /\ (u \in seen => Administers(old)) /\ seen \subseteq Users
  BY <1>0 DEF Loaded, Administers, User, RequestType
<1>2. request' = [request EXCEPT ![q] = r] /\ TypeOK' /\ Created' = Created
  BY DEF UpdateRead, Inv, TypeOK, Created, throttle
<1> HIDE DEF old, seen
<1>3. r \in RequestType
  BY <1>0, <1>1 DEF RequestType, Change
<1>4. Held(r)
  <2>1. r.op = "counting" => r.user \in r.seen
    OBVIOUS
  <2>2. r.op = "update" => LeavesOne(r)
    BY <1>1 DEF LeavesOne, Administers
  <2> QED BY <1>0, <1>1, <2>1, <2>2 DEF Held, Change
<1> HIDE DEF r
<1> QED BY <1>2, <1>3, <1>4, RequestStep

LEMMA CountAdminsInv ==
  ASSUME Inv, NEW q \in Requests, CountAdmins(q)
  PROVE  Inv'
<1>0. request[q] \in RequestType /\ Held(request[q]) /\ request[q].op = "counting"
  BY DEF CountAdmins, Inv
<1> DEFINE seen == Admins \union request[q].seen
           r == [request[q] EXCEPT !.op = "update", !.seen = seen]
<1>1. Admins \subseteq Users
  BY DEF Admins, Created
<1>2. r \in RequestType
  BY <1>0, <1>1 DEF RequestType
<1>3. \E a \in seen : a # request[q].user
  <2>1. request[q].user \in seen /\ Cardinality(seen) > 1
    BY <1>0 DEF Held, CountAdmins, Removable
  <2> HIDE DEF seen
  <2> QED BY <2>1, AnotherOne
<1>4. r.seen = seen /\ r.user = request[q].user /\ r.change = request[q].change /\ r.op = "update"
  BY <1>0 DEF RequestType
<1>5. request' = [request EXCEPT ![q] = r] /\ TypeOK' /\ Created' = Created
  BY DEF CountAdmins, Inv, TypeOK, Created, throttle
<1> HIDE DEF r, seen
<1>6. Held(r)
  BY <1>0, <1>3, <1>4 DEF Held, LeavesOne
<1> QED BY <1>2, <1>5, <1>6, RequestStep

LEMMA UpdateCommitTypes ==
  ASSUME Inv, NEW q \in Requests, UpdateCommit(q)
  PROVE  LET u == request[q].user
         IN  /\ u \in Created /\ request[q].change \in Change /\ LeavesOne(request[q])
             /\ users' \in [Users -> User \union {None}] /\ users'[u] \in User
             /\ \A x \in Users \ {u} : users'[x] = users[x]
BY DEF Inv, Held, UpdateCommit, TypeOK, Created, User, Change

LEMMA UpdateCommitInv ==
  ASSUME Inv, NEW q \in Requests, UpdateCommit(q)
  PROVE  Inv'
<1>1. Created \subseteq Created'
  BY UpdateCommitTypes, AccountAssumption DEF Created, AccountAssumption, User
<1>2. TypeOK'
  BY <1>1, UpdateCommitTypes DEF Inv, TypeOK, UpdateCommit, throttle
<1> QED BY <1>1, <1>2, OpenHeld, RequestStep DEF UpdateCommit, Answer

LEMMA CreateUserInv ==
  ASSUME Inv, NEW actor \in Users, NEW u \in Users, NEW admin \in BOOLEAN, CreateUser(actor, u, admin)
  PROVE  Inv'
<1>1. users' \in [Users -> User \union {None}] /\ Created \subseteq Created'
  BY DEF CreateUser, Inv, TypeOK, User, Created
<1>2. TypeOK'
  BY <1>1 DEF Inv, TypeOK, CreateUser, throttle
<1> QED BY <1>1, <1>2, StillInv DEF CreateUser

\* Time and outages.
LEMMA EnvironmentInv ==
  ASSUME Inv
  PROVE  /\ \A u \in Users : Tick(u) => Inv'
         /\ \A u \in Users : TokenExpires(u) => Inv'
         /\ RedisFails => Inv'
         /\ RedisReturns => Inv'
<1>1. ASSUME NEW u \in Users, Tick(u)
      PROVE  Inv'
  <2>1. TypeOK' /\ Created' = Created
    BY <1>1, AccountAssumption DEF Inv, Tick, TypeOK, Created, AccountAssumption
  <2> QED BY <1>1, <2>1, StillInv DEF Tick
<1>2. ASSUME NEW u \in Users, TokenExpires(u)
      PROVE  Inv'
  BY <1>2, StillInv DEF Inv, TokenExpires, TypeOK, Created, throttle
<1>3. ASSUME RedisFails
      PROVE  Inv'
  BY <1>3, StillInv, AccountAssumption DEF Inv, RedisFails, TypeOK, Created, AccountAssumption
<1>4. ASSUME RedisReturns
      PROVE  Inv'
  BY <1>4, StillInv DEF Inv, RedisReturns, TypeOK, Created
<1> QED BY <1>1, <1>2, <1>3, <1>4

LEMMA NextInv == Inv /\ [Next]_vars => Inv'
<1> SUFFICES ASSUME Inv, [Next]_vars PROVE Inv'
  OBVIOUS
<1>1. CASE UNCHANGED vars
  BY <1>1, StillInv DEF vars, Inv, TypeOK, Created
<1>2. ASSUME NEW q \in Requests,
             \/ \E u \in Tried : Login(q, u)
             \/ \E right \in BOOLEAN : Authenticate(q, right)
             \/ LoginFails(q) \/ LoginSucceeds(q) \/ Broken(q)
      PROVE  Inv'
  BY <1>2, LoginInv
<1>3. ASSUME NEW q \in Requests, UpdateCommit(q)
      PROVE  Inv'
  BY <1>3, UpdateCommitInv
<1>4. ASSUME NEW q \in Requests,
             \/ \E actor \in Users : Admit(q, actor)
             \/ \E u \in Users, change \in User : UpdateRead(q, u, change)
             \/ CountAdmins(q)
      PROVE  Inv'
  BY <1>4, AdmitInv, UpdateReadInv, CountAdminsInv
<1>5. ASSUME NEW actor \in Users, NEW u \in Users, NEW admin \in BOOLEAN, CreateUser(actor, u, admin)
      PROVE  Inv'
  BY <1>5, CreateUserInv
<1>6. ASSUME (\E u \in Users : Tick(u) \/ TokenExpires(u)) \/ RedisFails \/ RedisReturns
      PROVE  Inv'
  BY <1>6, EnvironmentInv
<1> QED BY <1>1, <1>2, <1>3, <1>4, <1>5, <1>6 DEF Next

LEMMA Invariant == Spec => []Inv
<1>1. Init /\ [][Next]_vars => []Inv
  BY InitInv, NextInv, PTL
<1> QED BY <1>1, PTL DEF Spec

\* Type correctness, and a failure counter lives exactly as long as its expiry
\* (auth/throttle.py), through every outage of Redis.
THEOREM TypeCorrect == Spec => []TypeOK
<1>1. Inv => TypeOK
  BY DEF Inv
<1> QED BY <1>1, Invariant, PTL

-----------------------------------------------------------------------------
(* The last administrator.                                                 *)

\* Administrators whom no update names stay.
LEMMA OthersStay ==
  ASSUME Inv, NEW q \in Requests, UpdateCommit(q), NEW a \in Admins, a # request[q].user
  PROVE  a \in Admins'
BY UpdateCommitTypes DEF Admins, Created

\* An update that keeps somebody an administrator writes neither column to FALSE.
LEMMA KeptStays ==
  ASSUME Inv, NEW q \in Requests, UpdateCommit(q), request[q].user \in Admins,
         request[q].change.new.admin /\ request[q].change.new.active
  PROVE  request[q].user \in Admins'
<1> DEFINE u == request[q].user
           old == request[q].change.old
           new == request[q].change.new
<1>1. u \in Users /\ users[u].admin /\ users[u].active
  BY DEF Admins, Created
<1>2. users'[u] = [admin |-> IF new.admin = old.admin THEN users[u].admin ELSE new.admin,
                   active |-> IF new.active = old.active THEN users[u].active ELSE new.active]
  BY <1>1 DEF UpdateCommit, Inv, TypeOK
<1>3. users'[u].admin /\ users'[u].active
  BY <1>1, <1>2
<1>4. users'[u] # None
  BY UpdateCommitTypes, AccountAssumption DEF AccountAssumption, User
<1> QED BY <1>1, <1>3, <1>4 DEF Admins, Created

\* Who commits upon what it had read leaves an administrator.
LEMMA CurrentUpdateLeaves ==
  ASSUME Inv, NEW q \in Requests, UpdateCommit(q), request[q].seen = Admins, Admins # {}
  PROVE  Admins' # {}
<1>1. CASE request[q].user \in Admins /\ request[q].change.new.admin /\ request[q].change.new.active
  BY <1>1, KeptStays
<1>2. CASE request[q].user \in Admins /\ ~(request[q].change.new.admin /\ request[q].change.new.active)
  BY <1>2, UpdateCommitTypes, OthersStay DEF LeavesOne
<1>3. CASE request[q].user \notin Admins
  BY <1>3, OthersStay
<1> QED BY <1>1, <1>2, <1>3

\* Only an update whose reading is out of date when it commits can leave the system
\* without an active administrator (update_user), however many there are.
THEOREM LastAdminStays == Spec => LastAdminOnlyByRace
<1> DEFINE Race == \E q \in Requests : /\ request[q].op = "update" /\ request[q].seen # Admins
                                       /\ request'[q] = Open
           Step == Admins # {} /\ Admins' = {} => Race
<1>1. ASSUME Inv, [Next]_vars
      PROVE  [Step]_vars
  <2> SUFFICES ASSUME Next, Admins # {}, Admins' = {} PROVE Race
    BY <1>1
  <2>1. ASSUME UNCHANGED users
        PROVE  FALSE
    BY <2>1 DEF Admins, Created
  <2>2. ASSUME NEW q \in Requests,
               \/ \E u \in Tried : Login(q, u)
               \/ \E right \in BOOLEAN : Authenticate(q, right)
               \/ LoginFails(q) \/ LoginSucceeds(q) \/ Broken(q)
               \/ \E actor \in Users : Admit(q, actor)
               \/ \E u \in Users, change \in User : UpdateRead(q, u, change)
               \/ CountAdmins(q)
        PROVE  UNCHANGED users
    BY <2>2 DEF Login, TurnedAway, vars, Authenticate, LoginFails, LoginSucceeds, Broken, Admit,
                UpdateRead, CountAdmins
  <2>3. ASSUME (\E u \in Users : Tick(u) \/ TokenExpires(u)) \/ RedisFails \/ RedisReturns
        PROVE  UNCHANGED users
    BY <2>3 DEF Tick, TokenExpires, RedisFails, RedisReturns
  <2>4. ASSUME NEW actor \in Users, NEW u \in Users, NEW admin \in BOOLEAN, CreateUser(actor, u, admin)
        PROVE  FALSE
    <3>1. \A x \in Created : x \in Created' /\ users'[x] = users[x]
      BY <2>4 DEF CreateUser, Inv, TypeOK, Created
    <3> QED BY <3>1 DEF Admins
  <2>5. ASSUME NEW q \in Requests, UpdateCommit(q)
        PROVE  Race
    <3>1. request[q].op = "update" /\ request'[q] = Open
      BY <1>1, <2>5 DEF UpdateCommit, Answer, Inv
    <3>2. request[q].seen # Admins
      BY <1>1, <2>5, CurrentUpdateLeaves
    <3> QED BY <3>1, <3>2
  <2> QED BY <2>1, <2>2, <2>3, <2>4, <2>5 DEF Next
<1>2. Inv /\ [Next]_vars =>
        [Admins # {} /\ Admins' = {} =>
           \E q \in Requests : request[q].op = "update" /\ request[q].seen # Admins
                               /\ request'[q] = Open]_vars
  BY <1>1
<1> QED BY <1>2, Invariant, PTL DEF Spec, LastAdminOnlyByRace

-----------------------------------------------------------------------------
(* The throttle.                                                           *)

\* Logins to an account that passed the throttle and are not counted yet.
Pending(u) ==
  {q \in Requests : request[q].op \in {"login", "right", "wrong"} /\ request[q].user = u}

\* The failures that may be there with n times every request let through.
Allowed(n) == MaxAttempts - 1 + Cardinality(Requests) * n

\* A login in flight may become a failure unless Redis is out of reach; every
\* outage lets each request through once more.
ThrottleInv ==
  \A u \in Users :
    /\ redis = "up" => failures[u] + Cardinality(Pending(u)) <= Allowed(outages + 1)
    /\ redis = "down" => failures[u] <= Allowed(outages)

\* The facts about Allowed that the steps need.
LEMMA AllowedGrows ==
  ASSUME NEW n \in Nat
  PROVE  /\ Allowed(n) \in Nat /\ Allowed(n + 1) = Allowed(n) + Cardinality(Requests)
         /\ MaxAttempts - 1 <= Allowed(n)
         /\ \A m \in Nat : n <= m => Allowed(n) <= Allowed(m)
<1> DEFINE R == Cardinality(Requests)
<1>1. R \in Nat
  BY FS_CardinalityType, AccountAssumption DEF AccountAssumption
<1> HIDE DEF R
<1>2. R * n \in Nat /\ R * (n + 1) = R * n + R
  BY <1>1
<1>3. ASSUME NEW m \in Nat, n <= m PROVE R * n <= R * m
  <2>1. PICK k \in Nat : m = n + k
    BY <1>3, m - n \in Nat
  <2>2. R * m = R * n + R * k /\ R * k \in Nat
    BY <1>1, <2>1
  <2> QED BY <1>2, <2>2
<1>4. \A m \in Nat : R * m \in Nat
  BY <1>1
<1>5. \A m \in Nat : Allowed(m) = MaxAttempts - 1 + R * m
  BY DEF Allowed, R
<1>6. MaxAttempts - 1 \in Nat
  BY AccountAssumption DEF AccountAssumption
<1>7. Allowed(n) \in Nat /\ Allowed(n + 1) = Allowed(n) + R /\ MaxAttempts - 1 <= Allowed(n)
  BY <1>1, <1>2, <1>5, <1>6
<1>8. ASSUME NEW m \in Nat, n <= m PROVE Allowed(n) <= Allowed(m)
  BY <1>2, <1>3, <1>4, <1>5, <1>6, <1>8
<1> QED BY <1>7, <1>8 DEF R

\* Requests of one account are no more than there are requests.
LEMMA FewRequests ==
  ASSUME NEW S \in SUBSET Requests
  PROVE  /\ IsFiniteSet(S) /\ Cardinality(S) \in Nat
         /\ Cardinality(S) <= Cardinality(Requests)
         /\ \A T \in SUBSET S : Cardinality(T) <= Cardinality(S)
         /\ \A q \in S : Cardinality(S \ {q}) = Cardinality(S) - 1
<1>1. IsFiniteSet(Requests)
  BY AccountAssumption DEF AccountAssumption
<1>2. IsFiniteSet(S) /\ Cardinality(S) <= Cardinality(Requests)
  BY <1>1, FS_Subset
<1> QED BY <1>2, FS_CardinalityType, FS_Subset, FS_RemoveElement

\* Of two counters of one account: less failed, and nothing new is in flight.
LEMMA ThrottleEases ==
  ASSUME Inv, Inv', ThrottleInv, UNCHANGED <<redis, outages>>,
         \A u \in Users : failures'[u] <= failures[u] /\ Pending(u)' \subseteq Pending(u)
  PROVE  ThrottleInv'
<1> SUFFICES ASSUME NEW u \in Users
             PROVE  /\ redis = "up" => failures'[u] + Cardinality(Pending(u)') <= Allowed(outages + 1)
                    /\ redis = "down" => failures'[u] <= Allowed(outages)
  BY DEF ThrottleInv, Allowed
<1>1. failures[u] \in Nat /\ failures'[u] \in Nat /\ outages \in Nat
  BY DEF Inv, TypeOK
<1>2. /\ Cardinality(Pending(u)) \in Nat /\ Cardinality(Pending(u)') \in Nat
      /\ Cardinality(Pending(u)') <= Cardinality(Pending(u))
  <2>1. Pending(u) \in SUBSET Requests /\ Pending(u)' \in SUBSET Pending(u)
    BY DEF Pending
  <2> QED BY <2>1, FewRequests
<1>3. Allowed(outages + 1) \in Nat /\ Allowed(outages) \in Nat
  BY <1>1, AllowedGrows
<1> QED BY <1>1, <1>2, <1>3 DEF ThrottleInv

\* A request that ends, or goes on with the same login, adds none to those in
\* flight.
LEMMA PendingEases ==
  ASSUME Inv, NEW q \in Requests, NEW r, request' = [request EXCEPT ![q] = r],
         \/ r.op \notin {"login", "right", "wrong"}
         \/ request[q].op \in {"login", "right", "wrong"} /\ r.user = request[q].user
  PROVE  \A u \in Users : Pending(u)' \subseteq Pending(u)
  BY DEF Inv, Pending

\* The throttle keeps its bound through every step of a login.
LEMMA LoginThrottle ==
  ASSUME Inv, Inv', ThrottleInv, NEW q \in Requests
  PROVE  /\ \A u \in Tried : Login(q, u) => ThrottleInv'
         /\ \A right \in BOOLEAN : Authenticate(q, right) => ThrottleInv'
         /\ LoginFails(q) => ThrottleInv'
         /\ LoginSucceeds(q) => ThrottleInv'
         /\ Broken(q) => ThrottleInv'
<1>0. /\ failures \in [Users -> Nat] /\ outages \in Nat /\ redis \in {"up", "down"}
      /\ request \in [Requests -> RequestType]
  BY DEF Inv, TypeOK
<1>1. ASSUME NEW u \in Tried, Login(q, u) PROVE ThrottleInv'
  <2>1. CASE Limited(u)
    BY <1>1, <2>1 DEF Login, TurnedAway, vars, ThrottleInv, Pending, Allowed
  <2>2. CASE ~Limited(u)
    <3>1. /\ UNCHANGED throttle /\ u \in Users
          /\ request' = [request EXCEPT ![q] = [Open EXCEPT !.op = "login", !.user = u]]
      BY <1>1, <2>2, AccountAssumption DEF Login, AccountAssumption
    <3>2. ASSUME NEW x \in Users, redis = "up"
          PROVE  failures[x] + Cardinality(Pending(x)') <= Allowed(outages + 1)
      <4>1. CASE x = u
        <5>1. failures[u] <= MaxAttempts - 1
          BY <1>0, <2>2, <3>1, <3>2, AccountAssumption DEF Limited, AccountAssumption
        <5>2. /\ Cardinality(Pending(u)') \in Nat /\ Cardinality(Requests) \in Nat
              /\ Cardinality(Pending(u)') <= Cardinality(Requests)
          <6>1. Pending(u)' \in SUBSET Requests /\ Requests \in SUBSET Requests
            BY DEF Pending
          <6> QED BY <6>1, FewRequests
        <5>3. /\ MaxAttempts - 1 <= Allowed(outages) /\ Allowed(outages) \in Nat
              /\ Allowed(outages + 1) = Allowed(outages) + Cardinality(Requests)
          BY <1>0, AllowedGrows
        <5> QED BY <1>0, <3>1, <4>1, <5>1, <5>2, <5>3, AccountAssumption DEF AccountAssumption
      <4>2. CASE x # u
        <5>1. Pending(x)' \subseteq Pending(x)
          BY <1>0, <3>1, <4>2 DEF Pending, Open
        <5>2. /\ Cardinality(Pending(x)') <= Cardinality(Pending(x))
              /\ Cardinality(Pending(x)) \in Nat /\ Cardinality(Pending(x)') \in Nat
          <6>1. Pending(x) \in SUBSET Requests /\ Pending(x)' \in SUBSET Pending(x)
            BY <5>1 DEF Pending
          <6> QED BY <6>1, FewRequests
        <5>3. Allowed(outages + 1) \in Nat
          BY <1>0, AllowedGrows
        <5> QED BY <1>0, <3>2, <5>2, <5>3 DEF ThrottleInv
      <4> QED BY <4>1, <4>2
    <3> QED BY <3>1, <3>2 DEF throttle, ThrottleInv, Allowed
  <2> QED BY <2>1, <2>2
<1>2. ASSUME NEW right \in BOOLEAN, Authenticate(q, right) PROVE ThrottleInv'
  <2> DEFINE u == request[q].user
             op == IF right /\ u \in Created /\ users[u].active THEN "right" ELSE "wrong"
             r == [request[q] EXCEPT !.op = op]
  <2>1. request' = [request EXCEPT ![q] = r] /\ UNCHANGED throttle /\ request[q].op = "login"
    BY <1>2 DEF Authenticate
  <2>2. r.user = request[q].user
    BY <1>0 DEF RequestType
  <2> HIDE DEF r
  <2>3. \A x \in Users : Pending(x)' \subseteq Pending(x)
    BY <2>1, <2>2, PendingEases
  <2> QED BY <1>0, <2>1, <2>3, ThrottleEases DEF throttle
<1>3. ASSUME LoginFails(q) PROVE ThrottleInv'
  <2>0. PICK u \in Users : u = request[q].user
    BY <1>3 DEF LoginFails, Inv, Held
  <2>1. /\ request[q].op = "wrong"
        /\ request' = [request EXCEPT ![q] = Open] /\ UNCHANGED <<redis, outages>>
        /\ failures' = IF redis = "up" THEN [failures EXCEPT ![u] = @ + 1] ELSE failures
    BY <1>3, <2>0 DEF LoginFails, CountFailure, Answer
  <2>2. \A x \in Users : Pending(x)' \subseteq Pending(x)
    BY <2>1, PendingEases DEF Open
  <2>3. CASE redis = "down"
    BY <1>0, <2>1, <2>2, <2>3, ThrottleEases
  <2>4. CASE redis = "up"
    <3> SUFFICES ASSUME NEW x \in Users
                 PROVE  failures'[x] + Cardinality(Pending(x)') <= Allowed(outages + 1)
      BY <2>1, <2>4 DEF ThrottleInv, Allowed
    <3>1. /\ Cardinality(Pending(x)') <= Cardinality(Pending(x))
          /\ Cardinality(Pending(x)) \in Nat /\ Cardinality(Pending(x)') \in Nat
      <4>1. Pending(x) \in SUBSET Requests /\ Pending(x)' \in SUBSET Pending(x)
        BY <2>2 DEF Pending
      <4> QED BY <4>1, FewRequests
    <3>2. /\ failures[x] + Cardinality(Pending(x)) <= Allowed(outages + 1)
          /\ Allowed(outages + 1) \in Nat
      BY <1>0, <2>4, AllowedGrows DEF ThrottleInv
    <3>3. CASE x = u
      <4>1. q \in Pending(u) /\ Pending(u)' = Pending(u) \ {q}
        BY <1>0, <2>0, <2>1 DEF Pending, Open
      <4>2. Cardinality(Pending(x)') = Cardinality(Pending(x)) - 1
        BY <3>3, <4>1, FewRequests DEF Pending
      <4>3. failures'[x] = failures[x] + 1
        BY <1>0, <2>1, <2>4, <3>3
      <4> QED BY <1>0, <3>1, <3>2, <4>2, <4>3
    <3>4. CASE x # u
      BY <1>0, <2>1, <3>1, <3>2, <3>4
    <3> QED BY <3>3, <3>4
  <2> QED BY <1>0, <2>3, <2>4
<1>4. ASSUME LoginSucceeds(q) \/ Broken(q) PROVE ThrottleInv'
  <2>1. /\ request' = [request EXCEPT ![q] = Open] /\ UNCHANGED <<redis, outages>>
        /\ failures' = failures \/ \E u : failures' = [failures EXCEPT ![u] = 0]
    BY <1>4 DEF LoginSucceeds, Broken, Answer, throttle
  <2>2. \A x \in Users : Pending(x)' \subseteq Pending(x)
    BY <2>1, PendingEases DEF Open
  <2> QED BY <1>0, <2>1, <2>2, ThrottleEases
<1> QED BY <1>1, <1>2, <1>3, <1>4

\* An outage forgets who is in flight, and the return of Redis lets them all
\* count once.
LEMMA OutageThrottle ==
  ASSUME Inv, Inv', ThrottleInv
  PROVE  /\ RedisFails => ThrottleInv'
         /\ RedisReturns => ThrottleInv'
<1>0. failures \in [Users -> Nat] /\ outages \in Nat
  BY DEF Inv, TypeOK
<1>1. ASSUME NEW u \in Users
      PROVE  /\ Cardinality(Pending(u)) \in Nat /\ Cardinality(Requests) \in Nat
             /\ Cardinality(Pending(u)) <= Cardinality(Requests)
  <2>1. Pending(u) \in SUBSET Requests /\ Requests \in SUBSET Requests
    BY DEF Pending
  <2> QED BY <2>1, FewRequests
<1>2. /\ Allowed(outages) \in Nat /\ Allowed(outages + 1) \in Nat
      /\ Allowed(outages + 1) = Allowed(outages) + Cardinality(Requests)
  BY <1>0, AllowedGrows
<1>3. ASSUME RedisFails PROVE ThrottleInv'
  <2>1. ASSUME NEW u \in Users PROVE failures[u] <= Allowed(outages + 1)
    BY <1>0, <1>1, <1>2, <1>3 DEF RedisFails, ThrottleInv
  <2> QED BY <1>3, <2>1 DEF RedisFails, ThrottleInv, Allowed
<1>4. ASSUME RedisReturns PROVE ThrottleInv'
  <2>1. ASSUME NEW u \in Users
        PROVE  failures[u] + Cardinality(Pending(u)) <= Allowed(outages + 1)
    BY <1>0, <1>1, <1>2, <1>4 DEF RedisReturns, ThrottleInv
  <2> QED BY <1>4, <2>1 DEF RedisReturns, ThrottleInv, Allowed, Pending
<1> QED BY <1>3, <1>4

LEMMA ThrottleStep == Inv /\ ThrottleInv /\ [Next]_vars => ThrottleInv'
<1> SUFFICES ASSUME Inv, Inv', ThrottleInv, [Next]_vars PROVE ThrottleInv'
  BY NextInv
<1>0. failures \in [Users -> Nat]
  BY DEF Inv, TypeOK
<1>1. CASE UNCHANGED vars
  BY <1>1 DEF vars, ThrottleInv, Pending, Allowed
<1>2. ASSUME NEW q \in Requests,
             \/ \E u \in Tried : Login(q, u)
             \/ \E right \in BOOLEAN : Authenticate(q, right)
             \/ LoginFails(q) \/ LoginSucceeds(q) \/ Broken(q)
      PROVE  ThrottleInv'
  BY <1>2, LoginThrottle
<1>3. ASSUME NEW q \in Requests,
             \/ \E actor \in Users : Admit(q, actor)
             \/ \E u \in Users, change \in User : UpdateRead(q, u, change)
             \/ CountAdmins(q)
      PROVE  ThrottleInv'
  <2>1. request' \in [Requests -> RequestType]
          /\ \A p \in Requests \ {q} : request'[p] = request[p]
    BY <1>3 DEF Admit, UpdateRead, CountAdmins, Inv
  <2>2. request'[q].op \in {"admitted", "counting", "update"}
    <3>1. request[q] \in RequestType /\ request \in [Requests -> RequestType]
      BY DEF Inv
    <3>2. CASE \E actor \in Users : Admit(q, actor)
      BY <3>1, <3>2 DEF Admit, Open
    <3>3. CASE \E u \in Users, change \in User : UpdateRead(q, u, change)
      BY <3>1, <3>3 DEF UpdateRead
    <3>4. CASE CountAdmins(q)
      BY <3>1, <3>4 DEF CountAdmins, RequestType
    <3> QED BY <1>3, <3>2, <3>3, <3>4
  <2>4. \A x \in Users : Pending(x)' \subseteq Pending(x)
    BY <2>1, <2>2 DEF Pending
  <2>3. UNCHANGED throttle
    BY <1>3 DEF Admit, UpdateRead, CountAdmins
  <2> QED BY <1>0, <2>3, <2>4, ThrottleEases DEF throttle
<1>4. ASSUME NEW q \in Requests, UpdateCommit(q) PROVE ThrottleInv'
  <2>1. \A x \in Users : Pending(x)' \subseteq Pending(x)
    BY <1>4, PendingEases DEF UpdateCommit, Answer, Open
  <2> QED BY <1>0, <1>4, <2>1, ThrottleEases DEF UpdateCommit, throttle
<1>5. ASSUME \/ \E actor, u \in Users, admin \in BOOLEAN : CreateUser(actor, u, admin)
             \/ \E u \in Users : Tick(u) \/ TokenExpires(u)
      PROVE  ThrottleInv'
  <2>1. UNCHANGED <<request, redis, outages>> /\ \A u \in Users : failures'[u] <= failures[u]
    BY <1>0, <1>5 DEF CreateUser, Tick, TokenExpires, throttle
  <2>2. \A x \in Users : Pending(x)' \subseteq Pending(x)
    BY <2>1 DEF Pending
  <2> QED BY <2>1, <2>2, ThrottleEases
<1> QED BY <1>1, <1>2, <1>3, <1>4, <1>5, OutageThrottle DEF Next

\* The counter of failed logins (auth/throttle.py) never exceeds the setting by
\* more than the requests that are served at one time, once more for each outage
\* of Redis: the throttle reads before it counts, and without Redis not at all.
THEOREM FailuresLimited == Spec => []FailuresBounded
<1>1. Init => ThrottleInv
  <2> SUFFICES ASSUME Init PROVE ThrottleInv
    OBVIOUS
  <2>1. /\ redis = "up" /\ outages = 0 /\ \A u \in Users : failures[u] = 0
        /\ \A q \in Requests : request[q] = Open
    BY DEF Init
  <2>2. ASSUME NEW u \in Users PROVE Cardinality(Pending(u)) = 0
    <3>1. Pending(u) = {}
      BY <2>1 DEF Pending, Open
    <3> QED BY <3>1, FS_EmptySet
  <2>3. Allowed(0 + 1) \in Nat
    BY AllowedGrows
  <2> QED BY <2>1, <2>2, <2>3 DEF ThrottleInv
<1>2. Inv /\ ThrottleInv => FailuresBounded
  <2> SUFFICES ASSUME Inv, ThrottleInv, NEW u \in Users PROVE failures[u] \in Counter
    BY DEF FailuresBounded
  <2>1. failures[u] \in Nat /\ outages \in Nat /\ outages <= MaxOutages /\ MaxOutages \in Nat
        /\ redis \in {"up", "down"}
    BY AccountAssumption DEF Inv, TypeOK, AccountAssumption
  <2>2. Cardinality(Pending(u)) \in Nat
    BY FewRequests DEF Pending
  <2>3. /\ Allowed(outages + 1) <= Allowed(MaxOutages + 1)
        /\ Allowed(outages) <= Allowed(MaxOutages + 1)
        /\ {Allowed(outages), Allowed(outages + 1), Allowed(MaxOutages + 1)} \subseteq Nat
    BY <2>1, AllowedGrows
  <2>4. failures[u] <= Allowed(MaxOutages + 1)
    BY <2>1, <2>2, <2>3 DEF ThrottleInv
  <2> QED BY <2>1, <2>3, <2>4 DEF Counter, Allowed
<1>3. Init /\ [][Next]_vars => [](Inv /\ ThrottleInv)
  BY <1>1, InitInv, NextInv, ThrottleStep, PTL
<1> QED BY <1>2, <1>3, PTL DEF Spec
=============================================================================
