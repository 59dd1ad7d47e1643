------------------------------ MODULE Accounts ------------------------------
(***************************************************************************)
(* Users and sessions: auth/router.py, auth/throttle.py, the dependencies  *)
(* of auth/dependencies.py and the user administration of admin/service.py.*)
(*                                                                         *)
(* A login is three steps: the counter of failures is read in Redis, the   *)
(* password is verified (slowly, on purpose), the counter is written.  An  *)
(* administration request reads the rows it decides on one after another,  *)
(* its session keeps what it has loaded, and it commits later.             *)
(* Redis may be out of reach; the throttle then lets every login pass and  *)
(* forgets every failure.                                                  *)
(***************************************************************************)
EXTENDS Naturals, FiniteSets

CONSTANTS
  Users, FirstAdmin,   \* accounts, and the one bootstrap_admin creates
  Requests,            \* requests being served
  None,
  MaxAttempts,         \* login_max_attempts
  Window,              \* login_window_seconds, in ticks
  Tried,               \* bound: accounts somebody logs in to
  MaxOutages           \* bound: outages of Redis

ASSUME AccountAssumption ==
  /\ FirstAdmin \in Users /\ None \notin Users \union [admin : BOOLEAN, active : BOOLEAN]
  /\ Tried \subseteq Users /\ IsFiniteSet(Requests)
  /\ MaxAttempts \in Nat \ {0} /\ Window \in Nat \ {0} /\ MaxOutages \in Nat

VARIABLES
  users,      \* users
  tokens,     \* users who hold an access token that has not expired
  failures,   \* the counter of failed logins in Redis
  ttl,        \* its time to live
  redis,      \* "up" or "down"
  outages,
  request     \* what a request has read

vars == <<users, tokens, failures, ttl, redis, outages, request>>
throttle == <<failures, ttl, redis, outages>>

User == [admin : BOOLEAN, active : BOOLEAN]
Open == [op |-> "none", user |-> None, change |-> None, seen |-> {}]
Counter == 0..(MaxAttempts - 1 + Cardinality(Requests) * (MaxOutages + 1))

Created == {u \in Users : users[u] # None}
Admins == {u \in Created : users[u].admin /\ users[u].active}

\* bootstrap_admin.
Init ==
  /\ users = [u \in Users |-> IF u = FirstAdmin THEN [admin |-> TRUE, active |-> TRUE] ELSE None]
  /\ tokens = {}
  /\ failures = [u \in Users |-> 0]
  /\ ttl = [u \in Users |-> 0]
  /\ redis = "up"
  /\ outages = 0
  /\ request = [q \in Requests |-> Open]

Answer(q) == request' = [request EXCEPT ![q] = Open]

-----------------------------------------------------------------------------
(* Login.                                                                  *)

\* Mutant: one attempt more than the setting allows.
LimitedLate(u) == redis = "up" /\ failures[u] > MaxAttempts

\* login_is_limited: without Redis nobody is.
Limited(u) == redis = "up" /\ failures[u] >= MaxAttempts

CountFailure(u) ==
  /\ failures' = IF redis = "up" THEN [failures EXCEPT ![u] = @ + 1] ELSE failures
  /\ ttl' = IF redis = "up" THEN [ttl EXCEPT ![u] = Window] ELSE ttl

\* Mutant: a refused login prolongs the window.
TurnedAwayProlonging(u) ==
  /\ ttl' = [ttl EXCEPT ![u] = Window]
  /\ UNCHANGED <<users, tokens, failures, redis, outages, request>>

\* 429, and no trace of it.
TurnedAway(u) == UNCHANGED vars

Login(q, u) ==
  /\ request[q] = Open
  /\ IF Limited(u) THEN TurnedAway(u)
     ELSE /\ request' = [request EXCEPT ![q] = [Open EXCEPT !.op = "login", !.user = u]]
          /\ UNCHANGED <<users, tokens, throttle>>

\* authenticate_user: the account exists, is active and the password is right.
Authenticate(q, right) ==
  LET u == request[q].user IN
  /\ request[q].op = "login"
  /\ request' = [request EXCEPT ![q].op =
                   IF right /\ u \in Created /\ users[u].active THEN "right" ELSE "wrong"]
  /\ UNCHANGED <<users, tokens, throttle>>

LoginFails(q) ==
  /\ request[q].op = "wrong"
  /\ CountFailure(request[q].user)
  /\ Answer(q)
  /\ UNCHANGED <<users, tokens, redis, outages>>

LoginSucceeds(q) ==
  LET u == request[q].user IN
  /\ request[q].op = "right"
  /\ failures' = IF redis = "up" THEN [failures EXCEPT ![u] = 0] ELSE failures
  /\ ttl' = IF redis = "up" THEN [ttl EXCEPT ![u] = 0] ELSE ttl
  /\ tokens' = tokens \union {u}
  /\ Answer(q)
  /\ UNCHANGED <<users, redis, outages>>

\* Time passes for the counter of one account; at the end the key is gone.
Tick(u) ==
  /\ ttl[u] > 0
  /\ ttl' = [ttl EXCEPT ![u] = @ - 1]
  /\ failures' = IF ttl[u] = 1 THEN [failures EXCEPT ![u] = 0] ELSE failures
  /\ UNCHANGED <<users, tokens, redis, outages, request>>

RedisFails ==
  /\ redis = "up" /\ outages < MaxOutages
  /\ redis' = "down" /\ outages' = outages + 1
  /\ UNCHANGED <<users, tokens, failures, ttl, request>>

RedisReturns ==
  /\ redis = "down" /\ redis' = "up"
  /\ UNCHANGED <<users, tokens, failures, ttl, outages, request>>

TokenExpires(u) ==
  /\ u \in tokens /\ tokens' = tokens \ {u}
  /\ UNCHANGED <<users, throttle, request>>

-----------------------------------------------------------------------------
(* Administration.                                                         *)

\* get_current_user and require_roles: the row decides, not the token's roles.
MayAdminister(u) == u \in tokens /\ u \in Admins

\* get_current_user: the session has loaded the row of the actor.
Admit(q, actor) ==
  /\ request[q] = Open
  /\ MayAdminister(actor)
  /\ request' = [request EXCEPT ![q] = [Open EXCEPT !.op = "admitted", !.user = actor, !.seen = {actor}]]
  /\ UNCHANGED <<users, tokens, throttle>>

Administers(row) == row.admin /\ row.active

\* A row that the session has loaded is not loaded again: it was an administrator's.
Loaded(q, u) == IF u \in request[q].seen THEN [admin |-> TRUE, active |-> TRUE] ELSE users[u]

\* update_user: the row is read; administrators are counted only if it takes one away.
UpdateRead(q, u, change) ==
  LET old == Loaded(q, u) IN
  /\ request[q].op = "admitted"
  /\ u \in Created /\ old # change
  /\ request' = [request EXCEPT ![q] =
       [op |-> IF Administers(old) /\ ~Administers(change) THEN "counting" ELSE "update",
        user |-> u, change |-> [old |-> old, new |-> change],
        seen |-> IF Administers(old) THEN @.seen \union {u} ELSE @.seen]]
  /\ UNCHANGED <<users, tokens, throttle>>

\* Mutant: the last administrator is counted as one who may go.
RemovableOffByOne(seen) == Cardinality(seen) > 0

Removable(seen) == Cardinality(seen) > 1

\* list_users, which leaves the loaded rows as they are.
CountAdmins(q) ==
  LET seen == Admins \union request[q].seen IN
  /\ request[q].op = "counting"
  /\ Removable(seen)
  /\ request' = [request EXCEPT ![q] = [@ EXCEPT !.op = "update", !.seen = seen]]
  /\ UNCHANGED <<users, tokens, throttle>>

\* Only the columns that differ from the row as it was read are written.
UpdateCommit(q) ==
  LET u == request[q].user
      old == request[q].change.old
      new == request[q].change.new IN
  /\ request[q].op = "update"
  /\ users' = [users EXCEPT ![u] =
       [admin |-> IF new.admin = old.admin THEN @.admin ELSE new.admin,
        active |-> IF new.active = old.active THEN @.active ELSE new.active]]
  /\ Answer(q)
  /\ UNCHANGED <<tokens, throttle>>

\* create_user: the unique e-mail refuses the second of two.
CreateUser(actor, u, admin) ==
  /\ MayAdminister(actor)
  /\ users[u] = None
  /\ users' = [users EXCEPT ![u] = [admin |-> admin, active |-> TRUE]]
  /\ UNCHANGED <<tokens, throttle, request>>

\* The request is broken off before it commits anything.
Broken(q) ==
  /\ request[q] # Open
  /\ Answer(q)
  /\ UNCHANGED <<users, tokens, throttle>>

Next ==
  \/ \E q \in Requests :
       \/ \E u \in Tried : Login(q, u)
       \/ \E right \in BOOLEAN : Authenticate(q, right)
       \/ LoginFails(q) \/ LoginSucceeds(q) \/ CountAdmins(q) \/ UpdateCommit(q) \/ Broken(q)
       \/ \E actor \in Users : Admit(q, actor)
       \/ \E u \in Users, change \in User : UpdateRead(q, u, change)
  \/ \E u \in Users : Tick(u) \/ TokenExpires(u)
  \/ \E actor, u \in Users, admin \in BOOLEAN : CreateUser(actor, u, admin)
  \/ RedisFails \/ RedisReturns

\* Time passes, and Redis counts it.
Spec == Init /\ [][Next]_vars /\ \A u \in Users : WF_vars(Tick(u))

-----------------------------------------------------------------------------
(* Properties.                                                             *)

\* Type correctness; a counter is there as long as it has time to live.
TypeOK ==
  /\ users \in [Users -> User \union {None}]
  /\ tokens \subseteq Created
  /\ failures \in [Users -> Nat] /\ ttl \in [Users -> 0..Window]
  /\ \A u \in Users : failures[u] = 0 <=> ttl[u] = 0
  /\ redis \in {"up", "down"} /\ outages \in 0..MaxOutages

\* The throttle reads before it counts, so logins in flight may pass together;
\* beyond the setting there are never more failures than requests in flight,
\* once more for every outage.
FailuresBounded == \A u \in Users : failures[u] \in Counter

\* The last active administrator is disabled or demoted only by an update that
\* had read other administrators than there are when it commits.
LastAdminOnlyByRace ==
  [][Admins # {} /\ Admins' = {} =>
       \E q \in Requests : request[q].op = "update" /\ request[q].seen # Admins
                           /\ request'[q] = Open]_vars

\* A throttled account can try again, however often it is tried meanwhile.
LockoutEnds == \A u \in Users : failures[u] >= MaxAttempts ~> failures[u] < MaxAttempts
=============================================================================
