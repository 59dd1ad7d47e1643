----------------------------- MODULE Providers ------------------------------
(***************************************************************************)
(* One model configuration and the calls made with it: models/service.py,  *)
(* models/secrets.py, providers/registry.py, generic_http.py and the       *)
(* protocol of comfyui.py, for the attempts of one generation step.        *)
(*                                                                         *)
(* The key of a configuration is encrypted for its provider and model id:  *)
(* it can be decrypted under that pair and no other.  Two administrators   *)
(* may change the configuration at once.  A ComfyUI server runs a prompt   *)
(* whether or not anybody still waits for it.                              *)
(***************************************************************************)
EXTENDS Naturals, FiniteSets

CONSTANTS
  ProviderNames, ModelIds, Secrets, None,
  Requests,     \* administration requests being served
  References,   \* pictures uploaded: references of the step that have a binding
  MaxPolls,     \* two for every second of the timeout
  MaxAttempts,  \* bound: attempts of the step
  MaxUpdates    \* bound: updates of the configuration

VARIABLES
  row,       \* the model_configurations row
  request,   \* what an administration request has read, and asks
  updates,   \* for the bound
  attempts,  \* attempts of the step
  call,      \* the attempt being made
  server,    \* the prompts of a ComfyUI server, by the attempt that posted them
  results    \* what attempts returned: the attempt and the prompt the picture is from

vars == <<row, request, updates, attempts, call, server, results>>
configuration == <<row, request, updates>>
calls == <<attempts, call, server, results>>

Attempt == 1..MaxAttempts
Key == [secret : Secrets, provider : ProviderNames, model : ModelIds]
Row == [provider : ProviderNames, model : ModelIds, key : Key \union {None}]

ASSUME ProviderAssumption ==
  /\ ProviderNames \subseteq {"mock", "generic_http", "comfyui"}
  /\ {References, MaxAttempts, MaxUpdates} \subseteq Nat /\ MaxPolls \in Nat \ {0}
  /\ None \notin Secrets \union ModelIds \union Row

Open == [row |-> None, payload |-> None]
Payload == [provider : ProviderNames, model : ModelIds, secret : Secrets \union {None}, clear : BOOLEAN]
NoCall == [phase |-> "idle", uploaded |-> 0, polls |-> 0, prompt |-> 0]

Encrypted(secret, provider, model) == [secret |-> secret, provider |-> provider, model |-> model]

\* The authenticated data of the key are those of the row.
Decryptable(r) ==
  r.key # None => r.key.provider = r.provider /\ r.key.model = r.model

\* create_model_configuration: with a key or without one.
Init ==
  /\ row \in {r \in Row : Decryptable(r)}
  /\ request = [q \in Requests |-> Open]
  /\ updates = 0
  /\ attempts = 0
  /\ call = NoCall
  /\ server = [n \in Attempt |-> "none"]
  /\ results = {}

-----------------------------------------------------------------------------
(* Administration of the configuration.                                    *)

UpdateRead(q, payload) ==
  /\ request[q] = Open
  /\ updates < MaxUpdates /\ updates' = updates + 1
  /\ Decryptable(row)
  /\ request' = [request EXCEPT ![q] = [row |-> row, payload |-> payload]]
  /\ UNCHANGED <<row, calls>>

\* Mutant: the key is encrypted again only when a new one is given.
NeedsKeyOnlyNew(old, payload) == payload.secret # None

NeedsKey(old, payload) ==
  payload.secret # None \/ payload.provider # old.provider \/ payload.model # old.model

\* What the request writes to the key, by the row it has read: an encryption is
\* a write even of the same secret, a key left alone is not.
KeyWritten(old, payload, key) ==
  LET secret == IF payload.secret # None THEN payload.secret
                ELSE IF old.key = None THEN None ELSE old.key.secret
  IN IF payload.clear \/ secret = None THEN IF old.key = None THEN key ELSE None
     ELSE IF NeedsKey(old, payload) THEN Encrypted(secret, payload.provider, payload.model)
     ELSE key

\* Only the columns that differ from the row as it was read are written.
UpdateCommit(q) ==
  LET old == request[q].row
      payload == request[q].payload IN
  /\ request[q] # Open
  /\ row' = [provider |-> IF payload.provider = old.provider THEN row.provider ELSE payload.provider,
             model |-> IF payload.model = old.model THEN row.model ELSE payload.model,
             key |-> KeyWritten(old, payload, row.key)]
  /\ request' = [request EXCEPT ![q] = Open]
  /\ UNCHANGED <<updates, calls>>

-----------------------------------------------------------------------------
(* An attempt.                                                             *)

Fails ==
  /\ call.phase # "idle"
  /\ call' = NoCall
  /\ UNCHANGED <<configuration, attempts, server, results>>

\* ProviderRegistry.get: a generic provider needs a key, and a key must decrypt.
Resolvable ==
  /\ row.provider = "generic_http" => row.key # None
  /\ row.provider # "mock" => Decryptable(row)

\* One attempt at a time: two that overlap share the server, and what each knows of
\* its prompt is local to its call.
Resolve ==
  /\ call = NoCall /\ attempts < MaxAttempts /\ results = {}
  /\ attempts' = attempts + 1
  /\ call' = IF Resolvable THEN [NoCall EXCEPT !.phase = row.provider] ELSE NoCall
  /\ UNCHANGED <<configuration, server, results>>

Return(prompt) ==
  /\ results' = results \union {[attempt |-> attempts, prompt |-> prompt]}
  /\ call' = NoCall
  /\ UNCHANGED <<configuration, attempts, server>>

\* The mock answers itself, a generic provider to one request.
Answered == call.phase \in {"mock", "generic_http"} /\ Return(0)

BindingLeft == call.uploaded < References

\* ComfyUI: the references are uploaded under names of the step, over what an
\* earlier attempt left there.
Upload ==
  /\ call.phase = "comfyui" /\ BindingLeft
  /\ call' = [call EXCEPT !.uploaded = @ + 1]
  /\ UNCHANGED <<configuration, attempts, server, results>>

\* The prompt is queued; the answer with its id may be lost.
Post ==
  /\ call.phase = "comfyui" /\ ~BindingLeft
  /\ server' = [server EXCEPT ![attempts] = "running"]
  /\ \/ call' = [call EXCEPT !.phase = "polling", !.prompt = attempts]
     \/ call' = NoCall
  /\ UNCHANGED <<configuration, attempts, results>>

\* A prompt ends with pictures, or with none.
ServerEnds(n) ==
  /\ server[n] = "running"
  /\ \E outcome \in {"done", "empty"} : server' = [server EXCEPT ![n] = outcome]
  /\ UNCHANGED <<configuration, attempts, call, results>>

\* Mutant: any prompt of the history that has ended is taken.
FoundAny(n) == server[n] \in {"done", "empty"}

\* The history has an entry for the prompt.
Found(n) == n = call.prompt /\ server[n] \in {"done", "empty"}

\* Mutant: the loop has no end.
PollsLeftAlways == TRUE

PollsLeft == call.polls + 1 < MaxPolls

Poll ==
  /\ call.phase = "polling"
  /\ IF \E n \in Attempt : Found(n)
     THEN \E n \in Attempt : /\ Found(n)
            /\ call' = IF server[n] = "done" THEN [call EXCEPT !.phase = "viewing", !.prompt = n] ELSE NoCall
     ELSE call' = IF PollsLeft THEN [call EXCEPT !.polls = IF @ < MaxPolls THEN @ + 1 ELSE @] ELSE NoCall
  /\ UNCHANGED <<configuration, attempts, server, results>>

View == call.phase = "viewing" /\ Return(call.prompt)

Proceed == Answered \/ Upload \/ Post \/ Poll \/ View

Next ==
  \/ \E q \in Requests : UpdateCommit(q) \/ \E payload \in Payload : UpdateRead(q, payload)
  \/ Resolve \/ Proceed \/ Fails
  \/ \E n \in Attempt : ServerEnds(n)

\* Every request of a call has a time limit, so a call goes on; a server may hang.
Spec == Init /\ [][Next]_vars /\ WF_vars(Proceed)

-----------------------------------------------------------------------------
(* Properties.                                                             *)

\* Type correctness; an attempt posts a prompt of its own, and no two.
TypeOK ==
  /\ row \in Row /\ attempts \in 0..MaxAttempts /\ updates \in 0..MaxUpdates
  /\ call.uploaded \in 0..References /\ call.polls \in 0..MaxPolls
  /\ \A n \in Attempt : server[n] # "none" => n <= attempts
  /\ call.prompt # 0 => server[call.prompt] # "none"

\* The key of a configuration becomes unreadable only when two administrators
\* change it at once: by a commit of one who has read another row.
KeyLostOnlyByRace ==
  [][Decryptable(row) /\ ~Decryptable(row') =>
       \E q \in Requests : request[q].row \notin {None, row} /\ request'[q] = Open]_vars

\* A picture is from the prompt of its own attempt: the late answer to an attempt
\* that was given up is never taken for the answer to the next.
ResultsAreOwn ==
  \A r \in results : r.prompt # 0 => r.prompt = r.attempt /\ server[r.prompt] = "done"

\* An attempt ends, also when the server never does.
CallsEnd == call.phase # "idle" ~> call.phase = "idle"
=============================================================================
