-------------------------- MODULE SharedCredential --------------------------
(***************************************************************************)
(* One account's OAuth credential, shared by every process of the host     *)
(* (auth/shared-oauth.ts): a file replaced by atomic renames, the lock     *)
(* directory beside it (auth/directory-lock.ts), and a provider that       *)
(* rotates: a refresh token works once.                                    *)
(*                                                                         *)
(* A grant is an access token with its refresh token, numbered as issued.  *)
(* What an operation does under the lock before it asks the provider is    *)
(* synchronous and one action. A holder's heartbeat keeps the lock fresh,  *)
(* so a lock is stale (30 s) only when the process that made it is gone.   *)
(***************************************************************************)
EXTENDS Naturals, FiniteSets

CONSTANTS
  Processes,  \* processes that use the credential
  MaxGrants   \* bound: grants the provider issues

Grants == 0..MaxGrants
Operations == {"credential", "refreshRejected", "refresh", "reject", "set", "remove", "import", "discard"}

ASSUME CredentialAssumption == MaxGrants \in Nat

VARIABLES
  lock,      \* does the lock directory exist?
  file,      \* the credential in the file
  process,   \* the operation each process is in
  served,    \* the access token each process was given last
  provider,  \* the grants issued, those that can be refreshed, access tokens refused
  rejected   \* the access tokens that were reported while the file held them

vars == <<lock, file, process, served, provider, rejected>>

\* "age" is how the expiry stands against the clock and the least lifetime a
\* caller asks for; "due" is whether retryAt has passed.
Credential ==
  [present : BOOLEAN, grant : Grants, age : {"live", "expiring", "expired"},
   state : {"good", "refresh-required", "login-required"}, due : BOOLEAN]

Fresh(g) == [present |-> TRUE, grant |-> g, age |-> "live", state |-> "good", due |-> FALSE]

Idle == [at |-> "idle", operation |-> "credential", token |-> 0, current |-> Fresh(0),
         answer |-> "none", grant |-> 0]

Operation ==
  [at : {"idle", "waiting", "stale", "locked", "provider", "answered", "effect", "dead"},
   operation : Operations, token : Grants, current : Credential,
   answer : {"none", "refreshed", "refused", "failed"}, grant : Grants]

Init ==
  /\ lock = FALSE
  /\ file = Fresh(0)
  /\ process = [p \in Processes |-> Idle]
  /\ served = [p \in Processes |-> 0]
  /\ provider = [issued |-> 0, usable |-> {0}, refused |-> {}]
  /\ rejected = {}

At(p, at) == process[p].at = at

Doing(p, operations) == At(p, "locked") /\ process[p].operation \in operations

-----------------------------------------------------------------------------
(* The lock.                                                               *)

Reports == {"refreshRejected", "reject"}

\* Callers report the access token they were given, when it was refused.
Begin(p, operation) ==
  /\ At(p, "idle")
  /\ operation \in Reports => served[p] \in provider.refused
  /\ process' = [process EXCEPT ![p] =
       [Idle EXCEPT !.at = "waiting", !.operation = operation,
                    !.token = IF operation \in Reports THEN served[p] ELSE 0]]
  /\ UNCHANGED <<lock, file, served, provider, rejected>>

Holds(p) == process[p].at \in {"locked", "provider", "answered", "effect"}

\* No heartbeat has touched the directory for thirty seconds.
StaleAnyway == lock
Stale == lock /\ \A p \in Processes : ~Holds(p)

TakeLock(p) ==
  /\ At(p, "waiting") /\ ~lock
  /\ lock' = TRUE
  /\ process' = [process EXCEPT ![p].at = "locked"]
  /\ UNCHANGED <<file, served, provider, rejected>>

FindStale(p) ==
  /\ At(p, "waiting") /\ Stale
  /\ process' = [process EXCEPT ![p].at = "stale"]
  /\ UNCHANGED <<lock, file, served, provider, rejected>>

\* Whatever directory is there by now is removed, and mkdir is tried again.
RemoveStale(p) ==
  /\ At(p, "stale")
  /\ lock' = FALSE
  /\ process' = [process EXCEPT ![p].at = "waiting"]
  /\ UNCHANGED <<file, served, provider, rejected>>

\* The deadline of the wait, or the caller's signal.
GiveUp(p) ==
  /\ At(p, "waiting") /\ lock
  /\ process' = [process EXCEPT ![p] = Idle]
  /\ UNCHANGED <<lock, file, served, provider, rejected>>

\* The finally block: the directory is removed, whoever made it.
Release(p) ==
  /\ lock' = FALSE
  /\ process' = [process EXCEPT ![p] = Idle]

Serve(p, g) == served' = [served EXCEPT ![p] = g]

-----------------------------------------------------------------------------
(* What an operation does once it has the lock.                            *)

\* Login is needed, or the next attempt is not due yet.
Unavailable == ~file.present \/ file.state = "login-required"
               \/ (file.state = "refresh-required" /\ ~file.due)

\* The credential stands, or somebody has replaced the refused one.
Satisfies(operation, token) ==
  /\ file.state = "good"
  /\ IF operation = "credential" THEN file.age = "live" ELSE file.grant # token

\* The wait for the lock outlived the caller's signal.
AbortUse(p) ==
  /\ Doing(p, {"credential", "refreshRejected"}) /\ ~Unavailable
  /\ ~Satisfies(process[p].operation, process[p].token)
  /\ Release(p)
  /\ UNCHANGED <<file, served, provider, rejected>>

RefusedUse(p) ==
  /\ Doing(p, {"credential", "refreshRejected"}) /\ Unavailable
  /\ Release(p)
  /\ UNCHANGED <<file, served, provider, rejected>>

UseCurrent(p) ==
  /\ Doing(p, {"credential", "refreshRejected"}) /\ ~Unavailable
  /\ Satisfies(process[p].operation, process[p].token)
  /\ Serve(p, file.grant)
  /\ Release(p)
  /\ UNCHANGED <<file, provider, rejected>>

HeldAnyway(p) == file.present

\* The file still holds the token the caller reports.
Held(p) == file.present /\ file.grant = process[p].token

Unmarked(knownBad) == file

\* refreshLocked, before the network call: a token known to be bad is marked.
Marked(knownBad) ==
  IF knownBad \/ file.age = "expired"
  THEN [file EXCEPT !.state = "refresh-required", !.due = FALSE]
  ELSE file

Clean == [file EXCEPT !.state = "good", !.due = FALSE]

StartRefresh(p, knownBad) ==
  /\ file' = Marked(knownBad)
  /\ process' = [process EXCEPT ![p].at = "provider", ![p].current = Clean]
  /\ UNCHANGED <<lock, served, provider>>

RefreshUse(p) ==
  LET reported == process[p].operation = "refreshRejected"
  IN /\ Doing(p, {"credential", "refreshRejected"}) /\ ~Unavailable
     /\ ~Satisfies(process[p].operation, process[p].token)
     /\ StartRefresh(p, reported \/ file.state # "good")
     /\ rejected' = IF reported /\ Held(p)
                    THEN rejected \cup {process[p].token} ELSE rejected

\* The operator's refresh is tried whatever the state says.
RefreshAnyway(p) ==
  /\ Doing(p, {"refresh"}) /\ file.present
  /\ StartRefresh(p, file.state # "good")
  /\ UNCHANGED rejected

RefreshNothing(p) ==
  /\ Doing(p, {"refresh"}) /\ ~file.present
  /\ Release(p)
  /\ UNCHANGED <<file, served, provider, rejected>>

Quarantined(credential) == [credential EXCEPT !.state = "login-required", !.due = FALSE]

Reject(p) ==
  /\ Doing(p, {"reject"})
  /\ file' = IF Held(p) THEN Quarantined(file) ELSE file
  /\ rejected' = IF Held(p) THEN rejected \cup {process[p].token} ELSE rejected
  /\ Release(p)
  /\ UNCHANGED <<served, provider>>

\* A new login at the provider, which leaves earlier grants as they are.
NewGrant ==
  /\ provider.issued < MaxGrants
  /\ provider' = [provider EXCEPT !.issued = @ + 1, !.usable = @ \cup {provider.issued + 1}]

Set(p) ==
  /\ Doing(p, {"set"})
  /\ NewGrant
  /\ file' = Fresh(provider'.issued)
  /\ Release(p)
  /\ UNCHANGED <<served, rejected>>

\* transactSharedCredential: the file is written, then an effect is awaited; if
\* it fails the file gets back what it held before.
Transact(p, written) ==
  /\ file' = written
  /\ process' = [process EXCEPT ![p].at = "effect", ![p].current = file]
  /\ UNCHANGED <<lock, served, rejected>>

Import(p) ==
  /\ Doing(p, {"import"})
  /\ NewGrant
  /\ Transact(p, Fresh(provider'.issued))

Discard(p) ==
  /\ Doing(p, {"discard"})
  /\ Transact(p, [file EXCEPT !.present = FALSE])
  /\ UNCHANGED provider

EffectEnds(p) ==
  /\ At(p, "effect")
  /\ file' \in {file, process[p].current}
  /\ Release(p)
  /\ UNCHANGED <<served, provider, rejected>>

Remove(p) ==
  /\ Doing(p, {"remove"})
  /\ file' = [file EXCEPT !.present = FALSE]
  /\ Release(p)
  /\ UNCHANGED <<served, provider, rejected>>

-----------------------------------------------------------------------------
(* The provider, and what the operation does with its answer.              *)

\* The refresh token is spent and a grant issued; the answer may be lost, or be
\* one that is refused here (another identity, or an invalid credential).
Rotate(p) ==
  /\ At(p, "provider") /\ process[p].current.grant \in provider.usable
  /\ provider.issued < MaxGrants
  /\ provider' = [provider EXCEPT !.issued = @ + 1,
       !.usable = (@ \ {process[p].current.grant}) \cup {provider.issued + 1}]
  /\ \E answer \in {"refreshed", "refused", "failed"} :
       process' = [process EXCEPT ![p].at = "answered", ![p].answer = answer,
                                  ![p].grant = provider.issued + 1]
  /\ UNCHANGED <<lock, file, served, rejected>>

\* A spent refresh token is refused for good.
RefuseSpent(p) ==
  /\ At(p, "provider") /\ process[p].current.grant \notin provider.usable
  /\ process' = [process EXCEPT ![p].at = "answered", ![p].answer = "refused"]
  /\ UNCHANGED <<lock, file, served, provider, rejected>>

\* The request is not executed: transport, deadline or an error of the provider.
FailRefresh(p) ==
  /\ At(p, "provider")
  /\ process' = [process EXCEPT ![p].at = "answered", ![p].answer = "failed"]
  /\ UNCHANGED <<lock, file, served, provider, rejected>>

Refreshed(p) ==
  /\ At(p, "answered") /\ process[p].answer = "refreshed"
  /\ file' = Fresh(process[p].grant)
  /\ Serve(p, process[p].grant)
  /\ Release(p)
  /\ UNCHANGED <<provider, rejected>>

RefreshRefused(p) ==
  /\ At(p, "answered") /\ process[p].answer = "refused"
  /\ file' = Quarantined(process[p].current)
  /\ Release(p)
  /\ UNCHANGED <<served, provider, rejected>>

RefreshFailed(p) ==
  /\ At(p, "answered") /\ process[p].answer = "failed"
  /\ Release(p)
  /\ UNCHANGED <<file, served, provider, rejected>>

\* The provider stops honouring an access token that is in use.
RefuseAccess(g) ==
  /\ g \in {served[p] : p \in Processes} \ provider.refused
  /\ provider' = [provider EXCEPT !.refused = @ \cup {g}]
  /\ UNCHANGED <<lock, file, process, served, rejected>>

\* Time passes: the access token in the file ages, and a retry falls due. A
\* credential that an effect may put back ages once it is back.
Age ==
  /\ file.age # "expired"
  /\ file' = [file EXCEPT !.age = IF @ = "live" THEN "expiring" ELSE "expired"]
  /\ UNCHANGED <<lock, process, served, provider, rejected>>

FallDue ==
  /\ file.state = "refresh-required" /\ ~file.due
  /\ file' = [file EXCEPT !.due = TRUE]
  /\ UNCHANGED <<lock, process, served, provider, rejected>>

\* A process dies; the lock it held stays behind. One started in its place
\* is another process.
Die(p) ==
  /\ ~At(p, "idle") /\ ~At(p, "dead")
  /\ process' = [process EXCEPT ![p] = [Idle EXCEPT !.at = "dead"]]
  /\ UNCHANGED <<lock, file, served, provider, rejected>>

-----------------------------------------------------------------------------
Step(p) ==
  \/ TakeLock(p) \/ FindStale(p) \/ RemoveStale(p) \/ GiveUp(p)
  \/ RefusedUse(p) \/ AbortUse(p) \/ UseCurrent(p) \/ RefreshUse(p) \/ RefreshAnyway(p) \/ RefreshNothing(p)
  \/ Reject(p) \/ Set(p) \/ Remove(p) \/ Import(p) \/ Discard(p) \/ EffectEnds(p)
  \/ Rotate(p) \/ RefuseSpent(p) \/ FailRefresh(p)
  \/ Refreshed(p) \/ RefreshRefused(p) \/ RefreshFailed(p) \/ Die(p)

Next ==
  \/ \E p \in Processes : Step(p) \/ \E operation \in Operations : Begin(p, operation)
  \/ \E g \in Grants : RefuseAccess(g)
  \/ Age \/ FallDue

Spec == Init /\ [][Next]_vars

-----------------------------------------------------------------------------
(* Properties.                                                             *)

\* The file, the operations and the grants have the shapes the code gives
\* them: no process was given a token that was not issued, and only a grant
\* that waits for its refresh has a time to retry it.
TypeOK ==
  /\ lock \in BOOLEAN
  /\ file \in Credential
  /\ process \in [Processes -> Operation]
  /\ served \in [Processes -> 0..provider.issued]
  /\ provider \in [issued : Grants, usable : SUBSET Grants, refused : SUBSET Grants]
  /\ rejected \subseteq provider.refused
  /\ file.due => file.state = "refresh-required"

\* "Persist before the network call: process death must not make a known-bad
\* token admissible" (shared-oauth.ts:196): a token that was reported while
\* the file held it is never admissible again, through crashes, lost answers,
\* retries and failed logins.
RejectedIsMarked == file.present /\ file.state = "good" => file.grant \notin rejected

\* "Otherwise concurrent 401s from one account's sessions would each spend a
\* rotation of the refresh token" (shared-oauth.ts:279): one refresh at a time.
OneRefresh ==
  \A p, q \in Processes :
    process[p].at \in {"provider", "answered"} /\ process[q].at \in {"provider", "answered"}
      => p = q

\* An account asks its person to log in only when its grant is spent or its
\* access token was refused.
LoginIsNeeded ==
  file.state = "login-required" =>
    file.grant \notin provider.usable \/ file.grant \in rejected
=============================================================================
