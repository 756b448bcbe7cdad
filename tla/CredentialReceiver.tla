------------------------- MODULE CredentialReceiver -------------------------
(***************************************************************************)
(* The authenticated receiver of tools/assurance-credentials/service.py:   *)
(* a Store whose every operation is one BEGIN IMMEDIATE transaction, and   *)
(* the threaded HTTP handler in front of Store.send.                       *)
(*                                                                         *)
(* A bearer secret is a capability for the row it belongs to, so a request *)
(* names the session it authenticates as; a forged secret matches no row   *)
(* and is a session number that was never issued.                          *)
(***************************************************************************)
EXTENDS Naturals, Sequences, FiniteSets

CONSTANTS
    Credentials,  \* credential identifiers an administrator may issue
    Scopes,       \* (subject, tenant, resource) triples
    Actions,      \* proposed actions: records with a key, a scope and a body
    Clients,      \* connections that may carry one effect request each
    Policy,       \* the receiver's policy, fixed when its store is created
    MaxTime,      \* bound: the logical clock stops here
    MaxSessions,  \* bound: number of sessions ever created
    MaxLog        \* bound: administrators stop writing to a log this long

Policies == {"session_snapshot", "continuous"}
Keys == {a.key : a \in Actions}
Times == 0 .. MaxTime
NoSession == 0

ASSUME ReceiverAssumption ==
    /\ Policy \in Policies
    /\ MaxTime \in Nat
    /\ MaxSessions \in Nat
    /\ MaxLog \in Nat
    /\ Actions # {}
    /\ \A a \in Actions : a.scope \in Scopes

VARIABLES
    now,          \* state.now, the logical clock
    dropNext,     \* state.drop_next, the armed lost-response fault
    credentials,  \* table credentials
    sessions,     \* table sessions; "s<n>" is the n-th element
    effects,      \* table effects, a set of rows
    log,          \* table events: logins, revocations, cancellations, effects
    requests      \* one effect request per client connection

storeVars == <<now, dropNext, credentials, sessions, effects, log>>
receiverVars == <<now, dropNext, credentials, sessions, effects, log, requests>>

-----------------------------------------------------------------------------
CredentialRows ==
    [status : {"absent", "issued", "revoked"}, scope : Scopes, expires : Times]
SessionRows ==
    [credential : Credentials, scope : Scopes, expires : Nat, cancelled : BOOLEAN]
EffectRows == [action : Actions, credential : Credentials, session : Nat]
Events == [kind : {"session", "revoked", "cancelled", "effect"},
           credential : Credentials, session : Nat]

\* A request is free, then queued in a handler thread, then committed (the
\* transaction of Store.send is over), then answered or closed unanswered.
Stages == {"free", "arrived", "committed", "answered", "dropped"}
Requests == [stage : Stages, session : Nat, action : Actions,
             reply : {"none", "observed", "denied"}]

AbsentRow ==
    [status |-> "absent", scope |-> CHOOSE x \in Scopes : TRUE, expires |-> 0]
FreeRequest ==
    [stage |-> "free", session |-> NoSession,
     action |-> CHOOSE a \in Actions : TRUE, reply |-> "none"]

\* Types of the receiver's tables, of its log and of the requests in flight.
ReceiverTypeOK ==
    /\ now \in Times
    /\ dropNext \in BOOLEAN
    /\ credentials \in [Credentials -> CredentialRows]
    /\ sessions \in Seq(SessionRows)
    /\ effects \subseteq EffectRows
    /\ log \in Seq(Events)
    /\ requests \in [Clients -> Requests]

-----------------------------------------------------------------------------
CredentialActive(c) ==
    credentials[c].status = "issued" /\ now < credentials[c].expires

\* Mutant: cancellation is forgotten.
SessionUnexpired(s) == s \in DOMAIN sessions /\ now < sessions[s].expires

SessionActive(s) ==
    s \in DOMAIN sessions /\ ~sessions[s].cancelled /\ now < sessions[s].expires

\* Mutant: the continuous policy trusts the login, like the snapshot policy.
AuthorizedAtLogin(s, a) == SessionActive(s) /\ a.scope = sessions[s].scope

\* The checks of Store.send in its write transaction.
Authorized(s, a) ==
    /\ SessionActive(s)
    /\ a.scope = sessions[s].scope
    /\ Policy = "continuous" => CredentialActive(sessions[s].credential)

\* The key hashes the identity and the id of an action, not its body.
Delivered(a) == \E e \in effects : e.action.key = a.key
Conflicts(a) == \E e \in effects : e.action.key = a.key /\ e.action # a

Verdict(s, a) ==
    IF Authorized(s, a) /\ ~Conflicts(a) THEN "observed" ELSE "denied"

EffectRow(s, a) ==
    [action |-> a, credential |-> sessions[s].credential, session |-> s]
Event(kind, c, s) == [kind |-> kind, credential |-> c, session |-> s]

\* Mutant: the insert does not look for an earlier row.
RecordEffectBlindly(s, a) ==
    IF Verdict(s, a) = "observed"
    THEN /\ effects' = effects \cup {EffectRow(s, a)}
         /\ log' = Append(log, Event("effect", sessions[s].credential, s))
    ELSE UNCHANGED <<effects, log>>

RecordEffect(s, a) ==
    IF Verdict(s, a) = "observed" /\ ~Delivered(a)
    THEN /\ effects' = effects \cup {EffectRow(s, a)}
         /\ log' = Append(log, Event("effect", sessions[s].credential, s))
    ELSE UNCHANGED <<effects, log>>

-----------------------------------------------------------------------------
\* Administrator operations.

Issue(c, scope, expires) ==
    /\ credentials[c].status = "absent"
    /\ now < expires
    /\ credentials' = [credentials EXCEPT
            ![c] = [status |-> "issued", scope |-> scope, expires |-> expires]]
    /\ UNCHANGED <<now, dropNext, sessions, effects, log, requests>>

Revoke(c) ==
    /\ credentials[c].status # "absent"
    /\ credentials' = [credentials EXCEPT ![c].status = "revoked"]
    /\ log' = Append(log, Event("revoked", c, NoSession))

AdminRevoke(c) ==
    /\ Len(log) < MaxLog
    /\ Revoke(c)
    /\ UNCHANGED <<now, dropNext, sessions, effects, requests>>

Cancel(s) ==
    /\ Len(log) < MaxLog
    /\ sessions' = [sessions EXCEPT ![s].cancelled = TRUE]
    /\ log' = Append(log, Event("cancelled", sessions[s].credential, s))
    /\ UNCHANGED <<now, dropNext, credentials, effects, requests>>

Advance(t) ==
    /\ now <= t
    /\ now' = t
    /\ UNCHANGED <<dropNext, credentials, sessions, effects, log, requests>>

\* The fault switch of the administrator: the next observed reply is lost.
DropNext ==
    /\ dropNext' = TRUE
    /\ UNCHANGED <<now, credentials, sessions, effects, log, requests>>

\* Mutant: a login checks the expiry of the credential but not its status.
LoginUnchecked(c, ttl) ==
    /\ Len(sessions) < MaxSessions
    /\ credentials[c].status # "absent" /\ now < credentials[c].expires
    /\ sessions' = Append(sessions,
            [credential |-> c, scope |-> credentials[c].scope,
             expires |-> now + ttl, cancelled |-> FALSE])
    /\ log' = Append(log, Event("session", c, Len(sessions) + 1))
    /\ UNCHANGED <<now, dropNext, credentials, effects, requests>>

\* Holder of credential c logs in. The new session copies the credential's
\* scope and lives for ttl, which may exceed the credential's own life.
Login(c, ttl) ==
    /\ Len(sessions) < MaxSessions
    /\ CredentialActive(c)
    /\ sessions' = Append(sessions,
            [credential |-> c, scope |-> credentials[c].scope,
             expires |-> now + ttl, cancelled |-> FALSE])
    /\ log' = Append(log, Event("session", c, Len(sessions) + 1))
    /\ UNCHANGED <<now, dropNext, credentials, effects, requests>>

-----------------------------------------------------------------------------
\* The effect endpoint.

Submit(r, s, a) ==
    /\ requests[r].stage = "free"
    /\ requests' = [requests EXCEPT ![r] =
            [stage |-> "arrived", session |-> s, action |-> a, reply |-> "none"]]
    /\ UNCHANGED storeVars

\* The transaction of Store.send, run by the handler thread at any later time.
Commit(r) ==
    LET s == requests[r].session
        a == requests[r].action
    IN  /\ requests[r].stage = "arrived"
        /\ RecordEffect(s, a)
        /\ requests' = [requests EXCEPT ![r].stage = "committed",
                                        ![r].reply = Verdict(s, a)]
        /\ UNCHANGED <<now, dropNext, credentials, sessions>>

\* The handler consults the fault switch in a transaction of its own, after
\* an observed send only, and closes the connection when it was armed.
Answer(r) ==
    LET dropped == requests[r].reply = "observed" /\ dropNext
    IN  /\ requests[r].stage = "committed"
        /\ dropNext' = IF requests[r].reply = "observed" THEN FALSE ELSE dropNext
        /\ requests' = [requests EXCEPT
                ![r].stage = IF dropped THEN "dropped" ELSE "answered"]
        /\ UNCHANGED <<now, credentials, sessions, effects, log>>

\* The connection fails, or a database error aborts the handler, before the
\* transaction (the request is lost) or after it (only the reply is).
Lose(r) ==
    /\ requests[r].stage \in {"arrived", "committed"}
    /\ requests' = [requests EXCEPT ![r].stage = "dropped"]
    /\ UNCHANGED storeVars

Close(r) ==
    /\ requests[r].stage \in {"answered", "dropped"}
    /\ requests' = [requests EXCEPT ![r] = FreeRequest]
    /\ UNCHANGED storeVars

-----------------------------------------------------------------------------
\* Properties.

\* An action key is delivered at most once, and with one body, whatever the
\* sessions, retries and reordered handler threads that carried it: the
\* idempotency lookup and the insert of Store.send share a transaction.
OneEffectPerKey ==
    \A e, f \in effects : e.action.key = f.action.key => e = f

\* Under the continuous policy no effect of a credential commits after a
\* revocation of that credential was acknowledged, not even through a session
\* opened earlier or a request already queued in a handler thread.
RevocationFinal ==
    Policy = "continuous" =>
        \A i, j \in DOMAIN log :
            /\ log[i].kind = "revoked"
            /\ log[j].kind = "effect"
            /\ log[i].credential = log[j].credential
            => j < i

\* Under either policy every effect was made by a session that was logged in
\* before it and before every revocation of its credential: what the snapshot
\* policy leaves open after a revocation is bounded by the sessions of then.
LoginPrecedesRevocation ==
    \A j \in DOMAIN log : log[j].kind = "effect" =>
        \E k \in 1 .. j - 1 :
            /\ log[k] = Event("session", log[j].credential, log[j].session)
            /\ \A i \in DOMAIN log : log[i].kind = "revoked"
                    /\ log[i].credential = log[j].credential => k < i

\* Cancelling a session ends that session's effects under either policy.
CancelFinal ==
    \A i, j \in DOMAIN log :
        log[i].kind = "cancelled" /\ log[j] = [log[i] EXCEPT !.kind = "effect"]
        => j < i

\* A caller is told "observed" only of an effect that is on record with that
\* very body, also when the reply is for a duplicate of an earlier request.
ObservedIsRecorded ==
    \A r \in Clients : requests[r].reply = "observed" =>
        \E e \in effects : e.action = requests[r].action

\* Both sides of idempotency (Store.send): one effect of a key and one answer.
EffectsAreRecorded == ReceiverTypeOK /\ OneEffectPerKey /\ ObservedIsRecorded

-----------------------------------------------------------------------------
ReceiverInit ==
    /\ now = 0
    /\ dropNext = FALSE
    /\ credentials = [c \in Credentials |-> AbsentRow]
    /\ sessions = <<>>
    /\ effects = {}
    /\ log = <<>>
    /\ requests = [r \in Clients |-> FreeRequest]

AdminNext ==
    \/ \E c \in Credentials, scope \in Scopes, t \in Times : Issue(c, scope, t)
    \/ \E c \in Credentials : AdminRevoke(c)
    \/ \E s \in DOMAIN sessions : Cancel(s)
    \/ \E t \in Times : Advance(t)
    \/ DropNext

HandlerNext == \E r \in Clients : Commit(r) \/ Answer(r) \/ Lose(r)

ReceiverNext ==
    \/ AdminNext
    \/ \E c \in Credentials, ttl \in 1 .. MaxTime : Login(c, ttl)
    \/ \E r \in Clients, s \in DOMAIN sessions \cup {NoSession}, a \in Actions :
            Submit(r, s, a)
    \/ HandlerNext
    \/ \E r \in Clients : Close(r)

ReceiverSpec == ReceiverInit /\ [][ReceiverNext]_receiverVars

=============================================================================
