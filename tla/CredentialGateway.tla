-------------------------- MODULE CredentialGateway --------------------------
(***************************************************************************)
(* The host-owned gateways of tools/assurance-credentials/gateway.py in    *)
(* front of the receiver.  A gateway approves one exact action and is      *)
(* bound to one session; its intent table therefore holds one row at most, *)
(* and its connection (the client of the same name) carries one request.   *)
(* Dispatching and revoking processes share the gateway's database and an  *)
(* advisory file lock, which a process that dies releases.                 *)
(***************************************************************************)
EXTENDS CredentialReceiver

CONSTANTS
    Logins,       \* credentials whose logins gave the sessions 1, 2, ...
    Approved,     \* the action each gateway approves
    Bound,        \* the session each gateway is bound to, or NoSession
    Workers,      \* processes that call Gateway.dispatch
    Revokers,     \* processes that call Gateway.revoke
    MaxCalls      \* bound: calls made in a behaviour

Gateways == Clients

ASSUME GatewayAssumption ==
    /\ Gateways # {}
    /\ Logins \in Seq(Credentials)
    /\ Approved \in [Gateways -> Actions]
    /\ Bound \in [Gateways -> 0 .. Len(Logins)]
    /\ MaxCalls \in Nat
    /\ \A g, h \in Gateways : g # h /\ Bound[g] # NoSession =>
            <<Approved[g], Bound[g]>> # <<Approved[h], Bound[h]>>

VARIABLES
    stopped,      \* state.stopped of each gateway
    revocation,   \* state.revocation
    ackSeq,       \* state.ack_seq; 0 is NULL
    intent,       \* status of the intent row, "none" while there is no row
    workers,      \* the dispatching processes
    revokers,     \* the revoking processes
    lateRevokes,  \* revocation requests whose caller gave up or died
    calls         \* number of calls made so far

gatewayRows == <<stopped, revocation, ackSeq, intent>>
gatewayVars == <<stopped, revocation, ackSeq, intent,
                 workers, revokers, lateRevokes, calls>>
vars == <<now, dropNext, credentials, sessions, effects, log, requests,
          stopped, revocation, ackSeq, intent,
          workers, revokers, lateRevokes, calls>>

-----------------------------------------------------------------------------
\* What a process does next.  "admitting" to "recording" hold the gateway's
\* lock; "stopping" waits for it, the stop being durable already.
WorkerPhases == {"idle", "admitting", "sending", "waiting", "recording"}
RevokerPhases == {"idle", "stopping", "calling", "acked", "recording"}

WorkerStates == [phase : WorkerPhases, gateway : Gateways, action : Actions,
                 outcome : {"unknown", "observed", "denied"}]
RevokerStates == [phase : RevokerPhases, gateway : Gateways, seq : Nat]

IdleWorker == [phase |-> "idle", gateway |-> CHOOSE g \in Gateways : TRUE,
               action |-> CHOOSE a \in Actions : TRUE, outcome |-> "unknown"]
IdleRevoker ==
    [phase |-> "idle", gateway |-> CHOOSE g \in Gateways : TRUE, seq |-> 0]

\* Types of the gateway tables and of the processes around them.
TypeOK ==
    /\ ReceiverTypeOK
    /\ stopped \in [Gateways -> BOOLEAN]
    /\ revocation \in [Gateways -> {"not_requested", "unknown", "acknowledged"}]
    /\ ackSeq \in [Gateways -> Nat]
    /\ intent \in [Gateways -> {"none", "unknown", "observed", "denied"}]
    /\ workers \in [Workers -> WorkerStates]
    /\ revokers \in [Revokers -> RevokerStates]
    /\ lateRevokes \subseteq Credentials
    /\ calls \in 0 .. MaxCalls

Dispatching(w, g) == workers[w].gateway = g /\ workers[w].phase # "idle"
Revoking(v, g) ==
    revokers[v].gateway = g /\ revokers[v].phase \notin {"idle", "stopping"}

\* The flock of Gateway.admission is free.
LockFree(g) ==
    /\ \A w \in Workers : ~Dispatching(w, g)
    /\ \A v \in Revokers : ~Revoking(v, g)

BoundCredential(g) == sessions[Bound[g]].credential

-----------------------------------------------------------------------------
\* Gateway.dispatch.

BeginDispatch(w, g, a) ==
    /\ workers[w].phase = "idle"
    /\ calls < MaxCalls
    /\ LockFree(g)
    /\ calls' = calls + 1
    /\ workers' = [workers EXCEPT ![w] =
            [phase |-> "admitting", gateway |-> g, action |-> a,
             outcome |-> "unknown"]]
    /\ UNCHANGED <<receiverVars, gatewayRows, revokers, lateRevokes>>

\* Mutant: an approved proposal is admitted after the local stop.
AdmissibleWhenStopped(g, a) == Bound[g] # NoSession /\ a = Approved[g]

Admissible(g, a) == Bound[g] # NoSession /\ a = Approved[g] /\ ~stopped[g]

\* First transaction: blocked, a cached outcome, or a durable intent.
Admit(w) ==
    LET g == workers[w].gateway
        fresh == Admissible(g, workers[w].action) /\ intent[g] = "none"
    IN  /\ workers[w].phase = "admitting"
        /\ intent' = IF fresh THEN [intent EXCEPT ![g] = "unknown"] ELSE intent
        /\ workers' = [workers EXCEPT ![w] =
                IF fresh THEN [@ EXCEPT !.phase = "sending"] ELSE IdleWorker]
        /\ UNCHANGED <<receiverVars, stopped, revocation, ackSeq,
                       revokers, lateRevokes, calls>>

Transmit(w) ==
    LET g == workers[w].gateway
    IN  /\ workers[w].phase = "sending"
        /\ Submit(g, Bound[g], workers[w].action)
        /\ workers' = [workers EXCEPT ![w].phase = "waiting"]
        /\ UNCHANGED <<gatewayRows, revokers, lateRevokes, calls>>

\* The reply, or the end of a connection that was closed without one.
TakeReply(w) ==
    LET g == workers[w].gateway
        q == requests[g]
    IN  /\ workers[w].phase = "waiting"
        /\ Close(g)
        /\ workers' = [workers EXCEPT
                ![w].phase = "recording",
                ![w].outcome = IF q.stage = "answered" THEN q.reply ELSE "unknown"]
        /\ UNCHANGED <<gatewayRows, revokers, lateRevokes, calls>>

\* Mutant: a timeout is recorded as a denial.
GiveUpAsDenied(w) ==
    /\ workers[w].phase = "waiting"
    /\ workers' = [workers EXCEPT
            ![w].phase = "recording", ![w].outcome = "denied"]
    /\ UNCHANGED <<receiverVars, gatewayRows, revokers, lateRevokes, calls>>

\* The client's timeout; the request it leaves behind may still commit.
GiveUp(w) ==
    /\ workers[w].phase = "waiting"
    /\ workers' = [workers EXCEPT
            ![w].phase = "recording", ![w].outcome = "unknown"]
    /\ UNCHANGED <<receiverVars, gatewayRows, revokers, lateRevokes, calls>>

\* Second transaction; the lock is released.
Record(w) ==
    /\ workers[w].phase = "recording"
    /\ intent' = [intent EXCEPT ![workers[w].gateway] = workers[w].outcome]
    /\ workers' = [workers EXCEPT ![w] = IdleWorker]
    /\ UNCHANGED <<receiverVars, stopped, revocation, ackSeq,
                   revokers, lateRevokes, calls>>

CrashWorker(w) ==
    /\ workers[w].phase # "idle"
    /\ workers' = [workers EXCEPT ![w] = IdleWorker]
    /\ UNCHANGED <<receiverVars, gatewayRows, revokers, lateRevokes, calls>>

-----------------------------------------------------------------------------
\* Gateway.revoke.

\* The local stop, in a transaction that does not wait for the lock.
StopLocally(v, g) ==
    /\ revokers[v].phase = "idle"
    /\ calls < MaxCalls
    /\ calls' = calls + 1
    /\ stopped' = [stopped EXCEPT ![g] = TRUE]
    /\ revocation' = [revocation EXCEPT ![g] = "unknown"]
    /\ ackSeq' = [ackSeq EXCEPT ![g] = 0]
    /\ revokers' = [revokers EXCEPT ![v] =
            [phase |-> "stopping", gateway |-> g, seq |-> 0]]
    /\ UNCHANGED <<receiverVars, intent, workers, lateRevokes>>

\* The lock is taken; a gateway bound to a session calls the receiver.
BeginRemoteRevoke(v) ==
    LET g == revokers[v].gateway
    IN  /\ revokers[v].phase = "stopping"
        /\ LockFree(g)
        /\ revokers' = [revokers EXCEPT ![v].phase =
                IF Bound[g] = NoSession THEN "recording" ELSE "calling"]
        /\ UNCHANGED <<receiverVars, gatewayRows, workers, lateRevokes, calls>>

\* The receiver commits the revocation and answers with its position.
RemoteRevoke(v) ==
    /\ revokers[v].phase = "calling"
    /\ Revoke(BoundCredential(revokers[v].gateway))
    /\ revokers' = [revokers EXCEPT
            ![v].phase = "acked", ![v].seq = Len(log) + 1]
    /\ UNCHANGED <<now, dropNext, sessions, effects, requests,
                   gatewayRows, workers, lateRevokes, calls>>

TakeAck(v) ==
    /\ revokers[v].phase = "acked"
    /\ revokers' = [revokers EXCEPT ![v].phase = "recording"]
    /\ UNCHANGED <<receiverVars, gatewayRows, workers, lateRevokes, calls>>

LoseAck(v) ==
    /\ revokers[v].phase = "acked"
    /\ revokers' = [revokers EXCEPT ![v].phase = "recording", ![v].seq = 0]
    /\ UNCHANGED <<receiverVars, gatewayRows, workers, lateRevokes, calls>>

\* The caller of a request that has not reached the store gives up on it or
\* dies; the request is lost or stays queued at the receiver.
Abandon(v) ==
    /\ \/ /\ revokers[v].phase = "calling"
          /\ lateRevokes' = lateRevokes \cup {BoundCredential(revokers[v].gateway)}
       \/ UNCHANGED lateRevokes
    /\ UNCHANGED <<receiverVars, gatewayRows, workers, calls>>

RevokeTimeout(v) ==
    /\ revokers[v].phase = "calling"
    /\ revokers' = [revokers EXCEPT ![v].phase = "recording"]
    /\ Abandon(v)

CrashRevoker(v) ==
    /\ revokers[v].phase # "idle"
    /\ revokers' = [revokers EXCEPT ![v] = IdleRevoker]
    /\ Abandon(v)

LateRevoke(c) ==
    /\ c \in lateRevokes
    /\ Revoke(c)
    /\ lateRevokes' = lateRevokes \ {c}
    /\ UNCHANGED <<now, dropNext, sessions, effects, requests,
                   gatewayRows, workers, revokers, calls>>

\* Mutant: having made the call counts as an acknowledgment.
RecordRevocationBlindly(v) ==
    LET g == revokers[v].gateway
    IN  /\ revokers[v].phase = "recording"
        /\ revocation' = [revocation EXCEPT ![g] = "acknowledged"]
        /\ ackSeq' = [ackSeq EXCEPT ![g] = revokers[v].seq]
        /\ revokers' = [revokers EXCEPT ![v] = IdleRevoker]
        /\ UNCHANGED <<receiverVars, stopped, intent, workers, lateRevokes, calls>>

\* Only a correlated reply is recorded as an acknowledgment.
RecordRevocation(v) ==
    LET g == revokers[v].gateway
        seq == revokers[v].seq
    IN  /\ revokers[v].phase = "recording"
        /\ revocation' = [revocation EXCEPT ![g] =
                IF seq > 0 THEN "acknowledged" ELSE "unknown"]
        /\ ackSeq' = [ackSeq EXCEPT ![g] = seq]
        /\ revokers' = [revokers EXCEPT ![v] = IdleRevoker]
        /\ UNCHANGED <<receiverVars, stopped, intent, workers, lateRevokes, calls>>

-----------------------------------------------------------------------------
\* Gateways are created after the logins that gave their sessions.
Init ==
    /\ now = 0
    /\ dropNext = FALSE
    /\ credentials \in [Credentials -> {AbsentRow} \cup
            {row \in CredentialRows : row.status = "issued" /\ row.expires > 0}]
    /\ \A c \in Credentials : credentials[c] # AbsentRow <=>
            \E i \in DOMAIN Logins : Logins[i] = c
    /\ \E ttl \in [DOMAIN Logins -> 1 .. MaxTime] :
            sessions = [i \in DOMAIN Logins |->
                [credential |-> Logins[i], scope |-> credentials[Logins[i]].scope,
                 expires |-> ttl[i], cancelled |-> FALSE]]
    /\ effects = {}
    /\ log = [i \in DOMAIN Logins |-> Event("session", Logins[i], i)]
    /\ requests = [r \in Clients |-> FreeRequest]
    /\ stopped = [g \in Gateways |-> FALSE]
    /\ revocation = [g \in Gateways |-> "not_requested"]
    /\ ackSeq = [g \in Gateways |-> 0]
    /\ intent = [g \in Gateways |-> "none"]
    /\ workers = [w \in Workers |-> IdleWorker]
    /\ revokers = [v \in Revokers |-> IdleRevoker]
    /\ lateRevokes = {}
    /\ calls = 0

WorkerNext(w) ==
    \/ \E g \in Gateways, a \in Actions : BeginDispatch(w, g, a)
    \/ Admit(w)
    \/ Transmit(w)
    \/ TakeReply(w)
    \/ GiveUp(w)
    \/ Record(w)
    \/ CrashWorker(w)

RevokerNext(v) ==
    \/ \E g \in Gateways : StopLocally(v, g)
    \/ BeginRemoteRevoke(v)
    \/ RemoteRevoke(v)
    \/ TakeAck(v)
    \/ LoseAck(v)
    \/ RevokeTimeout(v)
    \/ RecordRevocation(v)
    \/ CrashRevoker(v)

\* The receiver moves on its own: administrators, handler threads and
\* revocations nobody waits for.  Credentials issued and sessions opened later
\* serve gateways of their own.
EnvironmentNext ==
    \/ AdminNext /\ UNCHANGED gatewayVars
    \/ HandlerNext /\ UNCHANGED gatewayVars
    \/ \E c \in Credentials : LateRevoke(c)

Next ==
    \/ \E w \in Workers : WorkerNext(w)
    \/ \E v \in Revokers : RevokerNext(v)
    \/ EnvironmentNext

Spec == Init /\ [][Next]_vars

-----------------------------------------------------------------------------
\* Properties.

\* Under the continuous policy an acknowledgment on record at a gateway is a
\* bound: its sequence number is a revocation of the bound credential, and no
\* effect of that credential follows it, not of any other gateway's either.
\* Lost replies, late requests, crashes and repeated revocations do not matter.
AckBoundsEffects ==
    \A g \in Gateways : revocation[g] = "acknowledged" =>
        /\ ackSeq[g] \in DOMAIN log
        /\ log[ackSeq[g]] = Event("revoked", BoundCredential(g), NoSession)
        /\ Policy = "continuous" =>
            \A j \in DOMAIN log : log[j].kind = "effect"
                /\ log[j].credential = BoundCredential(g) => j < ackSeq[g]

\* An effect is always covered by a durable intent of the gateway that is
\* bound to its session, and is that gateway's approved action: a crash can
\* not leave an effect the gateway would dispatch again.
IntentPrecedesEffect ==
    \A e \in effects : \E g \in Gateways :
        /\ e.session = Bound[g]
        /\ e.action = Approved[g]
        /\ intent[g] # "none"

\* The recorded outcome never misreports: "observed" means delivered and
\* "denied" means this gateway has not delivered, then or later.
OutcomeIsHonest ==
    \A g \in Gateways :
        /\ intent[g] = "observed" => \E e \in effects : e.action = Approved[g]
        /\ intent[g] = "denied" =>
            ~\E e \in effects : e.action = Approved[g] /\ e.session = Bound[g]

\* An acknowledged gateway has drained: nobody is past admission with it.
\* Under the snapshot policy this is all that protects the receiver, and only
\* a request whose caller timed out or died may still commit.
AcknowledgedIsDrained ==
    \A g \in Gateways : revocation[g] = "acknowledged" =>
        \A w \in Workers : workers[w].gateway = g =>
            workers[w].phase \notin {"sending", "waiting", "recording"}

\* The local stop is durable before any remote revocation on behalf of a
\* gateway leaves, whoever dies in between, and is never taken back.
StopPrecedesRevocation ==
    /\ \A v \in Revokers : revokers[v].phase # "idle" => stopped[revokers[v].gateway]
    /\ \A c \in lateRevokes : \E g \in Gateways :
            stopped[g] /\ Bound[g] # NoSession /\ BoundCredential(g) = c
    /\ \A g \in Gateways : revocation[g] # "not_requested" => stopped[g]

\* What the three files of a gateway say of the world, after any crash between
\* two of them: an effect was intended, an outcome is true, a revocation comes
\* after the stop and an acknowledgment after the last dispatch.
RecordsAreHonest ==
    /\ IntentPrecedesEffect
    /\ OutcomeIsHonest
    /\ StopPrecedesRevocation
    /\ AcknowledgedIsDrained

\* Gateway, wire and receiver together implement one-shot delivery: a late
\* commit is a delivery of an outcome that is still unknown, and everything
\* else a crash, a timeout or a second process does is a stutter.
OneShot == INSTANCE OneShotDelivery WITH
    live <- [g \in Gateways |-> ~stopped[g]],
    outcome <- intent,
    delivered <- {e.action : e \in effects}
ImplementsOneShot == OneShot!Spec

=============================================================================
