----------------------- MODULE CredentialGatewayProofs -----------------------
(***************************************************************************)
(* Safety of the credential gateways for every number of credentials,      *)
(* gateways, processes and calls.                                          *)
(***************************************************************************)
EXTENDS CredentialGateway, CredentialReceiverProofs

-----------------------------------------------------------------------------
\* The inductive invariant.

\* Every session a gateway may be bound to exists.
SessionsExist == Len(sessions) = Len(Logins)

\* A remote call is made for a gateway that is bound to a session only, and
\* the position it came back with is the revocation of that credential.
CallsAreBound ==
    \A v \in Revokers :
        LET g == revokers[v].gateway
        IN  /\ revokers[v].phase \in {"calling", "acked"} => Bound[g] # NoSession
            /\ revokers[v].seq > 0 =>
                /\ Bound[g] # NoSession
                /\ revokers[v].seq \in DOMAIN log
                /\ log[revokers[v].seq] =
                        Event("revoked", BoundCredential(g), NoSession)

AcksAreBound ==
    \A g \in Gateways : revocation[g] = "acknowledged" =>
        /\ Bound[g] # NoSession
        /\ ackSeq[g] \in DOMAIN log
        /\ log[ackSeq[g]] = Event("revoked", BoundCredential(g), NoSession)

\* A request that a handler has finished carries the handler's verdict.
RepliesAreVerdicts ==
    \A r \in Clients : requests[r].stage \in {"committed", "answered"} =>
        requests[r].reply \in {"observed", "denied"}

\* The lock of Gateway.admission: one dispatch of a gateway at a time, and none
\* beside a remote revocation.
LockIsExclusive ==
    \A g \in Gateways : \A w \in Workers : Dispatching(w, g) =>
        /\ \A u \in Workers : Dispatching(u, g) => u = w
        /\ \A v \in Revokers : ~Revoking(v, g)

EffectOf(g) == \E e \in effects : e.action = Approved[g] /\ e.session = Bound[g]
Engaged(w) == workers[w].phase \in {"sending", "waiting", "recording"}

\* Past admission a gateway has a session and an intent that is not settled.
AdmittedIsReserved ==
    /\ \A g \in Gateways : intent[g] # "none" => Bound[g] # NoSession
    /\ \A w \in Workers : Engaged(w) =>
            /\ workers[w].action = Approved[workers[w].gateway]
            /\ intent[workers[w].gateway] = "unknown"
            /\ workers[w].phase = "sending" =>
                    requests[workers[w].gateway].stage = "free"

\* A request in flight is the one its gateway has an unsettled intent for.
RequestIsReserved ==
    \A g \in Gateways : requests[g].stage # "free" =>
        /\ requests[g].session = Bound[g]
        /\ requests[g].action = Approved[g]
        /\ intent[g] = "unknown"

\* A gateway's only effect comes from its only request: before that request
\* commits, and after it was denied, there is none.
EffectFollowsCommit ==
    \A g \in Gateways :
        \/ ~EffectOf(g)
        \/ /\ intent[g] \in {"unknown", "observed"}
           /\ requests[g].stage # "arrived"
           /\ requests[g].stage \in {"committed", "answered"} =>
                    requests[g].reply = "observed"
           /\ \A w \in Workers : workers[w].gateway = g =>
                    workers[w].phase # "sending"

\* What a worker is about to record is true, and no request is left that
\* could make it false.
OutcomeIsTrue ==
    \A w \in Workers :
        workers[w].phase = "recording" /\ workers[w].outcome # "unknown" =>
            LET g == workers[w].gateway
            IN  /\ requests[g].stage = "free"
                /\ workers[w].outcome = "observed" =>
                        \E e \in effects : e.action = Approved[g]
                /\ workers[w].outcome = "denied" => ~EffectOf(g)

\* The part about dispatch, and all of what the records say.
DeliveryInv ==
    /\ AdmittedIsReserved
    /\ RequestIsReserved
    /\ EffectFollowsCommit
    /\ OutcomeIsTrue
    /\ IntentPrecedesEffect
    /\ OutcomeIsHonest

RecordInv ==
    /\ LockIsExclusive
    /\ DeliveryInv
    /\ StopPrecedesRevocation
    /\ AcknowledgedIsDrained

IInv ==
    /\ TypeOK
    /\ ReceiverInv
    /\ SessionsExist
    /\ RepliesAreVerdicts
    /\ CallsAreBound
    /\ AcksAreBound

-----------------------------------------------------------------------------
\* Types.

LEMMA DefaultRows ==
    /\ AbsentRow \in CredentialRows
    /\ FreeRequest \in Requests
    /\ IdleWorker \in WorkerStates
    /\ IdleRevoker \in RevokerStates
PROOF
<1>1. IdleWorker \in WorkerStates
    BY ReceiverAssumption, GatewayAssumption
    DEF IdleWorker, WorkerStates, WorkerPhases
<1>2. IdleRevoker \in RevokerStates
    BY GatewayAssumption DEF IdleRevoker, RevokerStates, RevokerPhases
<1> QED
    BY <1>1, <1>2, ReceiverRows

LEMMA InitTypes == Init => TypeOK /\ SessionsExist
PROOF
<1> SUFFICES ASSUME Init PROVE TypeOK /\ SessionsExist
    OBVIOUS
<1>1. now \in Times /\ dropNext \in BOOLEAN /\ effects \subseteq EffectRows
  <2>1. now = 0 /\ dropNext = FALSE /\ effects = {}
    BY DEF Init
  <2>2. now \in Times
    BY <2>1, ReceiverAssumption DEF Times
  <2>3. dropNext \in BOOLEAN /\ effects \subseteq EffectRows
    BY <2>1
  <2> QED
    BY <2>2, <2>3
<1>2. credentials \in [Credentials -> CredentialRows]
    BY DefaultRows DEF Init
<1>3. Logins \in Seq(Credentials)
    BY GatewayAssumption
<1>4. sessions \in Seq(SessionRows) /\ Len(sessions) = Len(Logins)
  <2>1. PICK ttl \in [DOMAIN Logins -> 1 .. MaxTime] :
            sessions = [i \in DOMAIN Logins |->
                [credential |-> Logins[i], scope |-> credentials[Logins[i]].scope,
                 expires |-> ttl[i], cancelled |-> FALSE]]
    BY DEF Init
  <2>2. \A i \in DOMAIN Logins : sessions[i] \in SessionRows
    BY <2>1, <1>2, <1>3, ReceiverAssumption DEF SessionRows, CredentialRows
  <2> QED
    BY <2>1, <2>2, <1>3
<1>5. log \in Seq(Events)
  <2>1. log = [i \in DOMAIN Logins |-> Event("session", Logins[i], i)]
    BY DEF Init
  <2>2. \A i \in DOMAIN Logins : log[i] \in Events
    BY <2>1, <1>3 DEF Event, Events
  <2> QED
    BY <2>1, <2>2, <1>3
<1>6. requests \in [Clients -> Requests]
    BY DefaultRows DEF Init
<1>7. workers \in [Workers -> WorkerStates] /\ revokers \in [Revokers -> RevokerStates]
    BY DefaultRows DEF Init
<1> QED
    BY <1>1, <1>2, <1>4, <1>5, <1>6, <1>7, GatewayAssumption
    DEF Init, TypeOK, ReceiverTypeOK, SessionsExist

\* A step on behalf of a bound gateway finds its credential.
LEMMA BoundCredentialType ==
    ASSUME TypeOK, SessionsExist, NEW g \in Gateways, Bound[g] # NoSession
    PROVE  Bound[g] \in DOMAIN sessions /\ BoundCredential(g) \in Credentials
PROOF
<1>1. Bound[g] \in 0 .. Len(Logins) /\ Len(Logins) \in Nat
    BY GatewayAssumption
<1>2. sessions \in Seq(SessionRows) /\ Len(sessions) = Len(Logins)
    BY DEF TypeOK, ReceiverTypeOK, SessionsExist
<1>3. Bound[g] \in DOMAIN sessions
    BY <1>1, <1>2 DEF NoSession
<1>4. sessions[Bound[g]] \in SessionRows
    BY <1>2, <1>3
<1> QED
    BY <1>3, <1>4 DEF BoundCredential, SessionRows

LEMMA WorkerTypes ==
    ASSUME TypeOK, ReceiverTypeOK', RepliesAreVerdicts,
           NEW w \in Workers, WorkerNext(w)
    PROVE  TypeOK'
PROOF
<1> USE DEF TypeOK
<1>0. workers[w] \in WorkerStates /\ IdleWorker \in WorkerStates
    BY DefaultRows
<1>1. ASSUME NEW g \in Gateways, NEW a \in Actions, BeginDispatch(w, g, a)
      PROVE  TypeOK'
  <2>1. workers' \in [Workers -> WorkerStates]
    BY <1>1, <1>0 DEF BeginDispatch, WorkerStates, WorkerPhases
  <2>2. calls' \in 0 .. MaxCalls
    BY <1>1, GatewayAssumption DEF BeginDispatch
  <2> QED
    BY <1>1, <2>1, <2>2 DEF BeginDispatch, gatewayRows
<1>2. CASE Admit(w)
  <2>1. workers' \in [Workers -> WorkerStates]
    BY <1>2, <1>0 DEF Admit, WorkerStates, WorkerPhases
  <2>2. intent' \in [Gateways -> {"none", "unknown", "observed", "denied"}]
    BY <1>2 DEF Admit
  <2> QED
    BY <1>2, <2>1, <2>2 DEF Admit
<1>3. CASE Transmit(w)
  <2>1. workers' \in [Workers -> WorkerStates]
    BY <1>3, <1>0 DEF Transmit, WorkerStates, WorkerPhases
  <2> QED
    BY <1>3, <2>1 DEF Transmit, gatewayRows
<1>4. CASE TakeReply(w)
  <2>1. requests[workers[w].gateway] \in Requests
    BY <1>0 DEF ReceiverTypeOK, WorkerStates, Gateways
  <2>2. workers' \in [Workers -> WorkerStates]
    <3>1. requests[workers[w].gateway].stage = "answered" =>
             requests[workers[w].gateway].reply \in {"unknown", "observed", "denied"}
      BY <1>0 DEF RepliesAreVerdicts, WorkerStates, Gateways
    <3> QED
      BY <1>4, <1>0, <3>1 DEF TakeReply, WorkerStates, WorkerPhases
  <2> QED
    BY <1>4, <2>2 DEF TakeReply, gatewayRows
<1>5. CASE GiveUp(w)
  <2>1. workers' \in [Workers -> WorkerStates]
    BY <1>5, <1>0 DEF GiveUp, WorkerStates, WorkerPhases
  <2> QED
    BY <1>5, <2>1 DEF GiveUp, gatewayRows
<1>6. CASE Record(w)
  <2>1. workers' \in [Workers -> WorkerStates]
    BY <1>6, <1>0 DEF Record
  <2>2. intent' \in [Gateways -> {"none", "unknown", "observed", "denied"}]
    BY <1>6, <1>0 DEF Record, WorkerStates
  <2> QED
    BY <1>6, <2>1, <2>2 DEF Record
<1>7. CASE CrashWorker(w)
  <2>1. workers' \in [Workers -> WorkerStates]
    BY <1>7, <1>0 DEF CrashWorker
  <2> QED
    BY <1>7, <2>1 DEF CrashWorker, gatewayRows
<1> QED
    BY <1>1, <1>2, <1>3, <1>4, <1>5, <1>6, <1>7 DEF WorkerNext

LEMMA RevokerTypes ==
    ASSUME TypeOK, ReceiverTypeOK', SessionsExist, CallsAreBound,
           NEW v \in Revokers, RevokerNext(v)
    PROVE  TypeOK'
PROOF
<1> USE DEF TypeOK
<1>0. revokers[v] \in RevokerStates /\ IdleRevoker \in RevokerStates
    BY DefaultRows
<1>b. revokers[v].phase \in {"calling", "acked"} =>
          BoundCredential(revokers[v].gateway) \in Credentials
    BY <1>0, BoundCredentialType DEF CallsAreBound, RevokerStates
<1>c. Abandon(v) => lateRevokes' \subseteq Credentials
    BY <1>b DEF Abandon
<1>1. ASSUME NEW g \in Gateways, StopLocally(v, g)
      PROVE  TypeOK'
  <2>1. revokers' \in [Revokers -> RevokerStates]
    BY <1>1, <1>0 DEF StopLocally, RevokerStates, RevokerPhases
  <2>2. calls' \in 0 .. MaxCalls
    BY <1>1, GatewayAssumption DEF StopLocally
  <2>3. /\ stopped' \in [Gateways -> BOOLEAN]
        /\ revocation' \in [Gateways -> {"not_requested", "unknown", "acknowledged"}]
        /\ ackSeq' \in [Gateways -> Nat]
    BY <1>1 DEF StopLocally
  <2> QED
    BY <1>1, <2>1, <2>2, <2>3 DEF StopLocally
<1>2. CASE BeginRemoteRevoke(v)
  <2>1. revokers' \in [Revokers -> RevokerStates]
    BY <1>2, <1>0 DEF BeginRemoteRevoke, RevokerStates, RevokerPhases
  <2> QED
    BY <1>2, <2>1 DEF BeginRemoteRevoke, gatewayRows
<1>3. CASE RemoteRevoke(v)
  <2>0. Len(log) + 1 \in Nat
    BY DEF ReceiverTypeOK
  <2>1. revokers' \in [Revokers -> RevokerStates]
    BY <1>3, <1>0, <2>0 DEF RemoteRevoke, RevokerStates, RevokerPhases
  <2> QED
    BY <1>3, <2>1 DEF RemoteRevoke, gatewayRows
<1>4. CASE TakeAck(v) \/ LoseAck(v)
  <2>1. revokers' \in [Revokers -> RevokerStates]
    BY <1>4, <1>0 DEF TakeAck, LoseAck, RevokerStates, RevokerPhases
  <2> QED
    BY <1>4, <2>1 DEF TakeAck, LoseAck, gatewayRows
<1>5. CASE RevokeTimeout(v) \/ CrashRevoker(v)
  <2>1. revokers' \in [Revokers -> RevokerStates]
    BY <1>5, <1>0 DEF RevokeTimeout, CrashRevoker, RevokerStates, RevokerPhases
  <2>2. Abandon(v)
    BY <1>5 DEF RevokeTimeout, CrashRevoker
  <2> QED
    BY <2>1, <2>2, <1>c DEF Abandon, gatewayRows
<1>6. CASE RecordRevocation(v)
  <2>1. revokers' \in [Revokers -> RevokerStates]
    BY <1>6, <1>0 DEF RecordRevocation
  <2>2. /\ revocation' \in [Gateways -> {"not_requested", "unknown", "acknowledged"}]
        /\ ackSeq' \in [Gateways -> Nat]
    BY <1>6, <1>0 DEF RecordRevocation, RevokerStates
  <2> QED
    BY <1>6, <2>1, <2>2 DEF RecordRevocation
<1> QED
    BY <1>1, <1>2, <1>3, <1>4, <1>5, <1>6 DEF RevokerNext

\* Whatever a gateway, an administrator or the network does is a move of the
\* receiver, and opens no session.
LEMMA StepMoves ==
    ASSUME TypeOK, SessionsExist, CallsAreBound, [Next]_vars
    PROVE  ReceiverMove /\ SessionsExist'
PROOF
<1>0. ReceiverTypeOK
    BY DEF TypeOK
<1>1. ASSUME NEW w \in Workers, WorkerNext(w)
      PROVE  ReceiverMove /\ UNCHANGED sessions
  <2>0. workers[w].gateway \in Clients /\ workers[w].action \in Actions
    BY DEF TypeOK, WorkerStates, Gateways
  <2>1. CASE Transmit(w)
    <3>1. Bound[workers[w].gateway] \in Nat
      BY <2>0, GatewayAssumption DEF Gateways
    <3> QED
      BY <2>0, <2>1, <3>1 DEF Transmit, Submit, storeVars, ReceiverMove
  <2>2. CASE TakeReply(w)
    BY <2>0, <2>2 DEF TakeReply, Close, storeVars, ReceiverMove
  <2>3. CASE ~Transmit(w) /\ ~TakeReply(w)
    BY <1>1, <2>3 DEF WorkerNext, BeginDispatch, Admit, GiveUp, Record,
        CrashWorker, receiverVars, ReceiverMove
  <2> QED
    BY <2>1, <2>2, <2>3
<1>2. ASSUME NEW v \in Revokers, RevokerNext(v)
      PROVE  ReceiverMove /\ UNCHANGED sessions
  <2>1. CASE RemoteRevoke(v)
    <3>1. BoundCredential(revokers[v].gateway) \in Credentials
      BY <2>1, BoundCredentialType
      DEF RemoteRevoke, CallsAreBound, TypeOK, RevokerStates
    <3> QED
      BY <2>1, <3>1 DEF RemoteRevoke, ReceiverMove
  <2>2. CASE ~RemoteRevoke(v)
    BY <1>2, <2>2 DEF RevokerNext, StopLocally, BeginRemoteRevoke, TakeAck,
        LoseAck, RevokeTimeout, CrashRevoker, Abandon, RecordRevocation,
        receiverVars, ReceiverMove
  <2> QED
    BY <2>1, <2>2
<1>3. CASE AdminNext
    BY <1>0, <1>3, AdminTypes DEF ReceiverMove, SessionsExist
<1>4. CASE HandlerNext
    BY <1>0, <1>4, HandlerTypes DEF ReceiverMove, SessionsExist
<1>5. ASSUME NEW c \in Credentials, LateRevoke(c)
      PROVE  ReceiverMove /\ UNCHANGED sessions
    BY <1>5 DEF LateRevoke, ReceiverMove
<1>6. CASE UNCHANGED vars
    BY <1>6 DEF vars, receiverVars, ReceiverMove, SessionsExist
<1> QED
    BY <1>1, <1>2, <1>3, <1>4, <1>5, <1>6
    DEF Next, EnvironmentNext, SessionsExist

LEMMA StepTypes ==
    ASSUME TypeOK, SessionsExist, CallsAreBound, RepliesAreVerdicts,
           ReceiverTypeOK', [Next]_vars
    PROVE  TypeOK'
PROOF
<1>1. CASE EnvironmentNext
  <2>1. lateRevokes' \subseteq lateRevokes
    BY <1>1 DEF EnvironmentNext, LateRevoke, gatewayVars
  <2> QED
    BY <1>1, <2>1 DEF EnvironmentNext, LateRevoke, TypeOK, gatewayRows, gatewayVars
<1>2. CASE UNCHANGED vars
    BY <1>2 DEF vars, TypeOK
<1> QED
    BY <1>1, <1>2, WorkerTypes, RevokerTypes DEF Next

-----------------------------------------------------------------------------
\* Replies, and the acknowledgments made of them.

LEMMA RepliesStep ==
    ASSUME IInv, [Next]_vars
    PROVE  RepliesAreVerdicts'
PROOF
<1> USE DEF IInv, RepliesAreVerdicts
<1>0. requests \in [Clients -> Requests]
    BY DEF TypeOK, ReceiverTypeOK
<1>1. ASSUME UNCHANGED requests PROVE RepliesAreVerdicts'
    BY <1>1
<1>2. ASSUME NEW w \in Workers, WorkerNext(w) PROVE RepliesAreVerdicts'
  <2>1. CASE Transmit(w)
    BY <2>1, <1>0 DEF Transmit, Submit
  <2>2. CASE TakeReply(w)
    BY <2>2, <1>0 DEF TakeReply, Close, FreeRequest
  <2>3. CASE ~Transmit(w) /\ ~TakeReply(w)
    BY <1>2, <2>3, <1>1 DEF WorkerNext, BeginDispatch, Admit, GiveUp, Record,
        CrashWorker, receiverVars
  <2> QED
    BY <2>1, <2>2, <2>3
<1>3. ASSUME NEW v \in Revokers, RevokerNext(v) PROVE RepliesAreVerdicts'
    BY <1>3, <1>1 DEF RevokerNext, StopLocally, BeginRemoteRevoke, RemoteRevoke,
        TakeAck, LoseAck, RevokeTimeout, CrashRevoker, Abandon,
        RecordRevocation, receiverVars
<1>4. CASE AdminNext
    BY <1>4, <1>1 DEF AdminNext, Issue, AdminRevoke, Cancel, Advance, DropNext
<1>5. CASE HandlerNext
  <2> PICK r \in Clients : Commit(r) \/ Answer(r) \/ Lose(r)
    BY <1>5 DEF HandlerNext
  <2>1. CASE Commit(r)
    <3> DEFINE verdict == Verdict(requests[r].session, requests[r].action)
    <3>1. verdict \in {"observed", "denied"}
      BY VerdictObserved
    <3>2. requests' = [requests EXCEPT ![r].stage = "committed",
                                       ![r].reply = verdict]
      BY <2>1 DEF Commit
    <3> HIDE DEF verdict
    <3> QED
      BY <3>1, <3>2, <1>0 DEF Requests
  <2>2. CASE Answer(r)
    BY <2>2, <1>0 DEF Answer, Requests
  <2>3. CASE Lose(r)
    BY <2>3, <1>0 DEF Lose, Requests
  <2> QED
    BY <2>1, <2>2, <2>3
<1>6. ASSUME NEW c \in Credentials, LateRevoke(c) PROVE RepliesAreVerdicts'
    BY <1>6, <1>1 DEF LateRevoke
<1>7. CASE UNCHANGED vars
    BY <1>7, <1>1 DEF vars
<1> QED
    BY <1>2, <1>3, <1>4, <1>5, <1>6, <1>7 DEF Next, EnvironmentNext

\* A position of the log that records the revocation of a gateway's credential
\* goes on doing so.
RevokedAt(g, n) ==
    /\ Bound[g] # NoSession
    /\ n \in DOMAIN log
    /\ log[n] = Event("revoked", BoundCredential(g), NoSession)

RevokedAtNext(g, n) ==
    /\ Bound[g] # NoSession
    /\ n \in DOMAIN log'
    /\ log'[n] = Event("revoked", sessions'[Bound[g]].credential, NoSession)

LEMMA RevokedAtIsStable ==
    ASSUME TypeOK, SessionsExist, SessionsGrow, LogGrows,
           NEW g \in Gateways, NEW n, RevokedAt(g, n)
    PROVE  RevokedAtNext(g, n)
PROOF
<1>1. Bound[g] \in DOMAIN sessions
    BY BoundCredentialType DEF RevokedAt
<1>2. sessions'[Bound[g]].credential = BoundCredential(g)
    BY <1>1 DEF BoundCredential, SessionsGrow
<1> QED
    BY <1>2 DEF RevokedAt, RevokedAtNext, LogGrows

CallIsBound(v) ==
    /\ revokers[v].phase \in {"calling", "acked"} =>
            Bound[revokers[v].gateway] # NoSession
    /\ revokers[v].seq > 0 => RevokedAt(revokers[v].gateway, revokers[v].seq)

LEMMA CallsUnfold == CallsAreBound <=> \A v \in Revokers : CallIsBound(v)
PROOF
    BY DEF CallsAreBound, CallIsBound, RevokedAt

LEMMA AcksUnfold ==
    AcksAreBound <=> \A g \in Gateways :
        revocation[g] = "acknowledged" => RevokedAt(g, ackSeq[g])
PROOF
    BY DEF AcksAreBound, RevokedAt

\* The calls of a process that the step leaves alone, or only relabels.
LEMMA CallIsStable ==
    ASSUME TypeOK, SessionsExist, SessionsGrow, LogGrows,
           NEW v \in Revokers, CallIsBound(v),
           revokers'[v].gateway = revokers[v].gateway,
           revokers'[v].seq = revokers[v].seq,
           revokers'[v].phase \in {"calling", "acked"} =>
               Bound[revokers[v].gateway] # NoSession
    PROVE  CallIsBound(v)'
PROOF
<1>1. revokers[v].gateway \in Gateways
    BY DEF TypeOK, RevokerStates
<1>2. revokers[v].seq > 0 =>
          RevokedAtNext(revokers[v].gateway, revokers[v].seq)
    BY <1>1, RevokedAtIsStable DEF CallIsBound
<1> QED
    BY <1>2 DEF CallIsBound, RevokedAt, RevokedAtNext, BoundCredential

LEMMA RevokerCalls ==
    ASSUME IInv, SessionsGrow, LogGrows, NEW v \in Revokers, RevokerNext(v)
    PROVE  CallIsBound(v)' /\ \A u \in Revokers \ {v} : revokers'[u] = revokers[u]
PROOF
<1> USE DEF IInv
<1>0. /\ revokers \in [Revokers -> RevokerStates]
      /\ revokers[v] \in RevokerStates
      /\ CallIsBound(v)
    BY CallsUnfold DEF TypeOK
<1>a. IdleRevoker.seq = 0 /\ IdleRevoker.phase = "idle"
    BY DEF IdleRevoker
<1>1. ASSUME NEW g \in Gateways, StopLocally(v, g)
      PROVE  CallIsBound(v)' /\ \A u \in Revokers \ {v} : revokers'[u] = revokers[u]
    BY <1>0, <1>1 DEF StopLocally, CallIsBound
<1>2. CASE BeginRemoteRevoke(v)
    BY <1>0, <1>2, CallIsStable DEF BeginRemoteRevoke, RevokerStates
<1>3. CASE RemoteRevoke(v)
  <2> DEFINE g == revokers[v].gateway
             e == Event("revoked", BoundCredential(g), NoSession)
  <2>1. g \in Gateways /\ Bound[g] # NoSession
    BY <1>0, <1>3 DEF RemoteRevoke, CallIsBound, RevokerStates
  <2>2. /\ BoundCredential(g) \in Credentials
        /\ sessions'[Bound[g]].credential = BoundCredential(g)
    BY <2>1, BoundCredentialType DEF BoundCredential, SessionsGrow
  <2>3. e \in Events
    BY <2>2 DEF Event, Events, NoSession
  <2>4. log \in Seq(Events) /\ log' = Append(log, e)
    BY <1>3 DEF RemoteRevoke, Revoke, TypeOK, ReceiverTypeOK
  <2>5. Len(log) + 1 \in DOMAIN log' /\ log'[Len(log) + 1] = e
    BY <2>3, <2>4, AppendFacts
  <2>6. /\ revokers'[v].gateway = g
        /\ revokers'[v].seq = Len(log) + 1
        /\ \A u \in Revokers \ {v} : revokers'[u] = revokers[u]
    BY <1>0, <1>3 DEF RemoteRevoke, RevokerStates
  <2>7. RevokedAtNext(g, Len(log) + 1)
    BY <2>1, <2>2, <2>5 DEF RevokedAtNext
  <2> HIDE DEF g
  <2> QED
    BY <2>1, <2>6, <2>7 DEF CallIsBound, RevokedAt, RevokedAtNext, BoundCredential
<1>4. CASE TakeAck(v)
    BY <1>0, <1>4, CallIsStable DEF TakeAck, RevokerStates
<1>5. CASE LoseAck(v)
    BY <1>0, <1>5 DEF LoseAck, CallIsBound, RevokerStates
<1>6. CASE RevokeTimeout(v)
    BY <1>0, <1>6, CallIsStable DEF RevokeTimeout, RevokerStates
<1>7. CASE CrashRevoker(v)
    BY <1>0, <1>7, <1>a DEF CrashRevoker, CallIsBound
<1>8. CASE RecordRevocation(v)
    BY <1>0, <1>8, <1>a DEF RecordRevocation, CallIsBound
<1> QED
    BY <1>1, <1>2, <1>3, <1>4, <1>5, <1>6, <1>7, <1>8 DEF RevokerNext

LEMMA CallsStep ==
    ASSUME IInv, [Next]_vars, SessionsGrow, LogGrows
    PROVE  CallsAreBound'
PROOF
<1>0. \A v \in Revokers : CallIsBound(v)
    BY CallsUnfold DEF IInv
<1>1. ASSUME NEW v \in Revokers, revokers'[v] = revokers[v]
      PROVE  CallIsBound(v)'
    BY <1>0, <1>1, CallIsStable DEF IInv, CallIsBound
<1>2. ASSUME NEW v \in Revokers, RevokerNext(v)
      PROVE  \A u \in Revokers : CallIsBound(u)'
    BY <1>1, <1>2, RevokerCalls
<1>3. ASSUME ~\E v \in Revokers : RevokerNext(v)
      PROVE  \A u \in Revokers : CallIsBound(u)'
  <2>1. UNCHANGED revokers
    BY <1>3 DEF Next, WorkerNext, BeginDispatch, Admit, Transmit, TakeReply,
        GiveUp, Record, CrashWorker, EnvironmentNext, LateRevoke,
        gatewayVars, vars
  <2> QED
    BY <2>1, <1>1
<1>4. \A u \in Revokers : CallIsBound(u)'
    BY <1>2, <1>3
<1> QED
    BY <1>4 DEF CallsAreBound, CallIsBound, RevokedAt

LEMMA AcksStep ==
    ASSUME IInv, [Next]_vars, SessionsGrow, LogGrows
    PROVE  AcksAreBound'
PROOF
<1> USE DEF IInv
<1>0. \A g \in Gateways : revocation[g] = "acknowledged" => RevokedAt(g, ackSeq[g])
    BY AcksUnfold
<1>1. ASSUME NEW g \in Gateways,
             revocation'[g] = revocation[g], ackSeq'[g] = ackSeq[g],
             revocation'[g] = "acknowledged"
      PROVE  RevokedAt(g, ackSeq[g])'
  <2>1. RevokedAtNext(g, ackSeq[g])
    BY <1>0, <1>1, RevokedAtIsStable
  <2> QED
    BY <2>1, <1>1 DEF RevokedAt, RevokedAtNext, BoundCredential
<1>2. ASSUME NEW v \in Revokers, NEW h \in Gateways, StopLocally(v, h),
             NEW g \in Gateways, revocation'[g] = "acknowledged"
      PROVE  RevokedAt(g, ackSeq[g])'
    BY <1>1, <1>2 DEF StopLocally, TypeOK
<1>3. ASSUME NEW v \in Revokers, RecordRevocation(v),
             NEW g \in Gateways, revocation'[g] = "acknowledged"
      PROVE  RevokedAt(g, ackSeq[g])'
  <2>1. CASE g = revokers[v].gateway
    <3>1. revokers[v].seq > 0 /\ ackSeq'[g] = revokers[v].seq
      BY <1>3, <2>1 DEF RecordRevocation, TypeOK
    <3>2. RevokedAt(g, revokers[v].seq)
      BY <3>1, <2>1, CallsUnfold DEF CallIsBound
    <3>3. RevokedAtNext(g, revokers[v].seq)
      BY <3>2, RevokedAtIsStable
    <3> QED
      BY <3>1, <3>3 DEF RevokedAt, RevokedAtNext, BoundCredential
  <2>2. CASE g # revokers[v].gateway
    BY <1>1, <1>3, <2>2 DEF RecordRevocation, TypeOK
  <2> QED
    BY <2>1, <2>2
<1>4. ASSUME UNCHANGED <<revocation, ackSeq>>,
             NEW g \in Gateways, revocation'[g] = "acknowledged"
      PROVE  RevokedAt(g, ackSeq[g])'
    BY <1>1, <1>4
<1>5. UNCHANGED <<revocation, ackSeq>> \/ \E v \in Revokers :
          RecordRevocation(v) \/ \E h \in Gateways : StopLocally(v, h)
    BY DEF Next, WorkerNext, BeginDispatch, Admit, Transmit, TakeReply, GiveUp,
        Record, CrashWorker, RevokerNext, BeginRemoteRevoke, RemoteRevoke,
        TakeAck, LoseAck, RevokeTimeout, CrashRevoker, Abandon,
        EnvironmentNext, LateRevoke, gatewayRows, gatewayVars, vars
<1>6. \A g \in Gateways : revocation'[g] = "acknowledged" => RevokedAt(g, ackSeq[g])'
    BY <1>2, <1>3, <1>4, <1>5
<1> QED
    BY <1>6 DEF AcksAreBound, RevokedAt

-----------------------------------------------------------------------------
\* The theorems.

LEMMA InitInv == Init => IInv
PROOF
<1> SUFFICES ASSUME Init PROVE IInv
    OBVIOUS
<1>1. TypeOK /\ SessionsExist
    BY InitTypes
<1>2. ReceiverInv
  <2>1. log = [i \in DOMAIN Logins |-> Event("session", Logins[i], i)]
    BY DEF Init
  <2>2. /\ DOMAIN sessions = DOMAIN Logins
        /\ \A s \in DOMAIN sessions : sessions[s].credential = Logins[s]
    BY DEF Init
  <2>3. /\ DOMAIN log = DOMAIN Logins
        /\ \A i \in DOMAIN log : log[i] = Event("session", Logins[i], i)
        /\ \A i \in DOMAIN log : log[i].kind = "session"
    BY <2>1 DEF Event
  <2>4. SessionsAreLogged
    BY <2>2, <2>3 DEF SessionsAreLogged, LoggedInAt
  <2>5. LogInv
    BY <2>3, <2>4 DEF LogInv, LoggedIsRevoked, RevocationFinal,
        LoginPrecedesRevocation, LoggedIsCancelled, CancelFinal
  <2>6. effects = {} /\ \A r \in Clients : requests[r].reply = "none"
    BY DEF Init, FreeRequest
  <2>7. OneEffectPerKey /\ ObservedIsRecorded
    BY <2>6 DEF OneEffectPerKey, ObservedIsRecorded
  <2> QED
    BY <1>1, <2>5, <2>7, ReceiverInvUnfold DEF TypeOK
<1>3. RepliesAreVerdicts
  <2>1. \A r \in Clients : requests[r].stage = "free"
    BY DEF Init, FreeRequest
  <2> QED
    BY <2>1 DEF RepliesAreVerdicts
<1>4. CallsAreBound
  <2>1. \A v \in Revokers : revokers[v].phase = "idle" /\ revokers[v].seq = 0
    BY DEF Init, IdleRevoker
  <2> QED
    BY <2>1 DEF CallsAreBound
<1>5. AcksAreBound
  <2>1. \A g \in Gateways : revocation[g] = "not_requested"
    BY DEF Init
  <2> QED
    BY <2>1 DEF AcksAreBound
<1> QED
    BY <1>1, <1>2, <1>3, <1>4, <1>5 DEF IInv

LEMMA StepInv == IInv /\ [Next]_vars => IInv'
PROOF
<1> SUFFICES ASSUME IInv, [Next]_vars PROVE IInv'
    OBVIOUS
<1>1. ReceiverMove /\ SessionsExist'
    BY StepMoves DEF IInv
<1>2. ReceiverInv' /\ StoreMoves /\ LogGrows
    BY <1>1, MoveKeepsInv DEF IInv
<1>3. SessionsGrow
    BY <1>2 DEF StoreMoves
<1>4. TypeOK'
    BY <1>2, StepTypes DEF IInv, ReceiverInv
<1>5. RepliesAreVerdicts'
    BY RepliesStep
<1>6. CallsAreBound' /\ AcksAreBound'
    BY <1>2, <1>3, CallsStep, AcksStep
<1> QED
    BY <1>1, <1>2, <1>4, <1>5, <1>6 DEF IInv

\* The strengthening of the three theorems below is an invariant.
THEOREM Invariance == Spec => []IInv
PROOF
    BY InitInv, StepInv, PTL DEF Spec

\* The types of the receiver's and the gateways' state are kept by every
\* handler, transaction, timeout and crash.
THEOREM TypeCorrect == Spec => []TypeOK
PROOF
<1>1. IInv => TypeOK
    BY DEF IInv
<1> QED
    BY <1>1, Invariance, PTL

\* Under the continuous policy no effect of a credential ever follows one of
\* its acknowledged revocations in the receiver's log.
THEOREM RevocationIsFinal == Spec => []RevocationFinal
PROOF
<1>1. IInv => RevocationFinal
    BY DEF IInv, ReceiverInv
<1> QED
    BY <1>1, Invariance, PTL

\* An acknowledgment recorded by a gateway names a revocation of the gateway's
\* own credential and, under the continuous policy, bounds its effects.
THEOREM AcknowledgmentBounds == Spec => []AckBoundsEffects
PROOF
<1>1. IInv => AckBoundsEffects
  <2> SUFFICES ASSUME IInv, NEW g \in Gateways, revocation[g] = "acknowledged"
               PROVE  /\ ackSeq[g] \in DOMAIN log
                      /\ log[ackSeq[g]] =
                            Event("revoked", BoundCredential(g), NoSession)
                      /\ Policy = "continuous" =>
                            \A j \in DOMAIN log : log[j].kind = "effect"
                                /\ log[j].credential = BoundCredential(g)
                                => j < ackSeq[g]
    BY DEF AckBoundsEffects
  <2>1. /\ ackSeq[g] \in DOMAIN log
        /\ log[ackSeq[g]] = Event("revoked", BoundCredential(g), NoSession)
    BY DEF IInv, AcksAreBound
  <2>2. /\ log[ackSeq[g]].kind = "revoked"
        /\ log[ackSeq[g]].credential = BoundCredential(g)
    BY <2>1 DEF Event
  <2>3. RevocationFinal
    BY DEF IInv, ReceiverInv
  <2> QED
    BY <2>1, <2>2, <2>3 DEF RevocationFinal
<1> QED
    BY <1>1, Invariance, PTL

-----------------------------------------------------------------------------
\* What the records say of the world: dispatch.

LEMMA DeliveryQuiet ==
    ASSUME DeliveryInv, UNCHANGED <<requests, effects, intent, workers>>
    PROVE  DeliveryInv'
PROOF
    BY DEF DeliveryInv, AdmittedIsReserved, RequestIsReserved, EffectFollowsCommit,
        EffectOf, OutcomeIsTrue, Engaged, IntentPrecedesEffect, OutcomeIsHonest

\* A step that moves worker w and touches neither a request nor the receiver.
LEMMA WorkerAlone ==
    ASSUME TypeOK, DeliveryInv, UNCHANGED <<requests, effects, intent>>,
           NEW w \in Workers,
           \A u \in Workers : u # w => workers'[u] = workers[u],
           \/ workers'[w].phase \in {"idle", "admitting"}
           \/ /\ workers[w].phase \in {"sending", "waiting", "recording"}
              /\ workers'[w].gateway = workers[w].gateway
              /\ workers'[w].action = workers[w].action
              /\ workers'[w].phase \in {"waiting", "recording"}
              /\ workers'[w].outcome = "unknown"
    PROVE  DeliveryInv'
PROOF
<1> USE DEF DeliveryInv
<1>1. AdmittedIsReserved'
    BY DEF AdmittedIsReserved, Engaged
<1>2. RequestIsReserved' /\ IntentPrecedesEffect' /\ OutcomeIsHonest'
    BY DEF RequestIsReserved, IntentPrecedesEffect, OutcomeIsHonest
<1>3. EffectFollowsCommit'
    BY DEF EffectFollowsCommit, EffectOf
<1>4. OutcomeIsTrue'
    BY DEF OutcomeIsTrue, EffectOf
<1> QED
    BY <1>1, <1>2, <1>3, <1>4

LEMMA AdmitDelivery ==
    ASSUME TypeOK, DeliveryInv, LockIsExclusive, NEW w \in Workers, Admit(w)
    PROVE  DeliveryInv'
PROOF
<1> DEFINE g == workers[w].gateway
           fresh == Admissible(g, workers[w].action) /\ intent[g] = "none"
<1>1. /\ workers \in [Workers -> WorkerStates]
      /\ workers[w] \in WorkerStates
      /\ g \in Gateways
      /\ intent \in [Gateways -> {"none", "unknown", "observed", "denied"}]
      /\ UNCHANGED <<requests, effects>>
      /\ Dispatching(w, g)
    BY DEF TypeOK, WorkerStates, Admit, receiverVars, Dispatching
<1>2. CASE ~fresh
  <2>1. UNCHANGED intent /\ workers' = [workers EXCEPT ![w] = IdleWorker]
    BY <1>2 DEF Admit
  <2> QED
    BY <1>1, <2>1, WorkerAlone DEF IdleWorker
<1>3. CASE fresh
  <2>1. /\ intent' = [intent EXCEPT ![g] = "unknown"]
        /\ intent[g] = "none"
        /\ workers' = [workers EXCEPT ![w].phase = "sending"]
        /\ workers[w].phase = "admitting"
        /\ workers[w].action = Approved[g] /\ Bound[g] # NoSession
    BY <1>3 DEF Admit, Admissible
  <2>2. requests[g].stage = "free" /\ ~EffectOf(g)
    BY <1>1, <2>1 DEF DeliveryInv, RequestIsReserved, EffectFollowsCommit
  <2>3. /\ workers'[w].phase = "sending" /\ workers'[w].gateway = g
        /\ workers'[w].action = workers[w].action
        /\ \A u \in Workers : u # w => workers'[u] = workers[u]
        /\ intent'[g] = "unknown"
        /\ \A h \in Gateways : h # g => intent'[h] = intent[h]
    BY <1>1, <2>1 DEF WorkerStates
  <2>4. \A u \in Workers : u # w /\ Engaged(u) => workers[u].gateway # g
    BY <1>1 DEF LockIsExclusive, Dispatching, Engaged
  <2>5. \A u \in Workers : workers[u].gateway \in Gateways
    BY <1>1 DEF WorkerStates
  <2> USE DEF DeliveryInv
  <2> HIDE DEF g
  <2>6. AdmittedIsReserved'
    BY <1>1, <2>1, <2>2, <2>3, <2>4, <2>5 DEF AdmittedIsReserved, Engaged
  <2>7. RequestIsReserved'
    BY <1>1, <2>2, <2>3 DEF RequestIsReserved
  <2>8. EffectFollowsCommit'
    BY <1>1, <2>2, <2>3 DEF EffectFollowsCommit, EffectOf
  <2>9. OutcomeIsTrue'
    BY <1>1, <2>3 DEF OutcomeIsTrue, EffectOf
  <2>10. IntentPrecedesEffect' /\ OutcomeIsHonest'
    BY <1>1, <2>3 DEF IntentPrecedesEffect, OutcomeIsHonest
  <2> QED
    BY <2>6, <2>7, <2>8, <2>9, <2>10
<1> QED
    BY <1>2, <1>3

LEMMA TransmitDelivery ==
    ASSUME TypeOK, DeliveryInv, LockIsExclusive, NEW w \in Workers, Transmit(w)
    PROVE  DeliveryInv'
PROOF
<1> DEFINE g == workers[w].gateway
<1>1. /\ workers \in [Workers -> WorkerStates]
      /\ workers[w] \in WorkerStates
      /\ g \in Gateways
      /\ requests \in [Gateways -> Requests]
      /\ UNCHANGED <<effects, intent>>
      /\ Dispatching(w, g) /\ Engaged(w)
    BY DEF TypeOK, ReceiverTypeOK, WorkerStates, Transmit, Submit, storeVars,
        gatewayRows, Dispatching, Engaged, Gateways
<1>2. /\ requests' = [requests EXCEPT ![g] =
              [stage |-> "arrived", session |-> Bound[g],
               action |-> workers[w].action, reply |-> "none"]]
      /\ workers' = [workers EXCEPT ![w].phase = "waiting"]
      /\ workers[w].phase = "sending"
    BY DEF Transmit, Submit
<1>3. /\ workers'[w].phase = "waiting" /\ workers'[w].gateway = g
      /\ workers'[w].action = workers[w].action
      /\ \A u \in Workers : u # w => workers'[u] = workers[u]
      /\ requests'[g].stage = "arrived" /\ requests'[g].session = Bound[g]
      /\ requests'[g].action = workers[w].action
      /\ \A h \in Gateways : h # g => requests'[h] = requests[h]
    BY <1>1, <1>2 DEF WorkerStates
<1>4. \A u \in Workers : u # w /\ Engaged(u) => workers[u].gateway # g
    BY <1>1 DEF LockIsExclusive, Dispatching, Engaged
<1>5. \A u \in Workers : workers[u].gateway \in Gateways
    BY <1>1 DEF WorkerStates
<1>6. workers[w].action = Approved[g] /\ intent[g] = "unknown" /\ ~EffectOf(g)
    BY <1>1, <1>2 DEF DeliveryInv, AdmittedIsReserved, EffectFollowsCommit
<1> USE DEF DeliveryInv
<1> HIDE DEF g
<1>7. AdmittedIsReserved'
    BY <1>1, <1>3, <1>4, <1>5, <1>6 DEF AdmittedIsReserved, Engaged
<1>8. RequestIsReserved'
    BY <1>1, <1>3, <1>6 DEF RequestIsReserved
<1>9. EffectFollowsCommit'
    BY <1>1, <1>3, <1>5, <1>6 DEF EffectFollowsCommit, EffectOf
<1>10. OutcomeIsTrue'
    BY <1>1, <1>3, <1>4, <1>5 DEF OutcomeIsTrue, EffectOf, Engaged
<1>11. IntentPrecedesEffect' /\ OutcomeIsHonest'
    BY <1>1 DEF IntentPrecedesEffect, OutcomeIsHonest
<1> QED
    BY <1>7, <1>8, <1>9, <1>10, <1>11

LEMMA TakeReplyDelivery ==
    ASSUME TypeOK, DeliveryInv, LockIsExclusive, ObservedIsRecorded,
           RepliesAreVerdicts, NEW w \in Workers, TakeReply(w)
    PROVE  DeliveryInv'
PROOF
<1> DEFINE g == workers[w].gateway
           q == requests[g]
           told == IF q.stage = "answered" THEN q.reply ELSE "unknown"
<1>1. /\ workers \in [Workers -> WorkerStates]
      /\ workers[w] \in WorkerStates
      /\ g \in Gateways
      /\ requests \in [Gateways -> Requests]
      /\ UNCHANGED <<effects, intent>>
      /\ Dispatching(w, g) /\ Engaged(w)
    BY DEF TypeOK, ReceiverTypeOK, WorkerStates, TakeReply, Close, storeVars,
        gatewayRows, Dispatching, Engaged, Gateways
<1>2. /\ requests' = [requests EXCEPT ![g] = FreeRequest]
      /\ workers' = [workers EXCEPT ![w].phase = "recording", ![w].outcome = told]
      /\ workers[w].phase = "waiting"
      /\ q.stage \in {"answered", "dropped"}
    BY DEF TakeReply, Close
<1>3. /\ workers'[w].phase = "recording" /\ workers'[w].gateway = g
      /\ workers'[w].action = workers[w].action
      /\ workers'[w].outcome = told
      /\ \A u \in Workers : u # w => workers'[u] = workers[u]
      /\ requests'[g].stage = "free"
      /\ \A h \in Gateways : h # g => requests'[h] = requests[h]
    BY <1>1, <1>2 DEF WorkerStates, FreeRequest
<1>4. \A u \in Workers : u # w /\ Engaged(u) => workers[u].gateway # g
    BY <1>1 DEF LockIsExclusive, Dispatching, Engaged
<1>5. \A u \in Workers : workers[u].gateway \in Gateways
    BY <1>1 DEF WorkerStates
<1>6. /\ workers[w].action = Approved[g] /\ intent[g] = "unknown"
      /\ q.action = Approved[g]
    BY <1>1, <1>2
    DEF DeliveryInv, AdmittedIsReserved, RequestIsReserved
<1>7. told = "observed" => \E e \in effects : e.action = Approved[g]
    BY <1>1, <1>6 DEF ObservedIsRecorded, Gateways
<1>8. told = "denied" => ~EffectOf(g)
    BY <1>1, <1>2 DEF DeliveryInv, EffectFollowsCommit
<1> USE DEF DeliveryInv
<1> HIDE DEF g, q, told
<1>9. AdmittedIsReserved'
    BY <1>1, <1>3, <1>4, <1>5, <1>6 DEF AdmittedIsReserved, Engaged
<1>10. RequestIsReserved'
    BY <1>1, <1>3 DEF RequestIsReserved
<1>11. EffectFollowsCommit'
    BY <1>1, <1>3, <1>5 DEF EffectFollowsCommit, EffectOf
<1>12. OutcomeIsTrue'
    BY <1>1, <1>3, <1>4, <1>5, <1>7, <1>8 DEF OutcomeIsTrue, EffectOf, Engaged
<1>13. IntentPrecedesEffect' /\ OutcomeIsHonest'
    BY <1>1 DEF IntentPrecedesEffect, OutcomeIsHonest
<1> QED
    BY <1>9, <1>10, <1>11, <1>12, <1>13

LEMMA RecordDelivery ==
    ASSUME TypeOK, DeliveryInv, LockIsExclusive, NEW w \in Workers, Record(w)
    PROVE  DeliveryInv'
PROOF
<1> DEFINE g == workers[w].gateway
<1>1. /\ workers \in [Workers -> WorkerStates]
      /\ workers[w] \in WorkerStates
      /\ g \in Gateways
      /\ intent \in [Gateways -> {"none", "unknown", "observed", "denied"}]
      /\ UNCHANGED <<effects, requests>>
      /\ Dispatching(w, g) /\ Engaged(w)
      /\ workers[w].phase = "recording"
    BY DEF TypeOK, WorkerStates, Record, receiverVars, Dispatching, Engaged
<1>2. /\ workers'[w].phase = "idle"
      /\ \A u \in Workers : u # w => workers'[u] = workers[u]
      /\ intent'[g] = workers[w].outcome
      /\ \A h \in Gateways : h # g => intent'[h] = intent[h]
    BY <1>1 DEF Record, IdleWorker
<1>3. \A u \in Workers : u # w /\ Engaged(u) => workers[u].gateway # g
    BY <1>1 DEF LockIsExclusive, Dispatching, Engaged
<1>4. \A u \in Workers : workers[u].gateway \in Gateways
    BY <1>1 DEF WorkerStates
<1>5. workers[w].outcome \in {"unknown", "observed", "denied"}
    BY <1>1 DEF WorkerStates
<1>6. workers[w].outcome # "unknown" =>
          /\ requests[g].stage = "free"
          /\ workers[w].outcome = "observed" => \E e \in effects : e.action = Approved[g]
          /\ workers[w].outcome = "denied" => ~EffectOf(g)
    BY <1>1 DEF DeliveryInv, OutcomeIsTrue
<1>7. intent[g] = "unknown" /\ Bound[g] # NoSession
    BY <1>1 DEF DeliveryInv, AdmittedIsReserved
<1> USE DEF DeliveryInv
<1> HIDE DEF g
<1>8. AdmittedIsReserved'
    BY <1>1, <1>2, <1>3, <1>4, <1>7 DEF AdmittedIsReserved, Engaged
<1>9. RequestIsReserved'
    BY <1>1, <1>2, <1>5, <1>6 DEF RequestIsReserved
<1>10. EffectFollowsCommit'
    BY <1>1, <1>2, <1>4, <1>5, <1>6 DEF EffectFollowsCommit, EffectOf
<1>11. OutcomeIsTrue'
    BY <1>1, <1>2, <1>4 DEF OutcomeIsTrue, EffectOf
<1>12. IntentPrecedesEffect'
    BY <1>1, <1>2, <1>5 DEF IntentPrecedesEffect
<1>13. OutcomeIsHonest'
    BY <1>1, <1>2, <1>6 DEF OutcomeIsHonest, EffectOf
<1> QED
    BY <1>8, <1>9, <1>10, <1>11, <1>12, <1>13

LEMMA WorkerDelivery ==
    ASSUME TypeOK, DeliveryInv, LockIsExclusive, ObservedIsRecorded,
           RepliesAreVerdicts, NEW w \in Workers, WorkerNext(w)
    PROVE  DeliveryInv'
PROOF
<1>0. workers \in [Workers -> WorkerStates] /\ workers[w] \in WorkerStates
    BY DEF TypeOK
<1>1. ASSUME NEW g \in Gateways, NEW a \in Actions, BeginDispatch(w, g, a)
      PROVE  DeliveryInv'
    BY <1>0, <1>1, WorkerAlone DEF BeginDispatch, receiverVars, gatewayRows
<1>2. CASE GiveUp(w)
    BY <1>0, <1>2, WorkerAlone DEF GiveUp, receiverVars, gatewayRows, WorkerStates
<1>3. CASE CrashWorker(w)
    BY <1>0, <1>3, WorkerAlone
    DEF CrashWorker, receiverVars, gatewayRows, IdleWorker
<1> QED
    BY <1>1, <1>2, <1>3, AdmitDelivery, TransmitDelivery, TakeReplyDelivery,
        RecordDelivery DEF WorkerNext

\* Two gateways never share a session and an action: an effect is of one.
LEMMA EffectIsOwn ==
    ASSUME NEW g \in Gateways, NEW h \in Gateways, g # h, Bound[h] # NoSession
    PROVE  ~(Approved[h] = Approved[g] /\ Bound[h] = Bound[g])
PROOF
<1> SUFFICES ASSUME Approved[h] = Approved[g], Bound[h] = Bound[g] PROVE FALSE
    OBVIOUS
<1>1. \A x, y \in Gateways : x # y /\ Bound[x] # NoSession =>
            <<Approved[x], Bound[x]>> # <<Approved[y], Bound[y]>>
    BY GatewayAssumption
<1>2. <<Approved[h], Bound[h]>> # <<Approved[g], Bound[g]>>
    BY <1>1
<1> QED
    BY <1>2

LEMMA CommitDelivery ==
    ASSUME TypeOK, DeliveryInv, NEW r \in Clients, Commit(r),
           UNCHANGED gatewayVars
    PROVE  DeliveryInv'
PROOF
<1> DEFINE s == requests[r].session
           a == requests[r].action
           verdict == Verdict(s, a)
<1>1. /\ requests \in [Clients -> Requests]
      /\ requests[r] \in Requests
      /\ requests[r].stage = "arrived"
      /\ r \in Gateways
    BY DEF TypeOK, ReceiverTypeOK, Commit, Gateways
<1>2. /\ s = Bound[r] /\ a = Approved[r] /\ intent[r] = "unknown"
      /\ Bound[r] # NoSession
      /\ ~EffectOf(r)
    BY <1>1 DEF DeliveryInv, AdmittedIsReserved, RequestIsReserved,
        EffectFollowsCommit
<1>3. RecordEffect(s, a)
    BY DEF Commit
<1>4. requests' = [requests EXCEPT ![r].stage = "committed", ![r].reply = verdict]
    BY DEF Commit
<1>5. verdict \in {"observed", "denied"}
    BY VerdictObserved
<1>6. /\ effects \subseteq effects'
      /\ \A e \in effects' \ effects :
            /\ e.session = s /\ e.action = a
            /\ verdict = "observed"
    BY <1>3 DEF RecordEffect, EffectRow
<1> HIDE DEF s, a, verdict
<1>7. /\ requests'[r].stage = "committed" /\ requests'[r].reply = verdict
      /\ requests'[r].action = requests[r].action
      /\ requests'[r].session = requests[r].session
      /\ \A q \in Clients : q # r => requests'[q] = requests[q]
    BY <1>1, <1>4 DEF Requests
<1>8. UNCHANGED <<intent, workers>>
    BY DEF gatewayVars
<1>9. ASSUME NEW g \in Gateways, g # r PROVE EffectOf(g)' => EffectOf(g)
    BY <1>1, <1>2, <1>6, <1>9, EffectIsOwn DEF EffectOf
<1>10. EffectOf(r)' => verdict = "observed"
    BY <1>2, <1>6 DEF EffectOf
<1>11. ASSUME NEW w \in Workers, workers[w].gateway = r
       PROVE  workers[w].phase # "sending"
    BY <1>1, <1>11 DEF DeliveryInv, AdmittedIsReserved, Engaged
<1>12. \A u \in Workers : workers[u].gateway \in Gateways
    BY DEF TypeOK, WorkerStates
<1> USE DEF DeliveryInv
<1>13. AdmittedIsReserved'
    BY <1>1, <1>7, <1>8, <1>11, <1>12 DEF AdmittedIsReserved, Engaged, Gateways
<1>14. RequestIsReserved'
    BY <1>1, <1>7, <1>8 DEF RequestIsReserved, Gateways
<1>15. EffectFollowsCommit'
  <2>1. ASSUME NEW g \in Gateways, EffectOf(g)'
        PROVE  /\ intent'[g] \in {"unknown", "observed"}
               /\ requests'[g].stage # "arrived"
               /\ requests'[g].stage \in {"committed", "answered"} =>
                        requests'[g].reply = "observed"
               /\ \A w \in Workers : workers'[w].gateway = g =>
                        workers'[w].phase # "sending"
    <3>1. CASE g = r
      BY <3>1, <2>1, <1>2, <1>7, <1>8, <1>10, <1>11
    <3>2. CASE g # r
      BY <3>2, <2>1, <1>7, <1>8, <1>9 DEF EffectFollowsCommit, Gateways
    <3> QED
      BY <3>1, <3>2
  <2> QED
    BY <2>1 DEF EffectFollowsCommit
<1>16. OutcomeIsTrue'
    BY <1>1, <1>6, <1>7, <1>8, <1>9, <1>12 DEF OutcomeIsTrue, Gateways
<1>17. IntentPrecedesEffect'
    BY <1>1, <1>2, <1>6, <1>8 DEF IntentPrecedesEffect
<1>18. OutcomeIsHonest'
    BY <1>2, <1>6, <1>8, <1>9 DEF OutcomeIsHonest, EffectOf
<1> QED
    BY <1>13, <1>14, <1>15, <1>16, <1>17, <1>18

LEMMA HandlerDelivery ==
    ASSUME TypeOK, DeliveryInv, HandlerNext, UNCHANGED gatewayVars
    PROVE  DeliveryInv'
PROOF
<1> PICK r \in Clients : Commit(r) \/ Answer(r) \/ Lose(r)
    BY DEF HandlerNext
<1>1. CASE Commit(r)
    BY <1>1, CommitDelivery
<1>2. CASE Answer(r) \/ Lose(r)
  <2>1. /\ requests \in [Gateways -> Requests] /\ r \in Gateways
        /\ \A u \in Workers : workers[u].gateway \in Gateways
    BY DEF TypeOK, ReceiverTypeOK, WorkerStates, Gateways
  <2>2. /\ UNCHANGED <<effects, intent, workers>>
        /\ requests[r].stage \in {"arrived", "committed"}
        /\ requests'[r].stage \in {"answered", "dropped"}
        /\ requests'[r].stage = "answered" => requests[r].stage = "committed"
        /\ requests'[r].session = requests[r].session
        /\ requests'[r].action = requests[r].action
        /\ requests'[r].reply = requests[r].reply
        /\ \A q \in Gateways : q # r => requests'[q] = requests[q]
    BY <1>2, <2>1 DEF Answer, Lose, storeVars, gatewayVars, Requests
  <2> USE DEF DeliveryInv
  <2>3. AdmittedIsReserved'
    BY <2>1, <2>2 DEF AdmittedIsReserved, Engaged
  <2>4. RequestIsReserved'
    BY <2>1, <2>2 DEF RequestIsReserved
  <2>5. EffectFollowsCommit'
    BY <2>1, <2>2 DEF EffectFollowsCommit, EffectOf
  <2>6. OutcomeIsTrue'
    BY <2>1, <2>2 DEF OutcomeIsTrue, EffectOf
  <2>7. IntentPrecedesEffect' /\ OutcomeIsHonest'
    BY <2>2 DEF IntentPrecedesEffect, OutcomeIsHonest
  <2> QED
    BY <2>3, <2>4, <2>5, <2>6, <2>7
<1> QED
    BY <1>1, <1>2

LEMMA DeliveryStep ==
    ASSUME IInv, RecordInv, [Next]_vars
    PROVE  DeliveryInv'
PROOF
<1> USE DEF IInv, RecordInv, ReceiverInv
<1>1. ASSUME NEW w \in Workers, WorkerNext(w) PROVE DeliveryInv'
    BY <1>1, WorkerDelivery
<1>2. ASSUME NEW v \in Revokers, RevokerNext(v) PROVE DeliveryInv'
    BY <1>2, DeliveryQuiet DEF RevokerNext, StopLocally, BeginRemoteRevoke,
        RemoteRevoke, TakeAck, LoseAck, RevokeTimeout, CrashRevoker, Abandon,
        RecordRevocation, receiverVars, gatewayRows
<1>3. CASE AdminNext /\ UNCHANGED gatewayVars
    BY <1>3, DeliveryQuiet DEF AdminNext, Issue, AdminRevoke, Cancel, Advance,
        DropNext, gatewayVars
<1>4. CASE HandlerNext /\ UNCHANGED gatewayVars
    BY <1>4, HandlerDelivery
<1>5. ASSUME NEW c \in Credentials, LateRevoke(c) PROVE DeliveryInv'
    BY <1>5, DeliveryQuiet DEF LateRevoke, gatewayRows
<1>6. CASE UNCHANGED vars
    BY <1>6, DeliveryQuiet DEF vars
<1> QED
    BY <1>1, <1>2, <1>3, <1>4, <1>5, <1>6 DEF Next, EnvironmentNext

-----------------------------------------------------------------------------
\* What the records say of the world: the lock, the stop, the acknowledgment.

LEMMA LockStep ==
    ASSUME TypeOK, LockIsExclusive, [Next]_vars
    PROVE  LockIsExclusive'
PROOF
<1> USE DEF LockIsExclusive, Dispatching, Revoking
<1>0. /\ workers \in [Workers -> WorkerStates]
      /\ revokers \in [Revokers -> RevokerStates]
    BY DEF TypeOK
<1>1. ASSUME NEW w \in Workers, WorkerNext(w) PROVE LockIsExclusive'
  <2>1. /\ UNCHANGED revokers
        /\ \A u \in Workers : u # w => workers'[u] = workers[u]
    BY <1>0, <1>1 DEF WorkerNext, BeginDispatch, Admit, Transmit, TakeReply,
        GiveUp, Record, CrashWorker
  <2>2. \/ workers'[w].phase = "idle"
        \/ workers[w].phase # "idle" /\ workers'[w].gateway = workers[w].gateway
        \/ LockFree(workers'[w].gateway)
    BY <1>0, <1>1 DEF WorkerNext, BeginDispatch, Admit, Transmit, TakeReply,
        GiveUp, Record, CrashWorker, IdleWorker, WorkerStates
  <2> QED
    BY <2>1, <2>2 DEF LockFree
<1>2. ASSUME NEW v \in Revokers, RevokerNext(v) PROVE LockIsExclusive'
  <2>1. /\ UNCHANGED workers
        /\ \A u \in Revokers : u # v => revokers'[u] = revokers[u]
    BY <1>0, <1>2 DEF RevokerNext, StopLocally, BeginRemoteRevoke, RemoteRevoke,
        TakeAck, LoseAck, RevokeTimeout, CrashRevoker, Abandon, RecordRevocation
  <2>2. \/ revokers'[v].phase \in {"idle", "stopping"}
        \/ /\ revokers[v].phase \notin {"idle", "stopping"}
           /\ revokers'[v].gateway = revokers[v].gateway
        \/ LockFree(revokers'[v].gateway)
    BY <1>0, <1>2 DEF RevokerNext, StopLocally, BeginRemoteRevoke, RemoteRevoke,
        TakeAck, LoseAck, RevokeTimeout, CrashRevoker, RecordRevocation,
        IdleRevoker, RevokerStates
  <2> QED
    BY <2>1, <2>2 DEF LockFree
<1>3. CASE EnvironmentNext \/ UNCHANGED vars
    BY <1>3 DEF EnvironmentNext, LateRevoke, gatewayVars, vars
<1> QED
    BY <1>1, <1>2, <1>3 DEF Next

LEMMA StopStep ==
    ASSUME IInv, StopPrecedesRevocation, SessionsGrow, [Next]_vars
    PROVE  StopPrecedesRevocation'
PROOF
<1>0. /\ revokers \in [Revokers -> RevokerStates]
      /\ stopped \in [Gateways -> BOOLEAN]
      /\ revocation \in [Gateways -> {"not_requested", "unknown", "acknowledged"}]
      /\ \A v \in Revokers : revokers[v].gateway \in Gateways
    BY DEF IInv, TypeOK, RevokerStates
<1>1. ASSUME NEW g \in Gateways, Bound[g] # NoSession
      PROVE  sessions'[Bound[g]].credential = BoundCredential(g)
    BY <1>1, BoundCredentialType DEF IInv, SessionsGrow, BoundCredential
<1>2. ASSUME UNCHANGED stopped,
             \A v \in Revokers : revokers'[v] = revokers[v]
                 \/ revokers'[v].phase = "idle"
                 \/ /\ revokers[v].phase # "idle"
                    /\ revokers'[v].gateway = revokers[v].gateway,
             \A c \in lateRevokes' : c \in lateRevokes \/ \E v \in Revokers :
                 /\ revokers[v].phase = "calling"
                 /\ c = BoundCredential(revokers[v].gateway),
             \A g \in Gateways : revocation'[g] = revocation[g]
                 \/ \E v \in Revokers : revokers[v].phase # "idle"
                        /\ g = revokers[v].gateway
      PROVE  StopPrecedesRevocation'
  <2>1. \A v \in Revokers : revokers'[v].phase # "idle" => stopped'[revokers'[v].gateway]
    BY <1>2 DEF StopPrecedesRevocation
  <2>2. \A c \in lateRevokes' : \E g \in Gateways :
            stopped[g] /\ Bound[g] # NoSession /\ BoundCredential(g) = c
    BY <1>0, <1>2 DEF StopPrecedesRevocation, IInv, CallsAreBound
  <2>3. \A c \in lateRevokes' : \E g \in Gateways :
            /\ stopped'[g] /\ Bound[g] # NoSession
            /\ sessions'[Bound[g]].credential = c
    BY <1>1, <1>2, <2>2
  <2>4. \A g \in Gateways : revocation'[g] # "not_requested" => stopped'[g]
    BY <1>2 DEF StopPrecedesRevocation
  <2> QED
    BY <2>1, <2>3, <2>4 DEF StopPrecedesRevocation, BoundCredential
<1>3. ASSUME NEW v \in Revokers, NEW h \in Gateways, StopLocally(v, h)
      PROVE  StopPrecedesRevocation'
  <2>1. /\ revokers'[v].gateway = h
        /\ \A u \in Revokers : u # v => revokers'[u] = revokers[u]
        /\ stopped'[h] /\ \A g \in Gateways : stopped[g] => stopped'[g]
        /\ \A g \in Gateways : g # h => revocation'[g] = revocation[g]
        /\ UNCHANGED lateRevokes
    BY <1>0, <1>3 DEF StopLocally
  <2>2. \A u \in Revokers : revokers'[u].phase # "idle" => stopped'[revokers'[u].gateway]
    BY <1>0, <2>1 DEF StopPrecedesRevocation
  <2>3. \A c \in lateRevokes' : \E g \in Gateways :
            /\ stopped'[g] /\ Bound[g] # NoSession
            /\ sessions'[Bound[g]].credential = c
    BY <1>1, <2>1 DEF StopPrecedesRevocation
  <2>4. \A g \in Gateways : revocation'[g] # "not_requested" => stopped'[g]
    BY <2>1 DEF StopPrecedesRevocation
  <2> QED
    BY <2>2, <2>3, <2>4 DEF StopPrecedesRevocation, BoundCredential
<1>4. ASSUME NEW v \in Revokers, RevokerNext(v), ~\E h \in Gateways : StopLocally(v, h)
      PROVE  StopPrecedesRevocation'
  <2>1. \A c \in lateRevokes' : c \in lateRevokes \/
            (revokers[v].phase = "calling" /\ c = BoundCredential(revokers[v].gateway))
    BY <1>4 DEF RevokerNext, BeginRemoteRevoke, RemoteRevoke, TakeAck, LoseAck,
        RevokeTimeout, CrashRevoker, Abandon, RecordRevocation
  <2>2. /\ UNCHANGED stopped
        /\ revokers[v].phase # "idle"
        /\ \A u \in Revokers : u # v => revokers'[u] = revokers[u]
        /\ revokers'[v].phase = "idle" \/ revokers'[v].gateway = revokers[v].gateway
    BY <1>0, <1>4 DEF RevokerNext, BeginRemoteRevoke, RemoteRevoke, TakeAck,
        LoseAck, RevokeTimeout, CrashRevoker, Abandon, RecordRevocation,
        gatewayRows, IdleRevoker, RevokerStates
  <2>3. \A g \in Gateways : g # revokers[v].gateway => revocation'[g] = revocation[g]
    BY <1>0, <1>4 DEF RevokerNext, BeginRemoteRevoke, RemoteRevoke, TakeAck,
        LoseAck, RevokeTimeout, CrashRevoker, Abandon, RecordRevocation,
        gatewayRows
  <2> QED
    BY <1>2, <2>1, <2>2, <2>3
<1>5. ASSUME UNCHANGED <<stopped, revokers, revocation>>, lateRevokes' \subseteq lateRevokes
      PROVE  StopPrecedesRevocation'
    BY <1>2, <1>5
<1>6. ASSUME NEW w \in Workers, WorkerNext(w) PROVE StopPrecedesRevocation'
    BY <1>5, <1>6 DEF WorkerNext, BeginDispatch, Admit, Transmit, TakeReply, GiveUp,
        Record, CrashWorker, gatewayRows
<1>7. CASE EnvironmentNext \/ UNCHANGED vars
    BY <1>5, <1>7 DEF EnvironmentNext, LateRevoke, gatewayRows, gatewayVars, vars
<1> QED
    BY <1>3, <1>4, <1>6, <1>7 DEF Next

LEMMA DrainedStep ==
    ASSUME TypeOK, LockIsExclusive, StopPrecedesRevocation, AcknowledgedIsDrained,
           [Next]_vars
    PROVE  AcknowledgedIsDrained'
PROOF
<1> USE DEF AcknowledgedIsDrained
<1>0. /\ workers \in [Workers -> WorkerStates]
      /\ revokers \in [Revokers -> RevokerStates]
      /\ revocation \in [Gateways -> {"not_requested", "unknown", "acknowledged"}]
      /\ \A w \in Workers : workers[w].gateway \in Gateways
    BY DEF TypeOK, WorkerStates
<1>1. ASSUME NEW w \in Workers, WorkerNext(w) PROVE AcknowledgedIsDrained'
  <2>1. /\ UNCHANGED revocation
        /\ \A u \in Workers : u # w => workers'[u] = workers[u]
    BY <1>0, <1>1 DEF WorkerNext, BeginDispatch, Admit, Transmit, TakeReply,
        GiveUp, Record, CrashWorker, gatewayRows
  <2>2. \/ workers'[w].phase \in {"idle", "admitting"}
        \/ /\ workers[w].phase \in {"sending", "waiting", "recording"}
           /\ workers'[w].gateway = workers[w].gateway
        \/ /\ ~stopped[workers[w].gateway]
           /\ workers'[w].gateway = workers[w].gateway
    BY <1>0, <1>1 DEF WorkerNext, BeginDispatch, Admit, Admissible, Transmit,
        TakeReply, GiveUp, Record, CrashWorker, IdleWorker, WorkerStates
  <2> QED
    BY <1>0, <2>1, <2>2 DEF StopPrecedesRevocation
<1>2. ASSUME NEW v \in Revokers, RevokerNext(v) PROVE AcknowledgedIsDrained'
  <2>1. UNCHANGED workers
    BY <1>2 DEF RevokerNext, StopLocally, BeginRemoteRevoke, RemoteRevoke, TakeAck,
        LoseAck, RevokeTimeout, CrashRevoker, Abandon, RecordRevocation
  <2>2. \A g \in Gateways : revocation'[g] = "acknowledged" =>
            revocation[g] = "acknowledged" \/ Revoking(v, g)
    BY <1>0, <1>2 DEF RevokerNext, StopLocally, BeginRemoteRevoke, RemoteRevoke,
        TakeAck, LoseAck, RevokeTimeout, CrashRevoker, Abandon,
        RecordRevocation, Revoking, gatewayRows
  <2> QED
    BY <2>1, <2>2 DEF LockIsExclusive, Dispatching
<1>3. CASE EnvironmentNext \/ UNCHANGED vars
    BY <1>3 DEF EnvironmentNext, LateRevoke, gatewayRows, gatewayVars, vars
<1> QED
    BY <1>1, <1>2, <1>3 DEF Next

\* What the records say, with the lock and the requests it rests on, is kept.
THEOREM RecordInvariance == Spec => []RecordInv
PROOF
<1>1. Init => RecordInv
  <2> SUFFICES ASSUME Init PROVE RecordInv
    OBVIOUS
  <2>1. /\ \A w \in Workers : workers[w].phase = "idle"
        /\ \A v \in Revokers : revokers[v].phase = "idle"
        /\ \A g \in Gateways : requests[g].stage = "free"
    BY DEF Init, IdleWorker, IdleRevoker, FreeRequest, Gateways
  <2>2. effects = {} /\ \A g \in Gateways : intent[g] = "none"
    BY DEF Init
  <2>3. DeliveryInv
    BY <2>1, <2>2 DEF DeliveryInv, AdmittedIsReserved, Engaged, RequestIsReserved,
        EffectFollowsCommit, EffectOf, OutcomeIsTrue, IntentPrecedesEffect,
        OutcomeIsHonest
  <2>4. LockIsExclusive
    BY <2>1 DEF LockIsExclusive, Dispatching
  <2>5. StopPrecedesRevocation /\ AcknowledgedIsDrained
    BY <2>1 DEF Init, StopPrecedesRevocation, AcknowledgedIsDrained
  <2> QED
    BY <2>3, <2>4, <2>5 DEF RecordInv
<1>2. IInv /\ IInv' /\ RecordInv /\ [Next]_vars => RecordInv'
  <2> SUFFICES ASSUME IInv, RecordInv, [Next]_vars PROVE RecordInv'
    OBVIOUS
  <2>1. SessionsGrow
    BY StepMoves, MoveKeepsInv DEF IInv, StoreMoves
  <2> QED
    BY <2>1, DeliveryStep, LockStep, StopStep, DrainedStep DEF IInv, RecordInv
<1> QED
    BY <1>1, <1>2, Invariance, PTL DEF Spec

\* The files of a gateway tell the truth after every crash, time-out and lost
\* reply: intents cover effects, outcomes are true, the stop comes before any
\* remote revocation and an acknowledgment after the last dispatch.
THEOREM RecordsHonest == Spec => []RecordsAreHonest
PROOF
<1>1. RecordInv => RecordsAreHonest
    BY DEF RecordInv, DeliveryInv, RecordsAreHonest
<1> QED
    BY <1>1, RecordInvariance, PTL

-----------------------------------------------------------------------------
\* The gateways implement one-shot delivery, step by step.

LEMMA OneShotInitially == Init => OneShot!Init
PROOF
<1> SUFFICES ASSUME Init PROVE OneShot!Init
    OBVIOUS
<1>1. stopped = [g \in Gateways |-> FALSE] /\ effects = {}
    BY DEF Init
<1>2. [g \in Gateways |-> ~stopped[g]] = [g \in Gateways |-> TRUE]
    BY <1>1
<1>3. {e.action : e \in effects} = {}
    BY <1>1
<1> QED
    BY <1>2, <1>3 DEF Init, OneShot!Init

\* Whatever leaves the stops, the intents and the effects alone is not seen.
LEMMA OneShotQuiet ==
    ASSUME UNCHANGED <<stopped, intent, effects>>
    PROVE  UNCHANGED OneShot!deliveryVars
PROOF
    BY DEF OneShot!deliveryVars

LEMMA AdmitReserves ==
    ASSUME TypeOK, NEW w \in Workers, Admit(w)
    PROVE  [OneShot!Next]_OneShot!deliveryVars
PROOF
<1> DEFINE g == workers[w].gateway
           fresh == Admissible(g, workers[w].action) /\ intent[g] = "none"
<1>1. g \in Gateways /\ UNCHANGED <<stopped, effects>>
    BY DEF TypeOK, WorkerStates, Admit, receiverVars
<1>2. CASE ~fresh
  <2>1. UNCHANGED intent
    BY <1>2 DEF Admit
  <2> QED
    BY <1>1, <2>1, OneShotQuiet
<1>3. CASE fresh
  <2>1. /\ intent[g] = "none" /\ ~stopped[g]
        /\ intent' = [intent EXCEPT ![g] = "unknown"]
    BY <1>3 DEF Admit, Admissible
  <2> HIDE DEF g
  <2>2. OneShot!Reserve(g)
    BY <1>1, <2>1 DEF OneShot!Reserve
  <2> QED
    BY <1>1, <2>2 DEF OneShot!Next
<1> QED
    BY <1>2, <1>3

\* A commit, late or not, delivers for a gateway whose outcome is unsettled.
LEMMA CommitDelivers ==
    ASSUME DeliveryInv, NEW r \in Clients, Commit(r), UNCHANGED gatewayVars
    PROVE  [OneShot!Next]_OneShot!deliveryVars
PROOF
<1> DEFINE s == requests[r].session
           a == requests[r].action
<1>1. /\ r \in Gateways /\ requests[r].stage = "arrived"
      /\ RecordEffect(s, a)
      /\ UNCHANGED <<stopped, intent>>
    BY DEF Commit, Gateways, gatewayVars
<1>2. a = Approved[r] /\ intent[r] = "unknown"
    BY <1>1 DEF DeliveryInv, RequestIsReserved
<1>3. CASE UNCHANGED effects
    BY <1>1, <1>3, OneShotQuiet
<1>4. CASE effects' = effects \cup {EffectRow(s, a)}
  <2>1. EffectRow(s, a).action = a
    BY DEF EffectRow
  <2>2. {e.action : e \in effects'} = {e.action : e \in effects} \cup {Approved[r]}
    BY <1>2, <1>4, <2>1
  <2>3. OneShot!Deliver(r)
    BY <1>1, <1>2, <2>2 DEF OneShot!Deliver
  <2> QED
    BY <1>1, <2>3 DEF OneShot!Next
<1> QED
    BY <1>1, <1>3, <1>4 DEF RecordEffect

LEMMA RecordSettles ==
    ASSUME TypeOK, DeliveryInv, NEW w \in Workers, Record(w)
    PROVE  [OneShot!Next]_OneShot!deliveryVars
PROOF
<1> DEFINE g == workers[w].gateway
           status == workers[w].outcome
<1>1. /\ g \in Gateways /\ status \in {"unknown", "observed", "denied"}
      /\ intent \in [Gateways -> {"none", "unknown", "observed", "denied"}]
      /\ intent' = [intent EXCEPT ![g] = status]
      /\ UNCHANGED <<stopped, effects>>
    BY DEF TypeOK, WorkerStates, Record, receiverVars
<1>2. intent[g] = "unknown"
    BY DEF DeliveryInv, AdmittedIsReserved, Record, Engaged
<1>3. status = "observed" => Approved[g] \in {e.action : e \in effects}
    BY DEF DeliveryInv, OutcomeIsTrue, Record
<1> HIDE DEF g, status
<1>4. CASE status = "unknown"
  <2>1. UNCHANGED intent
    BY <1>1, <1>2, <1>4
  <2> QED
    BY <1>1, <2>1, OneShotQuiet
<1>5. CASE status = "observed"
  <2>1. OneShot!SettleObserved(g)
    BY <1>1, <1>2, <1>3, <1>5 DEF OneShot!SettleObserved
  <2> QED
    BY <1>1, <2>1 DEF OneShot!Next
<1>6. CASE status = "denied"
  <2>1. OneShot!SettleDenied(g)
    BY <1>1, <1>2, <1>6 DEF OneShot!SettleDenied
  <2> QED
    BY <1>1, <2>1 DEF OneShot!Next
<1> QED
    BY <1>1, <1>4, <1>5, <1>6

LEMMA StopHalts ==
    ASSUME TypeOK, NEW v \in Revokers, NEW h \in Gateways, StopLocally(v, h)
    PROVE  OneShot!Next
PROOF
<1>1. /\ stopped \in [Gateways -> BOOLEAN]
      /\ stopped' = [stopped EXCEPT ![h] = TRUE]
      /\ UNCHANGED <<intent, effects>>
    BY DEF TypeOK, StopLocally, receiverVars
<1>2. \A g \in Gateways : ~stopped'[g] <=> ~stopped[g] /\ g \notin {h}
    BY <1>1
<1>3. [g \in Gateways |-> ~stopped'[g]] =
          [g \in Gateways |-> [i \in Gateways |-> ~stopped[i]][g] /\ g \notin {h}]
    BY <1>2
<1>4. {h} \in SUBSET Gateways
    OBVIOUS
<1> QED
    BY <1>1, <1>3, <1>4 DEF OneShot!Stop, OneShot!Next

LEMMA StepDelivers ==
    IInv /\ RecordInv /\ [Next]_vars => [OneShot!Next]_OneShot!deliveryVars
PROOF
<1> SUFFICES ASSUME TypeOK, DeliveryInv, [Next]_vars
             PROVE  [OneShot!Next]_OneShot!deliveryVars
    BY DEF IInv, RecordInv
<1>1. ASSUME NEW w \in Workers, WorkerNext(w), ~Admit(w), ~Record(w)
      PROVE  UNCHANGED <<stopped, intent, effects>>
    BY <1>1 DEF WorkerNext, BeginDispatch, Transmit, TakeReply, GiveUp,
        CrashWorker, Submit, Close, storeVars, receiverVars, gatewayRows
<1>2. ASSUME NEW v \in Revokers, RevokerNext(v), ~\E h \in Gateways : StopLocally(v, h)
      PROVE  UNCHANGED <<stopped, intent, effects>>
    BY <1>2 DEF RevokerNext, BeginRemoteRevoke, RemoteRevoke, TakeAck, LoseAck,
        RevokeTimeout, CrashRevoker, Abandon, RecordRevocation, receiverVars,
        gatewayRows
<1>3. ASSUME EnvironmentNext, ~\E r \in Clients : Commit(r) /\ UNCHANGED gatewayVars
      PROVE  UNCHANGED <<stopped, intent, effects>>
    BY <1>3 DEF EnvironmentNext, AdminNext, HandlerNext, Issue, AdminRevoke, Cancel,
        Advance, DropNext, Answer, Lose, LateRevoke, storeVars, gatewayRows,
        gatewayVars
<1>4. CASE UNCHANGED vars
    BY <1>4, OneShotQuiet DEF vars
<1> QED
    BY <1>1, <1>2, <1>3, <1>4, OneShotQuiet, AdmitReserves, RecordSettles,
        StopHalts, CommitDelivers DEF Next

\* Gateway, wire and receiver, with their crashes, timeouts, lost replies and
\* late commits, deliver each approved action at most once and only while its
\* intent is unsettled: every step is one of OneShotDelivery or none at all.
THEOREM OneShotImplemented == Spec => ImplementsOneShot
PROOF
<1>1. Init => OneShot!Init
    BY OneShotInitially
<1>2. IInv /\ RecordInv /\ [Next]_vars => [OneShot!Next]_OneShot!deliveryVars
    BY StepDelivers
<1> QED
    BY <1>1, <1>2, Invariance, RecordInvariance, PTL
    DEF Spec, ImplementsOneShot, OneShot!Spec

=============================================================================
