-------------------------- MODULE ComposedPipeline --------------------------
(***************************************************************************)
(* The composed pipeline of tools/assurance-composed/composition.py and    *)
(* its successor, tools/assurance-composed-successor/successor.py: two     *)
(* routes, each an exact action behind a signal gate and a credential      *)
(* gateway of its own, under one context ledger, one credential and one    *)
(* receiver.  Processes that open the pipeline share its databases and its *)
(* lock.                                                                   *)
(*                                                                         *)
(* A call through the stack is a walk over the stores of the four layers,  *)
(* one transaction at a time.  A layer appears here as far as the others   *)
(* can see it: a signal gate is a mode and the set of open alerts (module  *)
(* SignalGate has the lease, the decisions and the inbox), the context     *)
(* ledger its attempts (ContextGate), the receiver what it delivered and   *)
(* whether the credential is revoked (CredentialReceiver).                 *)
(***************************************************************************)
EXTENDS Naturals, FiniteSets

CONSTANTS
    Successor,   \* TRUE for the successor, FALSE for the frozen pipeline
    Policy,      \* the receiver's: "continuous" or "session_snapshot"
    Routes,      \* route names, which are also the names of their actions
    Budget,      \* attempts the context ledger allows in all
    Dispatchers, \* processes that hold a session and dispatch
    Controllers, \* processes that handle alerts, stop and update
    Faults,      \* which of "crash", "latch" and "timeout" occur
    MaxFaults    \* bound: number of faults

Processes == Dispatchers \cup Controllers

ASSUME PipelineAssumption ==
    /\ Successor \in BOOLEAN
    /\ Policy \in {"continuous", "session_snapshot"}
    /\ Routes # {}
    /\ Budget \in 1 .. 2
    /\ Faults \subseteq {"crash", "latch", "timeout"}
    /\ MaxFaults \in Nat

VARIABLES
    held,         \* pipeline.sqlite, state.held
    mode,         \* each signal gate: "paused", "open" or "stopped"
    alerted,      \* routes with a pending alert
    hostRevoked,  \* routes whose signal gate recorded host_revoked
    attempts,     \* the context ledger's table attempts
    halted,       \* routes whose credential gateway is stopped
    intents,      \* the status of each gateway's intent
    requests,     \* each route's request to the receiver
    credentialRevoked, effects,  \* the receiver's store
    lateRevoke,   \* a revocation nobody waits for may still arrive
    procs,        \* what each process is doing
    faults        \* number of faults so far

signalRows == <<mode, alerted, hostRevoked>>
gatewayRows == <<halted, intents>>
receiverRows == <<requests, credentialRevoked, effects, lateRevoke>>
pipelineVars == <<held, mode, alerted, hostRevoked, attempts, halted, intents,
                  requests, credentialRevoked, effects, lateRevoke, procs, faults>>

-----------------------------------------------------------------------------
Statuses == {"unknown", "observed", "denied", "blocked"}

\* A dispatch reads the routes ("checking"), reserves ("context"), reads the
\* routes again ("guarding"), is admitted by its signal gate ("signal"), waits
\* for its gateway's lock ("locking"), holds it ("sending", "waiting",
\* "recording"), and notes the outcome ("result").
CheckedSteps == {"context", "guarding", "signal", "locking", "sending",
                 "waiting", "recording", "result"}
DispatchSteps == {"checking"} \cup CheckedSteps
SendingSteps == {"sending", "waiting", "recording"}

\* A revocation of one route's host stops the gateway ("halting"), waits for
\* its lock ("draining"), holds it ("calling", "acked", "noting") and reports
\* to the signal gate ("telling").  "walking" is between two routes.
CallingSteps == {"calling", "acked", "noting"}
RevokeSteps == {"walking", "halting", "draining", "telling"} \cup CallingSteps

\* unread and blocked: routes not read yet in this check, and whether a route
\* read so far forbids dispatch.  todo: routes a walk has still to visit; it
\* latches them if stopping and otherwise revokes those that are latched.
\* updating: the walk is the operation of an update.  since: routes that have
\* forbidden dispatch from its first step on (for the properties only).
ProcStates ==
    [step : {"closed", "idle"} \cup DispatchSteps \cup RevokeSteps,
     route : Routes \cup {"none"}, unread : SUBSET Routes, blocked : BOOLEAN,
     status : Statuses, acked : BOOLEAN, todo : SUBSET Routes,
     failed : BOOLEAN, stopping : BOOLEAN, updating : BOOLEAN,
     since : SUBSET Routes]

At(step) ==
    [step |-> step, route |-> "none", unread |-> {},
     blocked |-> FALSE, status |-> "unknown", acked |-> FALSE, todo |-> {},
     failed |-> FALSE, stopping |-> FALSE, updating |-> FALSE, since |-> {}]

\* Types of the stores of all layers and of the processes.
PipelineTypeOK ==
    /\ held \in BOOLEAN
    /\ mode \in [Routes -> {"paused", "open", "stopped"}]
    /\ alerted \subseteq Routes /\ hostRevoked \subseteq Routes
    /\ attempts \in [Routes -> {"none", "unknown", "observed", "blocked"}]
    /\ halted \subseteq Routes
    /\ intents \in [Routes -> {"none", "unknown", "observed", "denied"}]
    /\ requests \in [Routes -> {"none", "inflight", "observed", "denied", "lost"}]
    /\ credentialRevoked \in BOOLEAN /\ effects \subseteq Routes
    /\ lateRevoke \in BOOLEAN
    /\ procs \in [Processes -> ProcStates]
    /\ faults \in 0 .. MaxFaults

-----------------------------------------------------------------------------
Step(p) == procs[p].step
Idle(p) == procs[p].step = "idle"
Goes(p, step) == procs' = [procs EXCEPT ![p].step = step]
Ends(p) == procs' = [procs EXCEPT ![p] = At("idle")]

\* The pipeline's lock, held through a dispatch and through an update.
PipelineFree ==
    \A q \in Processes : Step(q) \notin DispatchSteps /\ ~procs[q].updating

\* Gateway.admission of one route.
GatewayFree(r) ==
    \A q \in Processes :
        procs[q].route = r => Step(q) \notin SendingSteps \cup CallingSteps

\* blocking_routes: latched, or with an alert that is not resolved.
Blocking(r) == mode[r] = "stopped" \/ r \in alerted

Fault(kind) ==
    /\ kind \in Faults
    /\ faults < MaxFaults
    /\ faults' = faults + 1

-----------------------------------------------------------------------------
\* BoundSession.dispatch.

Begin(p, r) ==
    /\ Idle(p)
    /\ PipelineFree
    /\ ~held
    /\ procs' = [procs EXCEPT ![p] = 
            [At(IF Successor THEN "checking" ELSE "context") EXCEPT
                !.route = r, !.unread = IF Successor THEN Routes ELSE {},
                !.since = {x \in Routes : Blocking(x)}]]
    /\ UNCHANGED <<held, signalRows, attempts, gatewayRows, receiverRows, faults>>

\* Whatever a layer below answers, the context session records it.
Answer(p, status) ==
    procs' = [procs EXCEPT ![p].step = "result", ![p].status = status]

\* The session's check comes before the reservation, the port's after it: only
\* the second has an outcome to record.
Reads(p, unread, blocked) ==
    IF unread # {} THEN
        procs' = [procs EXCEPT ![p].unread = unread, ![p].blocked = blocked]
    ELSE IF ~blocked THEN
        procs' = [procs EXCEPT ![p].unread = {},
            ![p].step = IF Step(p) = "checking" THEN "context" ELSE "signal"]
    ELSE IF Step(p) = "checking" THEN Ends(p)
    ELSE Answer(p, "blocked")

\* Mutant: an alert that is not resolved does not forbid dispatch.
ReadRouteLatchedOnly(p, x) ==
    /\ Step(p) \in {"checking", "guarding"}
    /\ x \in procs[p].unread
    /\ Reads(p, procs[p].unread \ {x}, procs[p].blocked \/ mode[x] = "stopped")
    /\ UNCHANGED <<held, signalRows, attempts, gatewayRows, receiverRows, faults>>

\* blocking_routes reads each signal gate in a transaction of its own.
ReadRoute(p, x) ==
    /\ Step(p) \in {"checking", "guarding"}
    /\ x \in procs[p].unread
    /\ Reads(p, procs[p].unread \ {x}, procs[p].blocked \/ Blocking(x))
    /\ UNCHANGED <<held, signalRows, attempts, gatewayRows, receiverRows, faults>>

-----------------------------------------------------------------------------
\* The context session and the port it calls.

Reserved == {r \in Routes : attempts[r] # "none"}

Reserve(p) ==
    LET r == procs[p].route
    IN  /\ Step(p) = "context"
        /\ attempts[r] = "none"
        /\ Cardinality(Reserved) < Budget
        /\ attempts' = [attempts EXCEPT ![r] = "unknown"]
        /\ procs' = [procs EXCEPT ![p].step = IF Successor THEN "guarding" ELSE "signal",
                                  ![p].unread = IF Successor THEN Routes ELSE {}]
        /\ UNCHANGED <<held, signalRows, gatewayRows, receiverRows, faults>>

\* An earlier attempt, the budget, a fact or a revoked grant.
ContextRefuses(p) ==
    /\ Step(p) = "context"
    /\ Ends(p)
    /\ UNCHANGED <<held, signalRows, attempts, gatewayRows, receiverRows, faults>>

\* SignalGate.dispatch, in one transaction.
SignalDecides(p) ==
    LET r == procs[p].route
    IN  /\ Step(p) = "signal"
        /\ IF mode[r] = "open" /\ r \notin alerted
           THEN Goes(p, "locking") ELSE Answer(p, "blocked")
        /\ UNCHANGED <<held, signalRows, attempts, gatewayRows, receiverRows, faults>>

\* CredentialPort.dispatch turns a denial into a block before the context
\* session records it; the record and the release of the lock end the call.
RecordContext(p) ==
    LET r == procs[p].route
    IN  /\ Step(p) = "result"
        /\ attempts' = [attempts EXCEPT ![r] =
                IF procs[p].status = "denied" THEN "blocked" ELSE procs[p].status]
        /\ Ends(p)
        /\ UNCHANGED <<held, signalRows, gatewayRows, receiverRows, faults>>

-----------------------------------------------------------------------------
\* Gateway.dispatch, under the gateway's lock.

GatewayAdmits(p) ==
    LET r == procs[p].route
    IN  /\ Step(p) = "locking"
        /\ GatewayFree(r)
        /\ IF r \in halted
           THEN Answer(p, "blocked") /\ UNCHANGED intents
           ELSE IF intents[r] # "none"
                THEN Answer(p, intents[r]) /\ UNCHANGED intents
                ELSE /\ Goes(p, "sending")
                     /\ intents' = [intents EXCEPT ![r] = "unknown"]
        /\ UNCHANGED <<held, signalRows, attempts, halted, receiverRows, faults>>

Transmit(p) ==
    /\ Step(p) = "sending"
    /\ requests' = [requests EXCEPT ![procs[p].route] = "inflight"]
    /\ Goes(p, "waiting")
    /\ UNCHANGED <<held, signalRows, attempts, gatewayRows, credentialRevoked,
                   effects, lateRevoke, faults>>

TakeReply(p) ==
    LET r == procs[p].route
    IN  /\ Step(p) = "waiting"
        /\ requests[r] \in {"observed", "denied"}
        /\ procs' = [procs EXCEPT ![p].step = "recording",
                                  ![p].status = requests[r]]
        /\ UNCHANGED <<held, signalRows, attempts, gatewayRows, receiverRows, faults>>

\* Mutant: giving up is recorded as a denial.
GiveUpAsDenied(p) ==
    /\ Step(p) \in {"sending", "waiting"}
    /\ procs' = [procs EXCEPT ![p].step = "recording", ![p].status = "denied"]
    /\ UNCHANGED <<held, signalRows, attempts, gatewayRows, receiverRows, faults>>

\* No connection, no answer in time, or one that does not correlate.
GiveUp(p) ==
    /\ Step(p) \in {"sending", "waiting"}
    /\ procs' = [procs EXCEPT ![p].step = "recording", ![p].status = "unknown"]
    /\ UNCHANGED <<held, signalRows, attempts, gatewayRows, receiverRows, faults>>

RecordGateway(p) ==
    /\ Step(p) = "recording"
    /\ intents' = [intents EXCEPT ![procs[p].route] = procs[p].status]
    /\ Answer(p, procs[p].status)
    /\ UNCHANGED <<held, signalRows, attempts, halted, receiverRows, faults>>

-----------------------------------------------------------------------------
\* The receiver.  Both routes use one session of one credential.

Commit(r) ==
    LET denied == credentialRevoked /\ Policy = "continuous"
    IN  /\ requests[r] = "inflight"
        /\ effects' = IF denied THEN effects ELSE effects \cup {r}
        /\ \/ requests' = [requests EXCEPT ![r] =
                    IF denied THEN "denied" ELSE "observed"]
           \/ requests' = [requests EXCEPT ![r] = "lost"]
        /\ UNCHANGED <<held, signalRows, attempts, gatewayRows,
                       credentialRevoked, lateRevoke, procs, faults>>

Lose(r) ==
    /\ requests[r] = "inflight"
    /\ requests' = [requests EXCEPT ![r] = "lost"]
    /\ UNCHANGED <<held, signalRows, attempts, gatewayRows, credentialRevoked,
                   effects, lateRevoke, procs, faults>>

LateRevoke ==
    /\ lateRevoke
    /\ credentialRevoked' = TRUE
    /\ lateRevoke' = FALSE
    /\ UNCHANGED <<held, signalRows, attempts, gatewayRows, requests, effects,
                   procs, faults>>

-----------------------------------------------------------------------------
\* The signal gates: monitor, operator and alerts.

Pause(r) ==
    /\ mode[r] = "open"
    /\ mode' = [mode EXCEPT ![r] = "paused"]
    /\ UNCHANGED <<held, alerted, hostRevoked, attempts, gatewayRows,
                   receiverRows, procs, faults>>

Restart(r) ==
    /\ mode[r] = "paused"
    /\ r \notin alerted
    /\ mode' = [mode EXCEPT ![r] = "open"]
    /\ UNCHANGED <<held, alerted, hostRevoked, attempts, gatewayRows,
                   receiverRows, procs, faults>>

ReceiveAlert(r) ==
    /\ alerted' = alerted \cup {r}
    /\ UNCHANGED <<held, mode, hostRevoked, attempts, gatewayRows, receiverRows,
                   procs, faults>>

ResolveUnrelated(r) ==
    /\ r \in alerted
    /\ alerted' = alerted \ {r}
    /\ procs' = [q \in Processes |-> [procs[q] EXCEPT !.since =
            IF mode[r] = "stopped" THEN @ ELSE @ \ {r}]]
    /\ UNCHANGED <<held, mode, hostRevoked, attempts, gatewayRows, receiverRows,
                   faults>>

\* The alert is this route's: latch, then revoke the host.  When it came from
\* receive, the successor's gate makes sure of the revocation once more.
ResolveStopped(p, r, received) ==
    /\ Idle(p)
    /\ r \in alerted
    /\ alerted' = alerted \ {r}
    /\ mode' = [mode EXCEPT ![r] = "stopped"]
    /\ procs' = [procs EXCEPT ![p] = [At("halting") EXCEPT
            !.route = r, !.todo = IF received /\ Successor THEN {r} ELSE {}]]
    /\ UNCHANGED <<held, hostRevoked, attempts, gatewayRows, receiverRows, faults>>

-----------------------------------------------------------------------------
\* Walks over the routes: Pipeline.stop, provider_error and the constructor.

\* Pipeline.stop visits every route, a transport error one.
Stop(p, asked) ==
    /\ Idle(p)
    /\ procs' = [procs EXCEPT ![p] =
            [At("walking") EXCEPT !.todo = asked, !.stopping = TRUE]]
    /\ UNCHANGED <<held, signalRows, attempts, gatewayRows, receiverRows, faults>>

LatchRoute(p, r) ==
    /\ Step(p) = "walking" /\ procs[p].stopping
    /\ r \in procs[p].todo
    /\ mode' = [mode EXCEPT ![r] = "stopped"]
    /\ procs' = [procs EXCEPT ![p].step = "halting", ![p].route = r,
                              ![p].todo = @ \ {r}]
    /\ UNCHANGED <<held, alerted, hostRevoked, attempts, gatewayRows,
                   receiverRows, faults>>

\* Mutant: the first route that fails ends the stop.
LatchFailsForAll(p, r) ==
    /\ Fault("latch")
    /\ Step(p) = "walking" /\ procs[p].stopping
    /\ r \in procs[p].todo
    /\ procs' = [procs EXCEPT ![p].failed = TRUE, ![p].todo = {}]
    /\ UNCHANGED <<held, signalRows, attempts, gatewayRows, receiverRows>>

\* A busy or broken database.  The frozen stop gives up, the successor's goes
\* on with the other routes and raises at the end.
LatchFails(p, r) ==
    /\ Fault("latch")
    /\ Step(p) = "walking" /\ procs[p].stopping
    /\ r \in procs[p].todo
    /\ procs' = [procs EXCEPT ![p].failed = TRUE,
            ![p].todo = IF Successor THEN @ \ {r} ELSE {}]
    /\ UNCHANGED <<held, signalRows, attempts, gatewayRows, receiverRows>>

\* _ensure_revoked.
EnsureRoute(p, r) ==
    /\ Step(p) = "walking" /\ ~procs[p].stopping
    /\ r \in procs[p].todo
    /\ procs' = [procs EXCEPT ![p].route = r, ![p].todo = @ \ {r},
            ![p].step = IF mode[r] = "stopped" /\ r \notin hostRevoked
                        THEN "halting" ELSE "walking"]
    /\ UNCHANGED <<held, signalRows, attempts, gatewayRows, receiverRows, faults>>

\* The end of the walk.  It completes the update it is the operation of,
\* unless it raised: then the hold stays.
WalkEnds(p) ==
    /\ Step(p) = "walking"
    /\ procs[p].todo = {}
    /\ held' = IF procs[p].updating /\ ~procs[p].failed THEN FALSE ELSE held
    /\ Ends(p)
    /\ UNCHANGED <<signalRows, attempts, gatewayRows, receiverRows, faults>>

-----------------------------------------------------------------------------
\* The host's revoke: CredentialPort.revoke over Gateway.revoke.

HaltGateway(p) ==
    /\ Step(p) = "halting"
    /\ halted' = halted \cup {procs[p].route}
    /\ Goes(p, "draining")
    /\ UNCHANGED <<held, signalRows, attempts, intents, receiverRows, faults>>

CallReceiver(p) ==
    /\ Step(p) = "draining"
    /\ GatewayFree(procs[p].route)
    /\ Goes(p, "calling")
    /\ UNCHANGED <<held, signalRows, attempts, gatewayRows, receiverRows, faults>>

ReceiverRevokes(p) ==
    /\ Step(p) = "calling"
    /\ credentialRevoked' = TRUE
    /\ Goes(p, "acked")
    /\ UNCHANGED <<held, signalRows, attempts, gatewayRows, requests, effects,
                   lateRevoke, faults>>

\* The request may still arrive when its caller has given up or died.
Abandon(p) ==
    lateRevoke' \in {lateRevoke, lateRevoke \/ Step(p) = "calling"}

RevokeTimesOut(p) ==
    /\ Fault("timeout")
    /\ Step(p) \in {"calling", "acked"}
    /\ Abandon(p)
    /\ Goes(p, "noting")
    /\ UNCHANGED <<held, signalRows, attempts, gatewayRows, requests,
                   credentialRevoked, effects>>

\* The gateway notes how it went and releases its lock.
NoteRevocation(p) ==
    /\ Step(p) \in {"acked", "noting"}
    /\ procs' = [procs EXCEPT ![p].step = "telling",
                              ![p].acked = Step(p) = "acked"]
    /\ UNCHANGED <<held, signalRows, attempts, gatewayRows, receiverRows, faults>>

\* Mutant: the port does not look at the gateway's answer.
RecordHostAlways(p) ==
    /\ Step(p) = "telling"
    /\ hostRevoked' = hostRevoked \cup {procs[p].route}
    /\ procs' = [procs EXCEPT ![p].step = "walking", ![p].acked = FALSE]
    /\ UNCHANGED <<held, mode, alerted, attempts, gatewayRows, receiverRows, faults>>

\* The port raises unless the revocation was acknowledged; the signal gate
\* records host_revoked or revocation_unknown.
RecordHost(p) ==
    /\ Step(p) = "telling"
    /\ hostRevoked' = IF procs[p].acked
                      THEN hostRevoked \cup {procs[p].route} ELSE hostRevoked
    /\ procs' = [procs EXCEPT ![p].step = "walking", ![p].acked = FALSE]
    /\ UNCHANGED <<held, mode, alerted, attempts, gatewayRows, receiverRows, faults>>

-----------------------------------------------------------------------------
\* Updates, crashes and reopening.

\* Mutant: an update does not wait for the pipeline's lock.
UpdateUnlocked(p, asked) ==
    /\ Idle(p)
    /\ ~held
    /\ held' = TRUE
    /\ procs' = [procs EXCEPT ![p] = [At("walking") EXCEPT
            !.todo = asked, !.stopping = TRUE, !.updating = TRUE]]
    /\ UNCHANGED <<signalRows, attempts, gatewayRows, receiverRows, faults>>

\* The operation stops the routes asked, or changes what is not seen here.
Update(p, asked) ==
    /\ Idle(p)
    /\ PipelineFree
    /\ ~held
    /\ held' = TRUE
    /\ procs' = [procs EXCEPT ![p] = [At("walking") EXCEPT
            !.todo = asked, !.stopping = TRUE, !.updating = TRUE]]
    /\ UNCHANGED <<signalRows, attempts, gatewayRows, receiverRows, faults>>

Crash(p) ==
    /\ Fault("crash")
    /\ Step(p) # "closed"
    /\ Abandon(p)
    /\ procs' = [procs EXCEPT ![p] = At("closed")]
    /\ UNCHANGED <<held, signalRows, attempts, gatewayRows, requests,
                   credentialRevoked, effects>>

\* Mutant: opening the pipeline does not drive revocations again.
OpenQuietly(p) ==
    /\ Step(p) = "closed"
    /\ Ends(p)
    /\ UNCHANGED <<held, signalRows, attempts, gatewayRows, receiverRows, faults>>

Open(p) ==
    /\ Step(p) = "closed"
    /\ procs' = [procs EXCEPT ![p] = [At("walking") EXCEPT
            !.todo = IF Successor THEN Routes ELSE {}]]
    /\ UNCHANGED <<held, signalRows, attempts, gatewayRows, receiverRows, faults>>

-----------------------------------------------------------------------------
Init ==
    /\ held = FALSE
    /\ mode = [r \in Routes |-> "paused"]
    /\ alerted = {} /\ hostRevoked = {}
    /\ attempts = [r \in Routes |-> "none"]
    /\ halted = {}
    /\ intents = [r \in Routes |-> "none"]
    /\ requests = [r \in Routes |-> "none"]
    /\ credentialRevoked = FALSE /\ effects = {} /\ lateRevoke = FALSE
    /\ procs = [p \in Processes |-> At("idle")]
    /\ faults = 0

DispatchContinues(p) ==
    \/ \E x \in Routes : ReadRoute(p, x)
    \/ Reserve(p)
    \/ ContextRefuses(p)
    \/ SignalDecides(p)
    \/ GatewayAdmits(p)
    \/ Transmit(p)
    \/ TakeReply(p)
    \/ GiveUp(p)
    \/ RecordGateway(p)
    \/ RecordContext(p)

StopContinues(p) ==
    \/ \E r \in Routes : LatchRoute(p, r) \/ EnsureRoute(p, r)
    \/ HaltGateway(p)
    \/ CallReceiver(p)
    \/ ReceiverRevokes(p)
    \/ NoteRevocation(p)
    \/ RecordHost(p)
    \/ WalkEnds(p)
    \/ Open(p)

ControlBegins(p) ==
    \/ \E asked \in {{r} : r \in Routes} \cup {Routes} : Stop(p, asked)
    \/ \E r \in Routes, received \in BOOLEAN : ResolveStopped(p, r, received)
    \/ \E asked \in {{}, Routes} : Update(p, asked)

Faulty(p) ==
    \/ \E r \in Routes : LatchFails(p, r)
    \/ RevokeTimesOut(p)
    \/ Crash(p)

Environment ==
    \/ \E r \in Routes :
        \/ Commit(r) \/ Lose(r)
        \/ Pause(r) \/ Restart(r) \/ ReceiveAlert(r) \/ ResolveUnrelated(r)
    \/ LateRevoke

Next ==
    \/ \E p \in Processes : DispatchContinues(p) \/ StopContinues(p) \/ Faulty(p)
    \/ \E p \in Dispatchers, r \in Routes : Begin(p, r)
    \/ \E p \in Controllers : ControlBegins(p)
    \/ Environment

Spec == Init /\ [][Next]_pipelineVars

-----------------------------------------------------------------------------
\* Properties.

\* The budget counts attempts over the routes together: never more requests
\* than the budget leave the pipeline, whoever dispatches, dies and reopens.
BudgetSpansRoutes ==
    Cardinality({r \in Routes : requests[r] # "none"}) <= Budget

\* The stores of the layers agree from the top down, although each is written
\* in a transaction of its own with crashes between them: no intent without an
\* attempt, no effect without an intent, and an attempt that is settled either
\* way is settled rightly and for ever.
LayersAgree ==
    \A r \in Routes :
        /\ intents[r] # "none" => attempts[r] # "none"
        /\ r \in effects => intents[r] \in {"unknown", "observed"}
        /\ attempts[r] = "observed" => r \in effects
        /\ attempts[r] = "blocked" => r \notin effects /\ requests[r] # "inflight"

\* The stores tell one story of the requests that left the pipeline.
StoresAgree == PipelineTypeOK /\ BudgetSpansRoutes /\ LayersAgree

\* A dispatch that starts while some route is latched, or has an alert open
\* that stays open, does not get as far as any signal gate: the shared
\* credential is not used through the sibling.
BlockingRouteHoldsAll ==
    Successor =>
        \A p \in Processes :
            Step(p) \in {"signal", "locking"} \cup SendingSteps => procs[p].since = {}

\* No dispatch is past its check of the hold while an update runs, nor after
\* one that raised or died: its partial effects are never dispatched upon.
HoldExcludesDispatch ==
    held => \A p \in Processes : Step(p) \notin DispatchSteps

\* Under the continuous policy the host_revoked event of one route is the end
\* of both: nothing that is on its way takes effect any more.
RecordedRevocationIsFinal ==
    [][Policy = "continuous" /\ hostRevoked # {} => effects' = effects]_pipelineVars

\* A dispatch, a stop or a reopening once begun goes on: the operating system
\* schedules the process, and every call of the receiver has a time-out.
FairSpec ==
    Spec /\ \A p \in Processes :
                WF_pipelineVars(DispatchContinues(p) \/ StopContinues(p))

\* A process that died with a route latched, on its way to the receiver or
\* before, is followed by the revocation of the credential: whoever opens the
\* pipeline again drives it.
LatchReachesReceiver ==
    (\E p \in Processes : Step(p) = "closed" /\ \E r \in Routes : mode[r] = "stopped")
        ~> credentialRevoked

\* A stop of all routes revokes the credential even though a route's latch
\* fails, unless its process dies.
StopReachesReceiver ==
    (\E p \in Processes : Step(p) = "walking" /\ procs[p].todo = Routes
                          /\ procs[p].stopping)
        ~> (credentialRevoked \/ \E p \in Processes : Step(p) = "closed")

=============================================================================
