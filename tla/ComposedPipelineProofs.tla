------------------------ MODULE ComposedPipelineProofs ------------------------
(***************************************************************************)
(* Safety of the composed pipeline, frozen and successor, for every set of *)
(* routes and processes and under either policy of the receiver.           *)
(***************************************************************************)
EXTENDS ComposedPipeline, FiniteSetTheorems, TLAPS

-----------------------------------------------------------------------------
\* The inductive invariant.

\* A process inside a call or a revocation has a route; no gateway is asked to
\* record a block.
RoutesAreKnown ==
    \A p \in Processes :
        /\ Step(p) \in DispatchSteps => procs[p].route \in Routes
        /\ Step(p) \in {"halting", "draining", "telling"} \cup CallingSteps
            => procs[p].route \in Routes
        /\ Step(p) = "recording" => procs[p].status # "blocked"

\* The pipeline's lock: one dispatch at a time and none beside an update, which
\* holds the pipeline from its first step to its last.
LockIsExclusive ==
    /\ \A p, q \in Processes :
        Step(p) \in DispatchSteps /\ Step(q) \in DispatchSteps => p = q
    /\ \A p \in Processes : procs[p].updating =>
        /\ held
        /\ \A q \in Processes : procs[q].updating => q = p
    /\ HoldExcludesDispatch

\* The stores of one route, from the receiver's up to the context ledger.
StoresInLine ==
    \A r \in Routes :
        /\ intents[r] # "none" => attempts[r] # "none"
        /\ requests[r] # "none" => intents[r] # "none"
        /\ r \in effects => requests[r] \in {"observed", "lost"}
        /\ requests[r] = "observed" => r \in effects
        /\ intents[r] = "denied" => requests[r] = "denied"
        /\ attempts[r] = "observed" => r \in effects
        /\ attempts[r] = "blocked" => requests[r] \in {"none", "denied"}

\* What a dispatch under way has written so far, and that the status it carries
\* up is what its request has come to.
CallInLine(p) ==
    LET r == procs[p].route
    IN  /\ Step(p) \in {"guarding", "signal", "locking", "result"} \cup SendingSteps
            => attempts[r] = "unknown"
        /\ Step(p) \in {"guarding", "signal", "locking"} => intents[r] = "none"
        /\ Step(p) \in SendingSteps => intents[r] = "unknown"
        /\ Step(p) = "sending" => requests[r] = "none"
        /\ Step(p) \in {"recording", "result"} =>
            /\ procs[p].status \in {"observed", "denied"} =>
                    requests[r] = procs[p].status
            /\ procs[p].status = "blocked" => requests[r] = "none"

CallsInLine == \A p \in Processes : CallInLine(p)

ReservedWithin == IsFiniteSet(Reserved) /\ Cardinality(Reserved) <= Budget

\* The routes that forbid a dispatch from its start are still forbidding, and
\* the successor's first check has read none of them without noticing.
ChecksSeeBlocking ==
    Successor => \A p \in Processes :
        /\ \A x \in procs[p].since : Blocking(x)
        /\ Step(p) = "checking" =>
            procs[p].blocked \/ procs[p].since \subseteq procs[p].unread
        /\ Step(p) \in CheckedSteps => procs[p].since = {}

\* An acknowledgment, on its way up or recorded, is of a revoked credential.
AcksAreTrue ==
    credentialRevoked \/
        /\ hostRevoked = {}
        /\ \A p \in Processes : Step(p) # "acked" /\ ~procs[p].acked

IInv ==
    /\ PipelineTypeOK
    /\ RoutesAreKnown
    /\ LockIsExclusive
    /\ StoresInLine
    /\ CallsInLine
    /\ ReservedWithin
    /\ ChecksSeeBlocking
    /\ AcksAreTrue

-----------------------------------------------------------------------------
\* Types.

Steps == {"closed", "idle"} \cup DispatchSteps \cup RevokeSteps

LEMMA AtTyped ==
    ASSUME NEW step \in Steps
    PROVE  /\ At(step) \in ProcStates
           /\ At(step).step = step
           /\ ~At(step).updating /\ ~At(step).acked
           /\ At(step).since = {}
PROOF
    BY DEF At, ProcStates, Steps, Statuses

\* Every step of a process p replaces the record of p by one of these.
Moves(p, s) == s \in ProcStates /\ procs' = [procs EXCEPT ![p] = s]

\* A step of a dispatch is the step of the process that holds the pipeline's
\* lock, and touches neither the hold nor the signal gates.
DispatchMove(p, s) ==
    /\ Moves(p, s)
    /\ Step(p) \in DispatchSteps
    /\ s.step \in {"idle"} \cup CheckedSteps \/ s.step = Step(p)
    /\ s.step \in DispatchSteps => s.route = procs[p].route
    /\ s.step = "recording" => s.status # "blocked"
    /\ s.updating => procs[p].updating
    /\ s.acked => procs[p].acked
    /\ s.since \subseteq procs[p].since
    /\ UNCHANGED <<held, signalRows, credentialRevoked, effects>>

LEMMA DispatchMoves ==
    ASSUME PipelineTypeOK, RoutesAreKnown, NEW p \in Processes,
           DispatchContinues(p)
    PROVE  \E s \in ProcStates : DispatchMove(p, s)
PROOF
<1>1. procs \in [Processes -> ProcStates] /\ procs[p] \in ProcStates
    BY DEF PipelineTypeOK
<1>2. /\ Step(p) \in DispatchSteps
      /\ UNCHANGED <<held, signalRows, credentialRevoked, effects>>
    BY DEF DispatchContinues, ReadRoute, Reserve, ContextRefuses, SignalDecides,
        GatewayAdmits, Transmit, TakeReply, GiveUp, RecordGateway, RecordContext,
        receiverRows, DispatchSteps, CheckedSteps
<1>3. ASSUME Ends(p) PROVE \E s \in ProcStates : DispatchMove(p, s)
  <2>1. /\ At("idle") \in ProcStates /\ At("idle").step = "idle"
        /\ ~At("idle").updating /\ ~At("idle").acked /\ At("idle").since = {}
    BY AtTyped DEF Steps
  <2> QED
    BY <1>2, <1>3, <2>1 DEF Ends, DispatchMove, Moves, DispatchSteps, CheckedSteps
<1>4. ASSUME NEW step \in CheckedSteps, step # "recording",
             NEW unread \in SUBSET Routes,
             \/ Goes(p, step)
             \/ procs' = [procs EXCEPT ![p].step = step, ![p].unread = unread]
             \/ procs' = [procs EXCEPT ![p].unread = unread, ![p].step = step]
      PROVE  \E s \in ProcStates : DispatchMove(p, s)
  <2> DEFINE s == [procs[p] EXCEPT !.step = step]
             t == [procs[p] EXCEPT !.step = step, !.unread = unread]
             u == [procs[p] EXCEPT !.unread = unread, !.step = step]
             fits(x) ==
                /\ x \in ProcStates /\ x.step = step /\ x.route = procs[p].route
                /\ x.updating = procs[p].updating /\ x.acked = procs[p].acked
                /\ x.since = procs[p].since
  <2>1. fits(s)
    BY <1>1 DEF ProcStates, DispatchSteps
  <2>2. fits(t)
    BY <1>1 DEF ProcStates, DispatchSteps
  <2>3. fits(u)
    BY <1>1 DEF ProcStates, DispatchSteps
  <2>4. \/ procs' = [procs EXCEPT ![p] = s]
        \/ procs' = [procs EXCEPT ![p] = t]
        \/ procs' = [procs EXCEPT ![p] = u]
    BY <1>1, <1>4 DEF Goes
  <2> HIDE DEF s, t, u
  <2> QED
    BY <1>2, <1>4, <2>1, <2>2, <2>3, <2>4 DEF DispatchMove, Moves, DispatchSteps
<1>5. ASSUME NEW status \in Statuses, NEW step \in {"recording", "result"},
             step = "recording" => status # "blocked",
             procs' = [procs EXCEPT ![p].step = step, ![p].status = status]
      PROVE  \E s \in ProcStates : DispatchMove(p, s)
  <2> DEFINE s == [procs[p] EXCEPT !.step = step, !.status = status]
  <2>1. /\ s \in ProcStates /\ s.step = step /\ s.route = procs[p].route
        /\ s.status = status
        /\ s.updating = procs[p].updating /\ s.acked = procs[p].acked
        /\ s.since = procs[p].since
    BY <1>1 DEF ProcStates, DispatchSteps, CheckedSteps
  <2>2. procs' = [procs EXCEPT ![p] = s]
    BY <1>5
  <2> HIDE DEF s
  <2> QED
    BY <1>2, <1>5, <2>1, <2>2 DEF DispatchMove, Moves, CheckedSteps
<1>6. ASSUME NEW x \in Routes, ReadRoute(p, x)
      PROVE  \E s \in ProcStates : DispatchMove(p, s)
  <2> DEFINE unread == procs[p].unread \ {x}
             blocked == procs[p].blocked \/ Blocking(x)
             s == [procs[p] EXCEPT !.unread = unread, !.blocked = blocked]
  <2>1. unread \in SUBSET Routes /\ blocked \in BOOLEAN
    BY <1>1 DEF ProcStates, Blocking
  <2>2. Reads(p, unread, blocked) /\ Step(p) # "recording"
    BY <1>6 DEF ReadRoute
  <2> HIDE DEF unread, blocked
  <2>3. /\ s \in ProcStates /\ s.step = Step(p) /\ s.route = procs[p].route
        /\ s.updating = procs[p].updating /\ s.acked = procs[p].acked
        /\ s.since = procs[p].since
    BY <1>1, <2>1 DEF ProcStates, Step
  <2>4. CASE unread # {}
    <3>1. procs' = [procs EXCEPT ![p] = s]
      BY <1>1, <2>2, <2>4 DEF Reads
    <3> HIDE DEF s
    <3> QED
      BY <1>2, <2>2, <2>3, <3>1 DEF DispatchMove, Moves
  <2>5. CASE unread = {} /\ ~blocked
    <3>1. PICK step \in {"context", "signal"} :
              procs' = [procs EXCEPT ![p].unread = {}, ![p].step = step]
      BY <2>2, <2>5 DEF Reads
    <3> QED
      BY <1>4, <3>1, {} \in SUBSET Routes DEF CheckedSteps
  <2>6. CASE unread = {} /\ blocked
    BY <1>3, <1>5, <2>2, <2>6 DEF Reads, Answer, Statuses
  <2> QED
    BY <2>4, <2>5, <2>6
<1>7. CASE Reserve(p)
  <2>1. PICK step \in {"guarding", "signal"}, unread \in SUBSET Routes :
            procs' = [procs EXCEPT ![p].step = step, ![p].unread = unread]
    BY <1>7 DEF Reserve
  <2> QED
    BY <1>4, <2>1 DEF CheckedSteps
<1>8. CASE ContextRefuses(p) \/ RecordContext(p)
    BY <1>3, <1>8 DEF ContextRefuses, RecordContext
<1>9. CASE SignalDecides(p) \/ Transmit(p)
    BY <1>4, <1>5, <1>9 DEF SignalDecides, Transmit, Answer, Statuses, CheckedSteps
<1>10. CASE GatewayAdmits(p)
  <2>1. procs[p].route \in Routes
    BY <1>10 DEF RoutesAreKnown, GatewayAdmits, DispatchSteps, CheckedSteps
  <2>2. intents[procs[p].route] # "none" => intents[procs[p].route] \in Statuses
    BY <2>1 DEF PipelineTypeOK, Statuses
  <2> QED
    BY <1>4, <1>5, <1>10, <2>2 DEF GatewayAdmits, Answer, Statuses, CheckedSteps
<1>11. CASE TakeReply(p)
  <2>1. requests[procs[p].route] \in Statuses \ {"blocked"}
    BY <1>11 DEF TakeReply, Statuses
  <2> QED
    BY <1>5, <1>11, <2>1 DEF TakeReply
<1>12. CASE GiveUp(p)
    BY <1>5, <1>12 DEF GiveUp, Statuses
<1>13. CASE RecordGateway(p)
  <2>1. procs[p].status \in Statuses
    BY <1>1 DEF ProcStates
  <2> QED
    BY <1>5, <1>13, <2>1 DEF RecordGateway, Answer
<1> QED
    BY <1>6, <1>7, <1>8, <1>9, <1>10, <1>11, <1>12, <1>13 DEF DispatchContinues

\* A process that stops, updates, crashes or opens is in no dispatch
\* afterwards; it leaves the calls alone and blocks more routes, never fewer.
ControlMove(p, s) ==
    /\ Moves(p, s)
    /\ s.step \in {"closed", "idle"} \cup RevokeSteps
    /\ s.step \in {"halting", "draining", "telling"} \cup CallingSteps
            => s.route \in Routes
    /\ s.since \subseteq procs[p].since
    /\ \/ held' = held /\ (s.updating => procs[p].updating)
       \/ held' /\ PipelineFree
       \/ procs[p].updating /\ ~s.updating
    /\ UNCHANGED <<attempts, intents, requests, effects>>
    /\ \A x \in Routes : Blocking(x) => Blocking(x)'

LEMMA StopMoves ==
    ASSUME PipelineTypeOK, RoutesAreKnown, NEW p \in Processes, StopContinues(p)
    PROVE  \E s \in ProcStates : ControlMove(p, s)
PROOF
<1>1. procs \in [Processes -> ProcStates] /\ procs[p] \in ProcStates
    BY DEF PipelineTypeOK
<1>2. At("idle") \in ProcStates /\ At("idle").step = "idle"
          /\ ~At("idle").updating /\ At("idle").since = {}
    BY AtTyped DEF Steps
<1>3. ASSUME NEW r \in Routes, LatchRoute(p, r)
      PROVE  \E s \in ProcStates : ControlMove(p, s)
  <2> DEFINE s == [procs[p] EXCEPT !.step = "halting", !.route = r,
                                   !.todo = @ \ {r}]
  <2>1. s \in ProcStates /\ procs' = [procs EXCEPT ![p] = s]
    BY <1>1, <1>3 DEF LatchRoute, ProcStates, RevokeSteps
  <2>2. /\ s.step = "halting" /\ s.route = r /\ s.since = procs[p].since
        /\ s.updating = procs[p].updating
    BY <1>1 DEF ProcStates
  <2>3. \A x \in Routes : Blocking(x) => Blocking(x)'
    BY <1>3 DEF LatchRoute, Blocking, PipelineTypeOK
  <2>4. UNCHANGED <<held, attempts, intents, requests, effects>>
    BY <1>3 DEF LatchRoute, gatewayRows, receiverRows
  <2> HIDE DEF s
  <2> QED
    BY <2>1, <2>2, <2>3, <2>4 DEF ControlMove, Moves, RevokeSteps
<1>4. ASSUME NEW r \in Routes, EnsureRoute(p, r)
      PROVE  \E s \in ProcStates : ControlMove(p, s)
  <2>1. PICK step \in {"halting", "walking"} :
            procs' = [procs EXCEPT ![p].route = r, ![p].todo = @ \ {r},
                                   ![p].step = step]
    BY <1>4 DEF EnsureRoute
  <2> DEFINE s == [procs[p] EXCEPT !.route = r, !.todo = @ \ {r}, !.step = step]
  <2>2. s \in ProcStates /\ procs' = [procs EXCEPT ![p] = s]
    BY <1>1, <2>1 DEF ProcStates, RevokeSteps
  <2>3. /\ s.step = step /\ s.route = r /\ s.since = procs[p].since
        /\ s.updating = procs[p].updating
    BY <1>1 DEF ProcStates
  <2>4. UNCHANGED <<held, mode, alerted, attempts, intents, requests, effects>>
    BY <1>4 DEF EnsureRoute, signalRows, gatewayRows, receiverRows
  <2> HIDE DEF s
  <2> QED
    BY <2>2, <2>3, <2>4 DEF ControlMove, Moves, Blocking, RevokeSteps
<1>5. ASSUME NEW step \in RevokeSteps, NEW acked \in BOOLEAN,
             \/ procs' = [procs EXCEPT ![p].step = step]
             \/ procs' = [procs EXCEPT ![p].step = step, ![p].acked = acked],
             step = "walking" \/ procs[p].route \in Routes,
             UNCHANGED <<held, mode, alerted, attempts, intents, requests, effects>>
      PROVE  \E s \in ProcStates : ControlMove(p, s)
  <2>1. PICK a \in BOOLEAN :
            procs' = [procs EXCEPT ![p] = [procs[p] EXCEPT !.step = step, !.acked = a]]
    <3>1. [procs[p] EXCEPT !.step = step] =
              [procs[p] EXCEPT !.step = step, !.acked = procs[p].acked]
      BY <1>1 DEF ProcStates
    <3>2. procs[p].acked \in BOOLEAN
      BY <1>1 DEF ProcStates
    <3> QED
      BY <1>5, <3>1, <3>2
  <2> DEFINE s == [procs[p] EXCEPT !.step = step, !.acked = a]
  <2>2. s \in ProcStates /\ procs' = [procs EXCEPT ![p] = s]
    BY <1>1, <2>1 DEF ProcStates
  <2>3. /\ s.step = step /\ s.route = procs[p].route /\ s.since = procs[p].since
        /\ s.updating = procs[p].updating
    BY <1>1 DEF ProcStates
  <2> HIDE DEF s
  <2> QED
    BY <1>5, <2>2, <2>3
    DEF ControlMove, Moves, Blocking, CallingSteps
<1>6. CASE HaltGateway(p) \/ CallReceiver(p) \/ ReceiverRevokes(p)
  <2>1. procs[p].route \in Routes
    BY <1>6 DEF RoutesAreKnown, HaltGateway, CallReceiver, ReceiverRevokes,
        CallingSteps
  <2>2. PICK step \in {"draining", "calling", "acked"} : Goes(p, step)
    BY <1>6 DEF HaltGateway, CallReceiver, ReceiverRevokes
  <2>3. UNCHANGED <<held, mode, alerted, attempts, intents, requests, effects>>
    BY <1>6 DEF HaltGateway, CallReceiver, ReceiverRevokes, signalRows,
        gatewayRows, receiverRows
  <2> QED
    BY <1>5, <2>1, <2>2, <2>3 DEF Goes, RevokeSteps, CallingSteps
<1>7. CASE NoteRevocation(p) \/ RecordHost(p)
  <2>1. procs[p].route \in Routes
    BY <1>7 DEF RoutesAreKnown, NoteRevocation, RecordHost, CallingSteps
  <2>2. PICK step \in {"telling", "walking"}, acked \in BOOLEAN :
            procs' = [procs EXCEPT ![p].step = step, ![p].acked = acked]
    BY <1>7 DEF NoteRevocation, RecordHost
  <2>3. UNCHANGED <<held, mode, alerted, attempts, intents, requests, effects>>
    BY <1>7 DEF NoteRevocation, RecordHost, signalRows, gatewayRows, receiverRows
  <2> QED
    BY <1>5, <2>1, <2>2, <2>3 DEF RevokeSteps, CallingSteps
<1>8. CASE WalkEnds(p)
  <2>1. UNCHANGED <<mode, alerted, attempts, intents, requests, effects>>
    BY <1>8 DEF WalkEnds, signalRows, gatewayRows, receiverRows
  <2>2. \/ held' = held
        \/ procs[p].updating
    BY <1>8 DEF WalkEnds
  <2>3. procs' = [procs EXCEPT ![p] = At("idle")]
    BY <1>8 DEF WalkEnds, Ends
  <2> QED
    BY <1>2, <2>1, <2>2, <2>3 DEF ControlMove, Moves, Blocking, RevokeSteps,
        CallingSteps
<1>9. CASE Open(p)
  <2>1. PICK todo \in SUBSET Routes :
            procs' = [procs EXCEPT ![p] = [At("walking") EXCEPT !.todo = todo]]
    BY <1>9 DEF Open
  <2> DEFINE s == [At("walking") EXCEPT !.todo = todo]
  <2>2. /\ s \in ProcStates /\ s.step = "walking" /\ ~s.updating
        /\ s.since = {}
        /\ procs' = [procs EXCEPT ![p] = s]
    BY <2>1 DEF At, ProcStates, RevokeSteps, Statuses
  <2>3. UNCHANGED <<held, mode, alerted, attempts, intents, requests, effects>>
    BY <1>9 DEF Open, signalRows, gatewayRows, receiverRows
  <2> HIDE DEF s
  <2> QED
    BY <2>2, <2>3 DEF ControlMove, Moves, Blocking, RevokeSteps, CallingSteps
<1> QED
    BY <1>3, <1>4, <1>6, <1>7, <1>8, <1>9 DEF StopContinues

LEMMA BeginMoves ==
    ASSUME PipelineTypeOK, NEW p \in Processes, ControlBegins(p)
    PROVE  \E s \in ProcStates : ControlMove(p, s)
PROOF
<1>1. ASSUME NEW asked \in SUBSET Routes, Stop(p, asked) \/ Update(p, asked)
      PROVE  \E s \in ProcStates : ControlMove(p, s)
  <2> DEFINE walk == [At("walking") EXCEPT !.todo = asked, !.stopping = TRUE]
             update == [At("walking") EXCEPT !.todo = asked, !.stopping = TRUE,
                                             !.updating = TRUE]
  <2>1. /\ walk \in ProcStates /\ walk.step = "walking" /\ walk.since = {}
        /\ ~walk.updating
        /\ update \in ProcStates /\ update.step = "walking" /\ update.since = {}
    BY DEF At, ProcStates, RevokeSteps, Statuses
  <2>2. UNCHANGED <<mode, alerted, attempts, intents, requests, effects>>
    BY <1>1 DEF Stop, Update, signalRows, gatewayRows, receiverRows
  <2>3. Stop(p, asked) => procs' = [procs EXCEPT ![p] = walk] /\ held' = held
    BY DEF Stop
  <2>4. Update(p, asked) =>
            procs' = [procs EXCEPT ![p] = update] /\ held' /\ PipelineFree
    BY DEF Update
  <2> HIDE DEF walk, update
  <2> QED
    BY <1>1, <2>1, <2>2, <2>3, <2>4
    DEF ControlMove, Moves, Blocking, RevokeSteps, CallingSteps
<1>2. ASSUME NEW r \in Routes, NEW received \in BOOLEAN,
             ResolveStopped(p, r, received)
      PROVE  \E s \in ProcStates : ControlMove(p, s)
  <2>1. PICK todo \in SUBSET Routes :
            procs' = [procs EXCEPT ![p] =
                [At("halting") EXCEPT !.route = r, !.todo = todo]]
    BY <1>2 DEF ResolveStopped
  <2> DEFINE s == [At("halting") EXCEPT !.route = r, !.todo = todo]
  <2>2. /\ s \in ProcStates /\ s.step = "halting" /\ s.route = r
        /\ s.since = {} /\ ~s.updating
        /\ procs' = [procs EXCEPT ![p] = s]
    BY <2>1 DEF At, ProcStates, RevokeSteps, Statuses
  <2>3. UNCHANGED <<held, attempts, intents, requests, effects>>
    BY <1>2 DEF ResolveStopped, gatewayRows, receiverRows
  <2>4. \A x \in Routes : Blocking(x) => Blocking(x)'
    BY <1>2 DEF ResolveStopped, Blocking, PipelineTypeOK
  <2> HIDE DEF s
  <2> QED
    BY <2>2, <2>3, <2>4 DEF ControlMove, Moves, RevokeSteps, CallingSteps
<1> QED
    BY <1>1, <1>2 DEF ControlBegins

LEMMA FaultMoves ==
    ASSUME PipelineTypeOK, RoutesAreKnown, NEW p \in Processes, Faulty(p)
    PROVE  \E s \in ProcStates : ControlMove(p, s)
PROOF
<1>1. procs \in [Processes -> ProcStates] /\ procs[p] \in ProcStates
    BY DEF PipelineTypeOK
<1>2. UNCHANGED <<held, mode, alerted, attempts, intents, requests, effects>>
    BY DEF Faulty, LatchFails, RevokeTimesOut, Crash, signalRows, gatewayRows,
        receiverRows
<1>3. ASSUME NEW r \in Routes, LatchFails(p, r)
      PROVE  \E s \in ProcStates : ControlMove(p, s)
  <2>1. PICK todo \in SUBSET Routes :
            procs' = [procs EXCEPT ![p].failed = TRUE, ![p].todo = todo]
    BY <1>1, <1>3 DEF LatchFails, ProcStates
  <2> DEFINE s == [procs[p] EXCEPT !.failed = TRUE, !.todo = todo]
  <2>2. /\ s \in ProcStates /\ procs' = [procs EXCEPT ![p] = s]
        /\ s.step = "walking" /\ s.since = procs[p].since
        /\ s.updating = procs[p].updating
    BY <1>1, <1>3, <2>1 DEF LatchFails, ProcStates
  <2> HIDE DEF s
  <2> QED
    BY <1>2, <2>2 DEF ControlMove, Moves, Blocking, RevokeSteps, CallingSteps
<1>4. CASE RevokeTimesOut(p)
  <2> DEFINE s == [procs[p] EXCEPT !.step = "noting"]
  <2>1. procs[p].route \in Routes
    BY <1>4 DEF RevokeTimesOut, RoutesAreKnown, CallingSteps
  <2>2. /\ s \in ProcStates /\ procs' = [procs EXCEPT ![p] = s]
        /\ s.step = "noting" /\ s.since = procs[p].since
        /\ s.route = procs[p].route /\ s.updating = procs[p].updating
    BY <1>1, <1>4 DEF RevokeTimesOut, Goes, ProcStates, RevokeSteps, CallingSteps
  <2> HIDE DEF s
  <2> QED
    BY <1>2, <2>1, <2>2 DEF ControlMove, Moves, Blocking, RevokeSteps, CallingSteps
<1>5. CASE Crash(p)
  <2>1. /\ At("closed") \in ProcStates /\ At("closed").step = "closed"
        /\ ~At("closed").updating /\ At("closed").since = {}
    BY AtTyped DEF Steps
  <2> QED
    BY <1>2, <1>5, <2>1 DEF Crash, ControlMove, Moves, Blocking, RevokeSteps,
        CallingSteps
<1> QED
    BY <1>3, <1>4, <1>5 DEF Faulty

\* Of each process's record an alert that is resolved changes only since.
LEMMA ResolveMoves ==
    ASSUME PipelineTypeOK, NEW r \in Routes, ResolveUnrelated(r)
    PROVE  /\ procs' \in [Processes -> ProcStates]
           /\ \A q \in Processes :
                /\ procs'[q] = [procs[q] EXCEPT !.since = procs'[q].since]
                /\ procs'[q].since \subseteq procs[q].since
                /\ mode[r] # "stopped" => r \notin procs'[q].since
PROOF
<1>1. procs \in [Processes -> ProcStates]
    BY DEF PipelineTypeOK
<1>2. procs' = [q \in Processes |-> [procs[q] EXCEPT !.since =
            IF mode[r] = "stopped" THEN procs[q].since ELSE procs[q].since \ {r}]]
    BY DEF ResolveUnrelated
<1> SUFFICES ASSUME NEW q \in Processes
             PROVE  /\ procs'[q] \in ProcStates
                    /\ procs'[q] = [procs[q] EXCEPT !.since = procs'[q].since]
                    /\ procs'[q].since \subseteq procs[q].since
                    /\ mode[r] # "stopped" => r \notin procs'[q].since
    BY <1>2
<1> DEFINE left == IF mode[r] = "stopped" THEN procs[q].since
                   ELSE procs[q].since \ {r}
<1>3. procs'[q] = [procs[q] EXCEPT !.since = left]
    BY <1>2
<1>4. procs[q] \in ProcStates /\ left \in SUBSET Routes
    BY <1>1 DEF ProcStates
<1>5. left \subseteq procs[q].since /\ (mode[r] # "stopped" => r \notin left)
    OBVIOUS
<1> HIDE DEF left
<1>6. procs'[q].since = left /\ procs'[q] \in ProcStates
    BY <1>3, <1>4 DEF ProcStates
<1> QED
    BY <1>3, <1>5, <1>6

LEMMA MovesTyped ==
    ASSUME PipelineTypeOK, NEW p \in Processes, NEW s \in ProcStates, Moves(p, s)
    PROVE  /\ procs' \in [Processes -> ProcStates]
           /\ procs'[p] = s
           /\ \A q \in Processes : q # p => procs'[q] = procs[q]
PROOF
    BY DEF Moves, PipelineTypeOK

LEMMA DispatchTypes ==
    ASSUME PipelineTypeOK, RoutesAreKnown, NEW p \in Processes,
           DispatchContinues(p)
    PROVE  PipelineTypeOK'
PROOF
<1> USE DEF PipelineTypeOK
<1>1. procs' \in [Processes -> ProcStates]
    BY DispatchMoves, MovesTyped DEF DispatchMove
<1>2. UNCHANGED <<held, signalRows, halted, credentialRevoked, effects, lateRevoke,
                  faults>>
    BY DEF DispatchContinues, ReadRoute, Reserve, ContextRefuses, SignalDecides,
        GatewayAdmits, Transmit, TakeReply, GiveUp, RecordGateway, RecordContext,
        gatewayRows, receiverRows
<1>3. procs[p] \in ProcStates
    OBVIOUS
<1>4. attempts' \in [Routes -> {"none", "unknown", "observed", "blocked"}]
    BY <1>3 DEF DispatchContinues, ReadRoute, Reserve, ContextRefuses, SignalDecides,
        GatewayAdmits, Transmit, TakeReply, GiveUp, RecordGateway, RecordContext,
        ProcStates, Statuses
<1>5. intents' \in [Routes -> {"none", "unknown", "observed", "denied"}]
  <2>1. CASE RecordGateway(p)
    BY <1>3, <2>1 DEF RecordGateway, RoutesAreKnown, ProcStates, Statuses
  <2>2. CASE GatewayAdmits(p)
    <3>1. \/ intents' = intents
          \/ intents' = [intents EXCEPT ![procs[p].route] = "unknown"]
      BY <2>2 DEF GatewayAdmits
    <3> QED
      BY <3>1
  <2>3. CASE ~RecordGateway(p) /\ ~GatewayAdmits(p)
    <3>1. UNCHANGED intents
      BY <2>3 DEF DispatchContinues, ReadRoute, Reserve, ContextRefuses,
          SignalDecides, Transmit, TakeReply, GiveUp, RecordContext, gatewayRows
    <3> QED
      BY <3>1
  <2> QED
    BY <2>1, <2>2, <2>3
<1>6. requests' \in [Routes -> {"none", "inflight", "observed", "denied", "lost"}]
    BY DEF DispatchContinues, ReadRoute, Reserve, ContextRefuses, SignalDecides,
        GatewayAdmits, Transmit, TakeReply, GiveUp, RecordGateway, RecordContext,
        receiverRows
<1> QED
    BY <1>1, <1>2, <1>4, <1>5, <1>6 DEF signalRows

LEMMA ControlTypes ==
    ASSUME PipelineTypeOK, RoutesAreKnown, NEW p \in Processes,
           StopContinues(p) \/ ControlBegins(p) \/ Faulty(p)
    PROVE  PipelineTypeOK'
PROOF
<1> USE DEF PipelineTypeOK
<1>1. PICK s \in ProcStates : ControlMove(p, s)
    BY StopMoves, BeginMoves, FaultMoves
<1>2. /\ procs' \in [Processes -> ProcStates]
      /\ UNCHANGED <<attempts, intents, requests, effects>>
    BY <1>1, MovesTyped DEF ControlMove
<1>3. CASE StopContinues(p)
  <2>1. procs[p].route \in Routes \/ ~(HaltGateway(p) \/ RecordHost(p))
    BY DEF RoutesAreKnown, HaltGateway, RecordHost
  <2>2. held' \in BOOLEAN /\ credentialRevoked' \in BOOLEAN
    BY <1>3 DEF StopContinues, LatchRoute, EnsureRoute, HaltGateway, CallReceiver,
        ReceiverRevokes, NoteRevocation, RecordHost, WalkEnds, Open, receiverRows
  <2>3. mode' \in [Routes -> {"paused", "open", "stopped"}]
    BY <1>3 DEF StopContinues, LatchRoute, EnsureRoute, HaltGateway, CallReceiver,
        ReceiverRevokes, NoteRevocation, RecordHost, WalkEnds, Open, signalRows
  <2>4. hostRevoked' \subseteq Routes /\ halted' \subseteq Routes
    BY <1>3, <2>1 DEF StopContinues, LatchRoute, EnsureRoute, HaltGateway,
        CallReceiver, ReceiverRevokes, NoteRevocation, RecordHost, WalkEnds, Open,
        signalRows, gatewayRows
  <2>5. UNCHANGED <<alerted, lateRevoke, faults>>
    BY <1>3 DEF StopContinues, LatchRoute, EnsureRoute, HaltGateway, CallReceiver,
        ReceiverRevokes, NoteRevocation, RecordHost, WalkEnds, Open, signalRows,
        receiverRows
  <2> QED
    BY <1>2, <2>2, <2>3, <2>4, <2>5
<1>4. CASE ControlBegins(p)
  <2>1. held' \in BOOLEAN /\ alerted' \subseteq Routes
            /\ mode' \in [Routes -> {"paused", "open", "stopped"}]
    BY <1>4 DEF ControlBegins, Stop, ResolveStopped, Update, signalRows
  <2>2. UNCHANGED <<hostRevoked, halted, credentialRevoked, lateRevoke, faults>>
    BY <1>4 DEF ControlBegins, Stop, ResolveStopped, Update, signalRows,
        gatewayRows, receiverRows
  <2> QED
    BY <1>2, <2>1, <2>2
<1>5. CASE Faulty(p)
  <2>1. lateRevoke' \in BOOLEAN
    BY <1>5 DEF Faulty, LatchFails, RevokeTimesOut, Crash, Abandon, receiverRows
  <2>2. faults' \in 0 .. MaxFaults
    BY <1>5, PipelineAssumption DEF Faulty, LatchFails, RevokeTimesOut, Crash, Fault
  <2>3. UNCHANGED <<held, signalRows, halted, credentialRevoked>>
    BY <1>5 DEF Faulty, LatchFails, RevokeTimesOut, Crash, gatewayRows, receiverRows
  <2> QED
    BY <1>2, <2>1, <2>2, <2>3 DEF signalRows
<1> QED
    BY <1>3, <1>4, <1>5

LEMMA StepTypes ==
    PipelineTypeOK /\ RoutesAreKnown /\ [Next]_pipelineVars => PipelineTypeOK'
PROOF
<1> SUFFICES ASSUME PipelineTypeOK, RoutesAreKnown, [Next]_pipelineVars
             PROVE  PipelineTypeOK'
    OBVIOUS
<1> USE DEF PipelineTypeOK
<1>1. ASSUME NEW p \in Dispatchers, NEW r \in Routes, Begin(p, r)
      PROVE  PipelineTypeOK'
  <2>1. PICK step \in {"checking", "context"}, unread \in SUBSET Routes,
             since \in SUBSET Routes :
            procs' = [procs EXCEPT ![p] = [At(step) EXCEPT
                !.route = r, !.unread = unread, !.since = since]]
    BY <1>1 DEF Begin
  <2>2. [At(step) EXCEPT !.route = r, !.unread = unread, !.since = since]
            \in ProcStates
    BY DEF At, ProcStates, DispatchSteps, CheckedSteps, Statuses
  <2>3. procs' \in [Processes -> ProcStates]
    BY <2>1, <2>2
  <2> QED
    BY <1>1, <2>3 DEF Begin, signalRows, gatewayRows, receiverRows
<1>2. ASSUME NEW r \in Routes, Commit(r) \/ Lose(r) PROVE PipelineTypeOK'
    BY <1>2 DEF Commit, Lose, signalRows, gatewayRows
<1>3. ASSUME NEW r \in Routes, Pause(r) \/ Restart(r) \/ ReceiveAlert(r)
      PROVE  PipelineTypeOK'
    BY <1>3 DEF Pause, Restart, ReceiveAlert, gatewayRows, receiverRows
<1>4. ASSUME NEW r \in Routes, ResolveUnrelated(r) PROVE PipelineTypeOK'
    BY <1>4, ResolveMoves DEF ResolveUnrelated, gatewayRows, receiverRows
<1>5. CASE LateRevoke
    BY <1>5 DEF LateRevoke, signalRows, gatewayRows
<1>6. CASE UNCHANGED pipelineVars
    BY <1>6 DEF pipelineVars
<1> QED
    BY <1>1, <1>2, <1>3, <1>4, <1>5, <1>6, DispatchTypes, ControlTypes
    DEF Next, Environment, Processes

-----------------------------------------------------------------------------
\* The pipeline's lock and hold.

LEMMA ControlKeeps ==
    ASSUME PipelineTypeOK, RoutesAreKnown, LockIsExclusive,
           NEW p \in Processes, NEW s \in ProcStates, ControlMove(p, s)
    PROVE  RoutesAreKnown' /\ LockIsExclusive'
PROOF
<1>1. /\ procs'[p] = s
      /\ \A q \in Processes : q # p => procs'[q] = procs[q]
    BY MovesTyped DEF ControlMove
<1>2. /\ s.step \notin DispatchSteps
      /\ s.step \in {"halting", "draining", "telling"} \cup CallingSteps
            => s.route \in Routes
      /\ \/ held' = held /\ (s.updating => procs[p].updating)
         \/ held' /\ PipelineFree
         \/ procs[p].updating /\ ~s.updating
    BY DEF ControlMove, RevokeSteps, CallingSteps, DispatchSteps, CheckedSteps
<1>3. RoutesAreKnown'
    BY <1>1, <1>2 DEF RoutesAreKnown, Step, DispatchSteps, CheckedSteps
<1>4. LockIsExclusive'
    BY <1>1, <1>2 DEF LockIsExclusive, HoldExcludesDispatch, PipelineFree, Step
<1> QED
    BY <1>3, <1>4

LEMMA DispatchKeeps ==
    ASSUME PipelineTypeOK, RoutesAreKnown, LockIsExclusive,
           NEW p \in Processes, NEW s \in ProcStates, DispatchMove(p, s)
    PROVE  RoutesAreKnown' /\ LockIsExclusive'
PROOF
<1>1. /\ procs'[p] = s
      /\ \A q \in Processes : q # p => procs'[q] = procs[q]
    BY MovesTyped DEF DispatchMove
<1>2. /\ Step(p) \in DispatchSteps
      /\ s.step \in {"idle"} \cup DispatchSteps
      /\ s.step \in DispatchSteps => s.route = procs[p].route
      /\ s.step = "recording" => s.status # "blocked"
      /\ s.updating => procs[p].updating
      /\ held' = held
    BY DEF DispatchMove, DispatchSteps
<1>3. RoutesAreKnown'
    BY <1>1, <1>2 DEF RoutesAreKnown, Step, DispatchSteps, CheckedSteps, CallingSteps
<1>4. LockIsExclusive'
    BY <1>1, <1>2 DEF LockIsExclusive, HoldExcludesDispatch, Step
<1> QED
    BY <1>3, <1>4

LEMMA BeginRecord ==
    ASSUME PipelineTypeOK, NEW p \in Processes, NEW r \in Routes, Begin(p, r)
    PROVE  /\ Step(p) = "idle" /\ PipelineFree /\ ~held
           /\ procs'[p].step = IF Successor THEN "checking" ELSE "context"
           /\ procs'[p].route = r /\ ~procs'[p].updating /\ ~procs'[p].acked
           /\ Successor => procs'[p].unread = Routes
           /\ procs'[p].since = {x \in Routes : Blocking(x)}
           /\ \A q \in Processes : q # p => procs'[q] = procs[q]
PROOF
<1> DEFINE step == IF Successor THEN "checking" ELSE "context"
           unread == IF Successor THEN Routes ELSE {}
           since == {x \in Routes : Blocking(x)}
           s == [At(step) EXCEPT !.route = r, !.unread = unread, !.since = since]
<1>1. /\ procs' = [procs EXCEPT ![p] = s]
      /\ Step(p) = "idle" /\ PipelineFree /\ ~held
    BY DEF Begin, Idle, Step
<1>2. procs'[p] = s /\ \A q \in Processes : q # p => procs'[q] = procs[q]
    BY <1>1 DEF PipelineTypeOK
<1>3. /\ s.step = step /\ s.route = r /\ s.unread = unread /\ s.since = since
      /\ ~s.updating /\ ~s.acked
  <2> HIDE DEF step, unread, since
  <2> QED
    BY DEF At
<1> HIDE DEF s
<1> QED
    BY <1>1, <1>2, <1>3

LEMMA LockStep ==
    ASSUME PipelineTypeOK, RoutesAreKnown, LockIsExclusive, [Next]_pipelineVars
    PROVE  RoutesAreKnown' /\ LockIsExclusive'
PROOF
<1>1. ASSUME NEW p \in Dispatchers, NEW r \in Routes, Begin(p, r)
      PROVE  RoutesAreKnown' /\ LockIsExclusive'
  <2>1. p \in Processes
    BY DEF Processes
  <2>2. held' = held
    BY <1>1 DEF Begin
  <2>3. RoutesAreKnown'
    BY <1>1, <2>1, BeginRecord DEF RoutesAreKnown, Step, DispatchSteps,
        CheckedSteps, CallingSteps
  <2>4. LockIsExclusive'
    BY <1>1, <2>1, <2>2, BeginRecord DEF LockIsExclusive, HoldExcludesDispatch,
        PipelineFree, Step
  <2> QED
    BY <2>3, <2>4
<1>2. ASSUME held' = held,
             \A q \in Processes :
                /\ procs'[q].step = procs[q].step
                /\ procs'[q].route = procs[q].route
                /\ procs'[q].status = procs[q].status
                /\ procs'[q].updating = procs[q].updating
      PROVE  RoutesAreKnown' /\ LockIsExclusive'
    BY <1>2 DEF RoutesAreKnown, LockIsExclusive, HoldExcludesDispatch, Step
<1>3. ASSUME NEW r \in Routes, ResolveUnrelated(r)
      PROVE  RoutesAreKnown' /\ LockIsExclusive'
  <2>1. \A q \in Processes :
            /\ procs[q] \in ProcStates
            /\ procs'[q] = [procs[q] EXCEPT !.since = procs'[q].since]
    BY <1>3, ResolveMoves DEF PipelineTypeOK
  <2>2. \A q \in Processes :
            /\ procs'[q].step = procs[q].step
            /\ procs'[q].route = procs[q].route
            /\ procs'[q].status = procs[q].status
            /\ procs'[q].updating = procs[q].updating
    BY <2>1 DEF ProcStates
  <2> QED
    BY <1>2, <1>3, <2>2 DEF ResolveUnrelated
<1>4. ASSUME NEW r \in Routes,
             Commit(r) \/ Lose(r) \/ Pause(r) \/ Restart(r) \/ ReceiveAlert(r)
      PROVE  RoutesAreKnown' /\ LockIsExclusive'
    BY <1>2, <1>4 DEF Commit, Lose, Pause, Restart, ReceiveAlert
<1>5. CASE LateRevoke \/ UNCHANGED pipelineVars
    BY <1>2, <1>5 DEF LateRevoke, pipelineVars
<1>6. ASSUME NEW p \in Processes, DispatchContinues(p)
      PROVE  RoutesAreKnown' /\ LockIsExclusive'
    BY <1>6, DispatchMoves, DispatchKeeps
<1>7. ASSUME NEW p \in Processes, StopContinues(p) \/ ControlBegins(p) \/ Faulty(p)
      PROVE  RoutesAreKnown' /\ LockIsExclusive'
    BY <1>7, StopMoves, BeginMoves, FaultMoves, ControlKeeps
<1> QED
    BY <1>1, <1>3, <1>4, <1>5, <1>6, <1>7 DEF Next, Environment, Processes

-----------------------------------------------------------------------------
\* The stores of the layers.

LEMMA CallsQuiet ==
    ASSUME StoresInLine, CallsInLine,
           UNCHANGED <<attempts, intents, requests, effects>>,
           \A q \in Processes :
              \/ /\ procs'[q].step = procs[q].step
                 /\ procs'[q].route = procs[q].route
                 /\ procs'[q].status = procs[q].status
              \/ procs'[q].step \notin CheckedSteps
              \/ procs'[q].step = "context"
    PROVE  StoresInLine' /\ CallsInLine'
PROOF
<1>1. StoresInLine'
    BY DEF StoresInLine
<1>2. CallsInLine'
    BY DEF CallsInLine, CallInLine, Step, CheckedSteps, SendingSteps
<1> QED
    BY <1>1, <1>2

\* Everybody but the process that dispatches is elsewhere.
LEMMA DispatchAlone ==
    ASSUME PipelineTypeOK, LockIsExclusive, NEW p \in Processes,
           NEW s \in ProcStates, DispatchMove(p, s), CallInLine(p)'
    PROVE  CallsInLine'
PROOF
<1>1. \A q \in Processes : q # p => procs'[q] = procs[q] /\ Step(q) \notin DispatchSteps
    BY MovesTyped DEF DispatchMove, LockIsExclusive
<1>2. ASSUME NEW q \in Processes, q # p PROVE CallInLine(q)'
    BY <1>1, <1>2 DEF CallInLine, Step, DispatchSteps, CheckedSteps, SendingSteps
<1> QED
    BY <1>2 DEF CallsInLine

LEMMA DispatchStores ==
    ASSUME PipelineTypeOK, RoutesAreKnown, LockIsExclusive, StoresInLine,
           CallsInLine, NEW p \in Processes, DispatchContinues(p)
    PROVE  StoresInLine' /\ CallsInLine'
PROOF
<1> DEFINE r == procs[p].route
<1>0. PICK s \in ProcStates : DispatchMove(p, s)
    BY DispatchMoves
<1>1. /\ procs \in [Processes -> ProcStates] /\ procs[p] \in ProcStates
      /\ attempts \in [Routes -> {"none", "unknown", "observed", "blocked"}]
      /\ intents \in [Routes -> {"none", "unknown", "observed", "denied"}]
      /\ requests \in [Routes -> {"none", "inflight", "observed", "denied", "lost"}]
    BY DEF PipelineTypeOK
<1>2. r \in Routes
    BY <1>0 DEF DispatchMove, RoutesAreKnown
<1>3. CallInLine(p) /\ effects' = effects
    BY <1>0 DEF CallsInLine, DispatchMove
<1>4. ASSUME CallInLine(p)' PROVE CallsInLine'
    BY <1>0, <1>4, DispatchAlone
<1>5. procs'[p] = s /\ (s.step \in DispatchSteps => s.route = r)
    BY <1>0, MovesTyped DEF DispatchMove
<1> HIDE DEF r
<1>6. ASSUME NEW x \in Routes, ReadRoute(p, x) PROVE StoresInLine' /\ CallsInLine'
  <2>1. UNCHANGED <<attempts, intents, requests, effects>>
    BY <1>6 DEF ReadRoute, gatewayRows, receiverRows
  <2>2. \/ /\ Step(p) = "checking"
           /\ s.step \in {"checking", "context", "idle"}
        \/ /\ Step(p) = "guarding"
           /\ \/ s.step \in {"guarding", "signal"}
              \/ s.step = "result" /\ s.status = "blocked"
    BY <1>1, <1>5, <1>6 DEF ReadRoute, Reads, Ends, Answer, At, Step, ProcStates
  <2>3. requests[r] = "none" \/ intents[r] # "none"
    BY <1>2 DEF StoresInLine
  <2>4. CallInLine(p)'
    BY <1>3, <1>5, <2>1, <2>2, <2>3 DEF CallInLine, r, Step, DispatchSteps,
        CheckedSteps, SendingSteps
  <2> QED
    BY <1>4, <2>1, <2>4 DEF StoresInLine
<1>7. CASE Reserve(p)
  <2>1. /\ attempts[r] = "none" /\ attempts' = [attempts EXCEPT ![r] = "unknown"]
        /\ UNCHANGED <<intents, requests, effects>>
        /\ s.step \in {"guarding", "signal"}
    BY <1>1, <1>5, <1>7 DEF Reserve, gatewayRows, receiverRows, r, ProcStates
  <2>2. intents[r] = "none"
    BY <1>2, <2>1 DEF StoresInLine
  <2>3. CallInLine(p)'
    BY <1>1, <1>2, <1>5, <2>1, <2>2 DEF CallInLine, r, Step, DispatchSteps,
        CheckedSteps, SendingSteps
  <2>4. StoresInLine'
    BY <1>1, <1>2, <2>1, <2>2 DEF StoresInLine
  <2> QED
    BY <1>4, <2>3, <2>4
<1>8. CASE ContextRefuses(p)
  <2>1. UNCHANGED <<attempts, intents, requests, effects>> /\ s.step = "idle"
    BY <1>1, <1>5, <1>8 DEF ContextRefuses, Ends, At, gatewayRows, receiverRows
  <2>2. CallInLine(p)'
    BY <1>5, <2>1 DEF CallInLine, Step, SendingSteps
  <2> QED
    BY <1>4, <2>1, <2>2 DEF StoresInLine
<1>9. CASE SignalDecides(p)
  <2>1. /\ UNCHANGED <<attempts, intents, requests, effects>>
        /\ Step(p) = "signal"
        /\ s.step = "locking" \/ (s.step = "result" /\ s.status = "blocked")
    BY <1>1, <1>5, <1>9 DEF SignalDecides, Goes, Answer, gatewayRows, receiverRows,
        ProcStates
  <2>2. requests[r] = "none" \/ intents[r] # "none"
    BY <1>2 DEF StoresInLine
  <2>3. CallInLine(p)'
    BY <1>3, <1>5, <2>1, <2>2 DEF CallInLine, r, Step, DispatchSteps,
        CheckedSteps, SendingSteps
  <2> QED
    BY <1>4, <2>1, <2>3 DEF StoresInLine
<1>10. CASE GatewayAdmits(p)
  <2>1. /\ Step(p) = "locking" /\ attempts[r] = "unknown" /\ intents[r] = "none"
        /\ UNCHANGED <<attempts, requests, effects>>
    BY <1>3, <1>10 DEF GatewayAdmits, receiverRows, CallInLine, r, SendingSteps
  <2>2. requests[r] = "none"
    BY <1>2, <2>1 DEF StoresInLine
  <2>3. \/ s.step = "result" /\ s.status = "blocked" /\ intents' = intents
        \/ s.step = "sending" /\ intents' = [intents EXCEPT ![r] = "unknown"]
    BY <1>1, <1>5, <1>10, <2>1 DEF GatewayAdmits, Goes, Answer, r, ProcStates
  <2>4. CallInLine(p)'
    BY <1>1, <1>2, <1>5, <2>1, <2>2, <2>3 DEF CallInLine, r, Step, DispatchSteps,
        CheckedSteps, SendingSteps
  <2>5. StoresInLine'
    BY <1>1, <1>2, <2>1, <2>2, <2>3 DEF StoresInLine
  <2> QED
    BY <1>4, <2>4, <2>5
<1>11. CASE Transmit(p)
  <2>1. /\ Step(p) = "sending" /\ s.step = "waiting"
        /\ requests' = [requests EXCEPT ![r] = "inflight"]
        /\ UNCHANGED <<attempts, intents, effects>>
    BY <1>1, <1>5, <1>11 DEF Transmit, Goes, gatewayRows, r, ProcStates
  <2>2. attempts[r] = "unknown" /\ intents[r] = "unknown" /\ requests[r] = "none"
    BY <1>3, <2>1 DEF CallInLine, r, SendingSteps
  <2>3. CallInLine(p)'
    BY <1>1, <1>2, <1>5, <2>1, <2>2 DEF CallInLine, r, Step, DispatchSteps,
        CheckedSteps, SendingSteps
  <2>4. StoresInLine'
    BY <1>1, <1>2, <2>1, <2>2 DEF StoresInLine
  <2> QED
    BY <1>4, <2>3, <2>4
<1>12. CASE TakeReply(p) \/ GiveUp(p)
  <2>1. /\ Step(p) \in SendingSteps /\ s.step = "recording"
        /\ UNCHANGED <<attempts, intents, requests, effects>>
        /\ s.status = "unknown" \/ s.status = requests[r]
        /\ s.status # "blocked"
    BY <1>1, <1>5, <1>12 DEF TakeReply, GiveUp, gatewayRows, receiverRows, r,
        ProcStates, SendingSteps
  <2>2. CallInLine(p)'
    BY <1>3, <1>5, <2>1 DEF CallInLine, r, Step, DispatchSteps, CheckedSteps,
        SendingSteps
  <2> QED
    BY <1>4, <2>1, <2>2 DEF StoresInLine
<1>13. CASE RecordGateway(p)
  <2>1. /\ Step(p) = "recording" /\ s.step = "result" /\ s.status = procs[p].status
        /\ intents' = [intents EXCEPT ![r] = procs[p].status]
        /\ UNCHANGED <<attempts, requests, effects>>
    BY <1>1, <1>5, <1>13 DEF RecordGateway, Answer, receiverRows, r, ProcStates
  <2>2. /\ attempts[r] = "unknown"
        /\ procs[p].status \in {"unknown", "observed", "denied"}
        /\ procs[p].status \in {"observed", "denied"} => requests[r] = procs[p].status
        /\ intents[r] = "unknown"
    BY <1>1, <1>3, <2>1 DEF CallInLine, RoutesAreKnown, r, SendingSteps, ProcStates,
        Statuses
  <2>3. CallInLine(p)'
    BY <1>1, <1>2, <1>5, <2>1, <2>2 DEF CallInLine, r, Step, DispatchSteps,
        CheckedSteps, SendingSteps
  <2>4. StoresInLine'
    BY <1>1, <1>2, <2>1, <2>2 DEF StoresInLine
  <2> QED
    BY <1>4, <2>3, <2>4
<1>14. CASE RecordContext(p)
  <2>1. /\ Step(p) = "result" /\ s.step = "idle"
        /\ attempts' = [attempts EXCEPT ![r] = IF procs[p].status = "denied"
                THEN "blocked" ELSE procs[p].status]
        /\ UNCHANGED <<intents, requests, effects>>
    BY <1>1, <1>5, <1>14 DEF RecordContext, Ends, At, gatewayRows, receiverRows, r
  <2>2. /\ attempts[r] = "unknown"
        /\ procs[p].status \in Statuses
        /\ procs[p].status \in {"observed", "denied"} => requests[r] = procs[p].status
        /\ procs[p].status = "blocked" => requests[r] = "none"
    BY <1>1, <1>3, <2>1 DEF CallInLine, r, ProcStates
  <2>3. CallInLine(p)'
    BY <1>5, <2>1 DEF CallInLine, Step, SendingSteps
  <2>4. StoresInLine'
    BY <1>1, <1>2, <2>1, <2>2 DEF StoresInLine, Statuses
  <2> QED
    BY <1>4, <2>3, <2>4
<1> QED
    BY <1>6, <1>7, <1>8, <1>9, <1>10, <1>11, <1>12, <1>13, <1>14
    DEF DispatchContinues

LEMMA SettledStores ==
    ASSUME PipelineTypeOK, StoresInLine, CallsInLine, NEW r \in Routes,
           Commit(r) \/ Lose(r)
    PROVE  StoresInLine' /\ CallsInLine'
PROOF
<1>1. /\ requests \in [Routes -> {"none", "inflight", "observed", "denied", "lost"}]
      /\ requests[r] = "inflight"
      /\ UNCHANGED <<attempts, intents, procs>>
    BY DEF Commit, Lose, gatewayRows, PipelineTypeOK
<1>2. PICK to \in {"observed", "denied", "lost"} :
            /\ requests' = [requests EXCEPT ![r] = to]
            /\ \/ to # "denied" /\ effects' = effects \cup {r}
               \/ to # "observed" /\ effects' = effects
    BY DEF Commit, Lose
<1>3. /\ r \notin effects /\ intents[r] # "none" /\ intents[r] # "denied"
      /\ attempts[r] # "observed" /\ attempts[r] # "blocked"
    BY <1>1 DEF StoresInLine
<1>4. StoresInLine'
    BY <1>1, <1>2, <1>3 DEF StoresInLine
<1>5. CallsInLine'
    BY <1>1, <1>2 DEF CallsInLine, CallInLine, Step
<1> QED
    BY <1>4, <1>5

LEMMA StoresStep ==
    ASSUME PipelineTypeOK, RoutesAreKnown, LockIsExclusive, StoresInLine,
           CallsInLine, [Next]_pipelineVars
    PROVE  StoresInLine' /\ CallsInLine'
PROOF
<1>1. ASSUME NEW p \in Dispatchers, NEW r \in Routes, Begin(p, r)
      PROVE  StoresInLine' /\ CallsInLine'
  <2>1. p \in Processes
    BY DEF Processes
  <2>2. UNCHANGED <<attempts, intents, requests, effects>>
    BY <1>1 DEF Begin, gatewayRows, receiverRows
  <2>3. procs'[p].step \in {"checking", "context"}
    BY <1>1, <2>1, BeginRecord
  <2> QED
    BY <1>1, <2>1, <2>2, <2>3, BeginRecord, CallsQuiet DEF CheckedSteps
<1>2. ASSUME NEW p \in Processes, DispatchContinues(p)
      PROVE  StoresInLine' /\ CallsInLine'
    BY <1>2, DispatchStores
<1>3. ASSUME NEW p \in Processes, StopContinues(p) \/ ControlBegins(p) \/ Faulty(p)
      PROVE  StoresInLine' /\ CallsInLine'
  <2>1. PICK s \in ProcStates : ControlMove(p, s)
    BY <1>3, StopMoves, BeginMoves, FaultMoves
  <2>2. s.step \notin CheckedSteps
    BY <2>1 DEF ControlMove, RevokeSteps, CallingSteps, CheckedSteps
  <2>3. /\ procs'[p] = s
        /\ \A q \in Processes : q # p => procs'[q] = procs[q]
    BY <2>1, MovesTyped DEF ControlMove
  <2>4. UNCHANGED <<attempts, intents, requests, effects>>
    BY <2>1 DEF ControlMove
  <2> QED
    BY <2>2, <2>3, <2>4, CallsQuiet
<1>4. ASSUME NEW r \in Routes, ResolveUnrelated(r)
      PROVE  StoresInLine' /\ CallsInLine'
  <2>1. \A q \in Processes :
            /\ procs[q] \in ProcStates
            /\ procs'[q] = [procs[q] EXCEPT !.since = procs'[q].since]
    BY <1>4, ResolveMoves DEF PipelineTypeOK
  <2>2. \A q \in Processes :
            /\ procs'[q].step = procs[q].step
            /\ procs'[q].route = procs[q].route
            /\ procs'[q].status = procs[q].status
    BY <2>1 DEF ProcStates
  <2>3. UNCHANGED <<attempts, intents, requests, effects>>
    BY <1>4 DEF ResolveUnrelated, gatewayRows, receiverRows
  <2> QED
    BY <2>2, <2>3, CallsQuiet
<1>5. ASSUME NEW r \in Routes, Pause(r) \/ Restart(r) \/ ReceiveAlert(r)
      PROVE  StoresInLine' /\ CallsInLine'
  <2>1. UNCHANGED <<attempts, intents, requests, effects, procs>>
    BY <1>5 DEF Pause, Restart, ReceiveAlert, gatewayRows, receiverRows
  <2> QED
    BY <2>1, CallsQuiet
<1>6. CASE LateRevoke \/ UNCHANGED pipelineVars
  <2>1. UNCHANGED <<attempts, intents, requests, effects, procs>>
    BY <1>6 DEF LateRevoke, pipelineVars, gatewayRows
  <2> QED
    BY <2>1, CallsQuiet
<1> QED
    BY <1>1, <1>2, <1>3, <1>4, <1>5, <1>6, SettledStores
    DEF Next, Environment, Processes

-----------------------------------------------------------------------------
\* The budget of the context ledger.

LEMMA BudgetStep ==
    ASSUME PipelineTypeOK, RoutesAreKnown, CallsInLine, ReservedWithin,
           [Next]_pipelineVars
    PROVE  ReservedWithin'
PROOF
<1>1. ASSUME NEW p \in Processes, Reserve(p) PROVE ReservedWithin'
  <2> DEFINE r == procs[p].route
  <2>1. r \in Routes
    BY <1>1 DEF Reserve, RoutesAreKnown, DispatchSteps, CheckedSteps
  <2>2. Reserved' = Reserved \cup {r} /\ Cardinality(Reserved) < Budget
    BY <1>1, <2>1 DEF Reserve, Reserved, PipelineTypeOK
  <2>3. IsFiniteSet(Reserved) /\ Cardinality(Reserved) \in Nat
    BY FS_CardinalityType DEF ReservedWithin
  <2>4. IsFiniteSet(Reserved') /\ Cardinality(Reserved') <= Cardinality(Reserved) + 1
    BY <2>2, <2>3, FS_AddElement
  <2>5. Cardinality(Reserved') \in Nat
    BY <2>4, FS_CardinalityType
  <2> QED
    BY <2>2, <2>3, <2>4, <2>5, PipelineAssumption DEF ReservedWithin
<1>2. ASSUME Reserved' = Reserved PROVE ReservedWithin'
    BY <1>2 DEF ReservedWithin
<1>3. ASSUME NEW p \in Processes, RecordContext(p) PROVE ReservedWithin'
  <2> DEFINE r == procs[p].route
             to == IF procs[p].status = "denied" THEN "blocked" ELSE procs[p].status
  <2>1. r \in Routes /\ attempts[r] = "unknown"
    BY <1>3 DEF RecordContext, RoutesAreKnown, CallsInLine, CallInLine,
        DispatchSteps, CheckedSteps
  <2>2. procs[p].status \in Statuses
    BY DEF PipelineTypeOK, ProcStates
  <2>3. to # "none" /\ attempts' = [attempts EXCEPT ![r] = to]
    BY <1>3, <2>2 DEF RecordContext, Statuses
  <2> HIDE DEF to, r
  <2>4. Reserved' = Reserved
    BY <2>1, <2>3 DEF Reserved, PipelineTypeOK
  <2> QED
    BY <1>2, <2>4
<1>4. ASSUME NEW p \in Processes, DispatchContinues(p), ~Reserve(p), ~RecordContext(p)
      PROVE  ReservedWithin'
  <2>1. UNCHANGED attempts
    BY <1>4 DEF DispatchContinues, ReadRoute, ContextRefuses, SignalDecides,
        GatewayAdmits, Transmit, TakeReply, GiveUp, RecordGateway
  <2> QED
    BY <1>2, <2>1 DEF Reserved
<1>5. ASSUME NEW p \in Processes, StopContinues(p) \/ ControlBegins(p) \/ Faulty(p)
      PROVE  ReservedWithin'
  <2>1. UNCHANGED attempts
    BY <1>5, StopMoves, BeginMoves, FaultMoves DEF ControlMove
  <2> QED
    BY <1>2, <2>1 DEF Reserved
<1>6. ASSUME \/ \E p \in Dispatchers, r \in Routes : Begin(p, r)
             \/ Environment
             \/ UNCHANGED pipelineVars
      PROVE  ReservedWithin'
  <2>1. UNCHANGED attempts
    BY <1>6 DEF Begin, Environment, Commit, Lose, Pause, Restart, ReceiveAlert,
        ResolveUnrelated, LateRevoke, pipelineVars
  <2> QED
    BY <1>2, <2>1 DEF Reserved
<1> QED
    BY <1>1, <1>3, <1>4, <1>5, <1>6 DEF Next, Processes

-----------------------------------------------------------------------------
\* What a check knows of the routes.

\* What one read of a route does to a check before the reservation.
LEMMA FirstCheck ==
    ASSUME PipelineTypeOK, NEW p \in Processes, NEW s \in ProcStates,
           procs' = [procs EXCEPT ![p] = s], Step(p) = "checking",
           DispatchContinues(p)
    PROVE  \E x \in Routes :
              \/ s.step = "idle"
              \/ /\ s.step = "checking"
                 /\ s.unread = procs[p].unread \ {x}
                 /\ s.blocked = (procs[p].blocked \/ Blocking(x))
              \/ /\ s.step = "context"
                 /\ procs[p].unread \subseteq {x}
                 /\ ~procs[p].blocked /\ ~Blocking(x)
PROOF
<1>1. procs \in [Processes -> ProcStates] /\ procs[p] \in ProcStates
    BY DEF PipelineTypeOK
<1>2. PICK x \in Routes : ReadRoute(p, x)
    BY DEF DispatchContinues, Reserve, ContextRefuses, SignalDecides,
        GatewayAdmits, Transmit, TakeReply, GiveUp, RecordGateway, RecordContext
<1> DEFINE unread == procs[p].unread \ {x}
           blocked == procs[p].blocked \/ Blocking(x)
<1>3. Reads(p, unread, blocked) /\ procs'[p] = s
    BY <1>1, <1>2 DEF ReadRoute
<1>4. unread = {} => procs[p].unread \subseteq {x}
    OBVIOUS
<1>5. blocked \in BOOLEAN
    BY <1>1 DEF ProcStates, Blocking
<1>6. ~blocked => ~procs[p].blocked /\ ~Blocking(x)
    OBVIOUS
<1> HIDE DEF unread, blocked
<1>7. CASE unread # {}
  <2>1. s = [procs[p] EXCEPT !.unread = unread, !.blocked = blocked]
    BY <1>1, <1>3, <1>7 DEF Reads
  <2>2. s.step = "checking" /\ s.unread = unread /\ s.blocked = blocked
    BY <1>1, <2>1 DEF ProcStates, Step
  <2> QED
    BY <2>2 DEF unread, blocked
<1>8. CASE unread = {} /\ blocked
  <2>1. s = At("idle")
    BY <1>1, <1>3, <1>8 DEF Reads, Ends
  <2> QED
    BY <2>1 DEF At
<1>9. CASE unread = {} /\ ~blocked
  <2>1. s = [procs[p] EXCEPT !.unread = {}, !.step = "context"]
    BY <1>1, <1>3, <1>9 DEF Reads
  <2>2. s.step = "context"
    BY <1>1, <2>1 DEF ProcStates
  <2> QED
    BY <1>4, <1>6, <1>9, <2>2
<1> QED
    BY <1>7, <1>8, <1>9

LEMMA ChecksStep ==
    ASSUME PipelineTypeOK, RoutesAreKnown, ChecksSeeBlocking, [Next]_pipelineVars
    PROVE  ChecksSeeBlocking'
PROOF
<1> SUFFICES ASSUME Successor PROVE ChecksSeeBlocking'
    BY DEF ChecksSeeBlocking
<1> DEFINE sees(p) ==
                /\ \A x \in procs[p].since : Blocking(x)
                /\ Step(p) = "checking" =>
                    procs[p].blocked \/ procs[p].since \subseteq procs[p].unread
                /\ Step(p) \in CheckedSteps => procs[p].since = {}
<1>1. \A q \in Processes : sees(q) /\ procs[q].since \subseteq Routes
    BY DEF ChecksSeeBlocking, PipelineTypeOK, ProcStates
<1>2. (\A q \in Processes : sees(q)') => ChecksSeeBlocking'
    BY DEF ChecksSeeBlocking
<1>3. ASSUME NEW q \in Processes, procs'[q] = procs[q],
             \A x \in Routes : Blocking(x) => Blocking(x)'
      PROVE  sees(q)'
    BY <1>1, <1>3 DEF Step
<1>4. ASSUME NEW p \in Dispatchers, NEW r \in Routes, Begin(p, r)
      PROVE  ChecksSeeBlocking'
  <2>1. p \in Processes
    BY DEF Processes
  <2>2. \A x : Blocking(x)' = Blocking(x)
    BY <1>4 DEF Begin, Blocking, signalRows
  <2>3. /\ procs'[p].step = "checking" /\ procs'[p].unread = Routes
        /\ procs'[p].since = {x \in Routes : Blocking(x)}
        /\ \A q \in Processes : q # p => procs'[q] = procs[q]
    BY <1>4, <2>1, BeginRecord
  <2>4. sees(p)'
    BY <2>2, <2>3 DEF Step, CheckedSteps
  <2> QED
    BY <1>2, <1>3, <2>2, <2>3, <2>4
<1>5. ASSUME NEW p \in Processes, DispatchContinues(p) PROVE ChecksSeeBlocking'
  <2>1. PICK s \in ProcStates : DispatchMove(p, s)
    BY <1>5, DispatchMoves
  <2>2. /\ procs' = [procs EXCEPT ![p] = s] /\ procs'[p] = s
        /\ \A q \in Processes : q # p => procs'[q] = procs[q]
    BY <2>1, MovesTyped DEF DispatchMove, Moves
  <2>3. \A x : Blocking(x)' = Blocking(x)
    BY <2>1 DEF DispatchMove, Blocking, signalRows
  <2>4. /\ s.since \subseteq procs[p].since
        /\ s.step \in {"idle"} \cup CheckedSteps \/ s.step = Step(p)
        /\ Step(p) \in DispatchSteps
    BY <2>1 DEF DispatchMove
  <2>5. CASE Step(p) = "checking"
    <3>1. PICK x \in Routes :
              \/ s.step = "idle"
              \/ /\ s.step = "checking"
                 /\ s.unread = procs[p].unread \ {x}
                 /\ s.blocked = (procs[p].blocked \/ Blocking(x))
              \/ /\ s.step = "context"
                 /\ procs[p].unread \subseteq {x}
                 /\ ~procs[p].blocked /\ ~Blocking(x)
      BY <1>5, <2>2, <2>5, FirstCheck
    <3>2. sees(p)
      BY <1>1
    <3>3. \A y \in s.since : Blocking(y)
      BY <2>4, <3>2
    <3>4. s.step = "checking" => s.blocked \/ s.since \subseteq s.unread
      BY <2>4, <2>5, <3>1, <3>2
    <3>5. s.step \in CheckedSteps => s.since = {}
      BY <2>4, <2>5, <3>1, <3>2 DEF CheckedSteps
    <3> QED
      BY <1>2, <1>3, <2>2, <2>3, <3>3, <3>4, <3>5 DEF Step
  <2>6. CASE Step(p) \in CheckedSteps
    <3>1. s.since = {} /\ s.step # "checking"
      BY <1>1, <2>4, <2>6 DEF CheckedSteps
    <3> QED
      BY <1>2, <1>3, <2>2, <2>3, <3>1 DEF Step
  <2> QED
    BY <2>4, <2>5, <2>6 DEF DispatchSteps
<1>6. ASSUME NEW p \in Processes, StopContinues(p) \/ ControlBegins(p) \/ Faulty(p)
      PROVE  ChecksSeeBlocking'
  <2>1. PICK s \in ProcStates : ControlMove(p, s)
    BY <1>6, StopMoves, BeginMoves, FaultMoves
  <2>2. /\ procs'[p] = s
        /\ \A q \in Processes : q # p => procs'[q] = procs[q]
    BY <2>1, MovesTyped DEF ControlMove
  <2>3. /\ s.step \notin DispatchSteps /\ s.since \subseteq procs[p].since
        /\ \A x \in Routes : Blocking(x) => Blocking(x)'
    BY <2>1 DEF ControlMove, RevokeSteps, CallingSteps, DispatchSteps, CheckedSteps
  <2>4. sees(p)'
    BY <1>1, <2>2, <2>3 DEF Step, DispatchSteps
  <2> QED
    BY <1>2, <1>3, <2>2, <2>3, <2>4
<1>7. ASSUME NEW r \in Routes, ResolveUnrelated(r) PROVE ChecksSeeBlocking'
  <2>1. \A q \in Processes :
            /\ procs[q] \in ProcStates
            /\ procs'[q] = [procs[q] EXCEPT !.since = procs'[q].since]
            /\ procs'[q].since \subseteq procs[q].since
            /\ mode[r] # "stopped" => r \notin procs'[q].since
    BY <1>7, ResolveMoves DEF PipelineTypeOK
  <2>2. \A q \in Processes :
            /\ procs'[q].step = procs[q].step
            /\ procs'[q].unread = procs[q].unread
            /\ procs'[q].blocked = procs[q].blocked
    BY <2>1 DEF ProcStates
  <2>3. \A x : Blocking(x) => Blocking(x)' \/ (x = r /\ mode[r] # "stopped")
    BY <1>7 DEF ResolveUnrelated, Blocking
  <2>4. ASSUME NEW q \in Processes PROVE sees(q)'
    <3>1. sees(q) /\ procs'[q].since \subseteq procs[q].since
      BY <1>1, <2>1
    <3>2. \A x \in procs'[q].since : Blocking(x)'
      BY <2>1, <2>3, <3>1
    <3>3. /\ Step(q)' = "checking" =>
                procs'[q].blocked \/ procs'[q].since \subseteq procs'[q].unread
          /\ Step(q)' \in CheckedSteps => procs'[q].since = {}
      BY <2>2, <3>1 DEF Step
    <3> QED
      BY <3>2, <3>3
  <2> QED
    BY <1>2, <2>4
<1>8. ASSUME NEW r \in Routes,
             Commit(r) \/ Lose(r) \/ Pause(r) \/ Restart(r) \/ ReceiveAlert(r)
      PROVE  ChecksSeeBlocking'
  <2>1. \A x \in Routes : Blocking(x) => Blocking(x)'
    BY <1>8 DEF Commit, Lose, Pause, Restart, ReceiveAlert, Blocking, signalRows,
        PipelineTypeOK
  <2>2. procs' = procs
    BY <1>8 DEF Commit, Lose, Pause, Restart, ReceiveAlert
  <2> QED
    BY <1>2, <1>3, <2>1, <2>2
<1>9. CASE LateRevoke \/ UNCHANGED pipelineVars
  <2>1. procs' = procs /\ \A x \in Routes : Blocking(x) => Blocking(x)'
    BY <1>9 DEF LateRevoke, pipelineVars, Blocking, signalRows
  <2> QED
    BY <1>2, <1>3, <2>1
<1> QED
    BY <1>4, <1>5, <1>6, <1>7, <1>8, <1>9 DEF Next, Environment, Processes

-----------------------------------------------------------------------------
\* Acknowledgments of the revocation.

\* While the credential stands, a control process neither is acknowledged nor
\* takes an acknowledgment.
LEMMA NoFalseAck ==
    ASSUME PipelineTypeOK, NEW p \in Processes,
           StopContinues(p) \/ ControlBegins(p) \/ Faulty(p),
           ~credentialRevoked', Step(p) # "acked", ~procs[p].acked
    PROVE  procs'[p].step # "acked" /\ ~procs'[p].acked
PROOF
<1>1. procs \in [Processes -> ProcStates] /\ procs[p] \in ProcStates
    BY DEF PipelineTypeOK
<1>2. ASSUME NEW r \in Routes, LatchRoute(p, r) \/ EnsureRoute(p, r) \/ LatchFails(p, r)
      PROVE  procs'[p].step # "acked" /\ ~procs'[p].acked
  <2>1. LatchRoute(p, r) => procs'[p].step = "halting" /\ procs'[p].acked = procs[p].acked
    BY <1>1 DEF LatchRoute, ProcStates
  <2>2. EnsureRoute(p, r) => /\ procs'[p].step \in {"halting", "walking"}
                             /\ procs'[p].acked = procs[p].acked
    BY <1>1 DEF EnsureRoute, ProcStates
  <2>3. LatchFails(p, r) => /\ procs'[p].step = procs[p].step
                            /\ procs'[p].acked = procs[p].acked
    BY <1>1 DEF LatchFails, ProcStates
  <2> QED
    BY <1>2, <2>1, <2>2, <2>3 DEF Step
<1>3. CASE HaltGateway(p) \/ CallReceiver(p) \/ ReceiverRevokes(p) \/ RevokeTimesOut(p)
  <2>1. ~ReceiverRevokes(p)
    BY DEF ReceiverRevokes
  <2>2. PICK step \in {"draining", "calling", "noting"} : Goes(p, step)
    BY <1>3, <2>1 DEF HaltGateway, CallReceiver, RevokeTimesOut
  <2>3. procs'[p].step = step /\ procs'[p].acked = procs[p].acked
    BY <1>1, <2>2 DEF Goes, ProcStates
  <2> QED
    BY <2>2, <2>3
<1>4. CASE NoteRevocation(p) \/ RecordHost(p)
  <2>1. PICK step \in {"telling", "walking"} :
            procs' = [procs EXCEPT ![p].step = step, ![p].acked = FALSE]
    BY <1>4 DEF NoteRevocation, RecordHost
  <2>2. procs'[p].step = step /\ ~procs'[p].acked
    BY <1>1, <2>1 DEF ProcStates
  <2> QED
    BY <2>1, <2>2
<1>5. CASE WalkEnds(p) \/ Crash(p)
  <2>1. PICK step \in {"idle", "closed"} : procs' = [procs EXCEPT ![p] = At(step)]
    BY <1>5 DEF WalkEnds, Crash, Ends
  <2>2. At(step).step = step /\ ~At(step).acked
    BY <2>1, AtTyped DEF Steps
  <2>3. procs'[p] = At(step)
    BY <1>1, <2>1
  <2> QED
    BY <2>1, <2>2, <2>3
<1>6. ASSUME NEW asked \in SUBSET Routes, Stop(p, asked) \/ Update(p, asked)
      PROVE  procs'[p].step # "acked" /\ ~procs'[p].acked
    BY <1>1, <1>6 DEF Stop, Update, At
<1>7. ASSUME NEW r \in Routes, NEW received \in BOOLEAN,
             ResolveStopped(p, r, received)
      PROVE  procs'[p].step # "acked" /\ ~procs'[p].acked
    BY <1>1, <1>7 DEF ResolveStopped, At
<1>8. CASE Open(p)
    BY <1>1, <1>8 DEF Open, At
<1> QED
    BY <1>2, <1>3, <1>4, <1>5, <1>6, <1>7, <1>8
    DEF StopContinues, ControlBegins, Faulty

\* The receiver's revocation is never undone.
LEMMA RevocationStays == [Next]_pipelineVars /\ credentialRevoked => credentialRevoked'
PROOF
<1> SUFFICES ASSUME Next \/ UNCHANGED pipelineVars, credentialRevoked
             PROVE  credentialRevoked'
    OBVIOUS
<1>1. ASSUME NEW p \in Processes, DispatchContinues(p) PROVE credentialRevoked'
    BY <1>1 DEF DispatchContinues, ReadRoute, Reserve, ContextRefuses,
        SignalDecides, GatewayAdmits, Transmit, TakeReply, GiveUp, RecordGateway,
        RecordContext, receiverRows
<1>2. ASSUME NEW p \in Processes, StopContinues(p) PROVE credentialRevoked'
    BY <1>2 DEF StopContinues, LatchRoute, EnsureRoute, HaltGateway, CallReceiver,
        ReceiverRevokes, NoteRevocation, RecordHost, WalkEnds, Open, receiverRows
<1>3. ASSUME NEW p \in Processes, ControlBegins(p) \/ Faulty(p)
      PROVE  credentialRevoked'
    BY <1>3 DEF ControlBegins, Stop, ResolveStopped, Update, Faulty, LatchFails,
        RevokeTimesOut, Crash, receiverRows
<1>4. CASE Environment \/ UNCHANGED pipelineVars
    BY <1>4 DEF Environment, Commit, Lose, Pause, Restart, ReceiveAlert,
        ResolveUnrelated, LateRevoke, pipelineVars, receiverRows
<1>5. ASSUME NEW p \in Dispatchers, NEW r \in Routes, Begin(p, r)
      PROVE  credentialRevoked'
    BY <1>5 DEF Begin, receiverRows
<1> QED
    BY <1>1, <1>2, <1>3, <1>4, <1>5 DEF Next, Processes

LEMMA AcksStep ==
    ASSUME PipelineTypeOK, RoutesAreKnown, AcksAreTrue, [Next]_pipelineVars
    PROVE  AcksAreTrue'
PROOF
<1> SUFFICES ASSUME ~credentialRevoked' PROVE AcksAreTrue'
    BY DEF AcksAreTrue
<1>1. /\ hostRevoked = {}
      /\ \A q \in Processes : Step(q) # "acked" /\ ~procs[q].acked
    BY RevocationStays DEF AcksAreTrue
<1>2. ASSUME NEW p \in Processes, NEW s \in ProcStates, Moves(p, s),
             s.step # "acked", ~s.acked, hostRevoked' = hostRevoked
      PROVE  AcksAreTrue'
  <2>1. \A q \in Processes : procs'[q] = s \/ procs'[q] = procs[q]
    BY <1>2, MovesTyped
  <2> QED
    BY <1>1, <1>2, <2>1 DEF AcksAreTrue, Step
<1>3. ASSUME NEW p \in Dispatchers, NEW r \in Routes, Begin(p, r)
      PROVE  AcksAreTrue'
  <2>1. p \in Processes /\ hostRevoked' = hostRevoked
    BY <1>3 DEF Processes, Begin, signalRows
  <2>2. /\ procs'[p].step # "acked" /\ ~procs'[p].acked
        /\ \A q \in Processes : q # p => procs'[q] = procs[q]
    BY <1>3, <2>1, BeginRecord
  <2> QED
    BY <1>1, <2>1, <2>2 DEF AcksAreTrue, Step
<1>4. ASSUME NEW p \in Processes, DispatchContinues(p) PROVE AcksAreTrue'
  <2>1. PICK s \in ProcStates : DispatchMove(p, s)
    BY <1>4, DispatchMoves
  <2>2. /\ Moves(p, s) /\ ~s.acked /\ hostRevoked' = hostRevoked
        /\ s.step # "acked"
    BY <1>1, <2>1 DEF DispatchMove, signalRows, CheckedSteps
  <2> QED
    BY <1>2, <2>2
<1>5. ASSUME NEW p \in Processes, StopContinues(p) \/ ControlBegins(p) \/ Faulty(p)
      PROVE  AcksAreTrue'
  <2>1. PICK s \in ProcStates : ControlMove(p, s)
    BY <1>5, StopMoves, BeginMoves, FaultMoves
  <2>2. Moves(p, s) /\ procs'[p] = s
    BY <2>1, MovesTyped DEF ControlMove
  <2>3. s.step # "acked" /\ ~s.acked
    BY <1>1, <1>5, <2>2, NoFalseAck
  <2>4. hostRevoked' = hostRevoked
    BY <1>1, <1>5 DEF StopContinues, LatchRoute, EnsureRoute, HaltGateway,
        CallReceiver, ReceiverRevokes, NoteRevocation, RecordHost, WalkEnds, Open,
        ControlBegins, Stop, ResolveStopped, Update, Faulty, LatchFails,
        RevokeTimesOut, Crash, signalRows
  <2> QED
    BY <1>2, <2>2, <2>3, <2>4
<1>6. ASSUME NEW r \in Routes, ResolveUnrelated(r) PROVE AcksAreTrue'
  <2>1. \A q \in Processes :
            /\ procs[q] \in ProcStates
            /\ procs'[q] = [procs[q] EXCEPT !.since = procs'[q].since]
    BY <1>6, ResolveMoves DEF PipelineTypeOK
  <2>2. \A q \in Processes :
            procs'[q].step = procs[q].step /\ procs'[q].acked = procs[q].acked
    BY <2>1 DEF ProcStates
  <2> QED
    BY <1>1, <1>6, <2>2 DEF ResolveUnrelated, AcksAreTrue, Step
<1>7. ASSUME NEW r \in Routes,
             Commit(r) \/ Lose(r) \/ Pause(r) \/ Restart(r) \/ ReceiveAlert(r)
      PROVE  AcksAreTrue'
    BY <1>1, <1>7 DEF Commit, Lose, Pause, Restart, ReceiveAlert, signalRows,
        AcksAreTrue, Step
<1>8. CASE LateRevoke \/ UNCHANGED pipelineVars
    BY <1>1, <1>8 DEF LateRevoke, pipelineVars, AcksAreTrue, Step
<1> QED
    BY <1>3, <1>4, <1>5, <1>6, <1>7, <1>8 DEF Next, Environment, Processes

-----------------------------------------------------------------------------
\* The invariant holds.

LEMMA InitInv == Init => IInv
PROOF
<1> SUFFICES ASSUME Init PROVE IInv
    OBVIOUS
<1>1. \A p \in Processes :
          /\ procs[p] \in ProcStates /\ procs[p].step = "idle"
          /\ ~procs[p].updating /\ ~procs[p].acked /\ procs[p].since = {}
    BY AtTyped DEF Init, Steps
<1>2. PipelineTypeOK
  <2>1. procs \in [Processes -> ProcStates]
    BY <1>1 DEF Init
  <2>2. faults \in 0 .. MaxFaults
    BY PipelineAssumption DEF Init
  <2> QED
    BY <2>1, <2>2 DEF Init, PipelineTypeOK
<1>3. RoutesAreKnown /\ LockIsExclusive
    BY <1>1 DEF Init, RoutesAreKnown, LockIsExclusive, HoldExcludesDispatch, Step,
        DispatchSteps, CheckedSteps, CallingSteps
<1>4. StoresInLine /\ CallsInLine
    BY <1>1 DEF Init, StoresInLine, CallsInLine, CallInLine, Step, SendingSteps
<1>5. ReservedWithin
  <2>1. Reserved = {}
    BY DEF Init, Reserved
  <2> QED
    BY <2>1, FS_EmptySet, PipelineAssumption DEF ReservedWithin
<1>6. ChecksSeeBlocking /\ AcksAreTrue
    BY <1>1 DEF Init, ChecksSeeBlocking, AcksAreTrue, Step, CheckedSteps
<1> QED
    BY <1>2, <1>3, <1>4, <1>5, <1>6 DEF IInv

LEMMA StepInv == IInv /\ [Next]_pipelineVars => IInv'
PROOF
    BY StepTypes, LockStep, StoresStep, BudgetStep, ChecksStep, AcksStep DEF IInv

\* The strengthening of the theorems below is an invariant of both pipelines.
THEOREM Invariance == Spec => []IInv
PROOF
    BY InitInv, StepInv, PTL DEF Spec

\* Whatever is dispatched, crashes and reopens, the stores of the four layers
\* tell one story: no more requests than the budget leave the pipeline over all
\* routes, and each layer's record is below that of the layer above it.
THEOREM StoresAlwaysAgree == Spec => []StoresAgree
PROOF
<1>1. IInv => StoresAgree
  <2> SUFFICES ASSUME IInv PROVE StoresAgree
    OBVIOUS
  <2>1. PipelineTypeOK /\ StoresInLine /\ ReservedWithin
    BY DEF IInv
  <2>2. BudgetSpansRoutes
    <3> DEFINE sent == {r \in Routes : requests[r] # "none"}
    <3>1. sent \subseteq Reserved
      BY <2>1 DEF StoresInLine, Reserved
    <3>2. IsFiniteSet(Reserved) /\ Cardinality(Reserved) <= Budget
      BY <2>1 DEF ReservedWithin
    <3> HIDE DEF sent
    <3>3. /\ IsFiniteSet(sent) /\ Cardinality(sent) <= Cardinality(Reserved)
          /\ Cardinality(sent) \in Nat /\ Cardinality(Reserved) \in Nat
      BY <3>1, <3>2, FS_Subset, FS_CardinalityType
    <3>4. Cardinality(sent) <= Budget
      BY <3>2, <3>3, PipelineAssumption
    <3> QED
      BY <3>4 DEF BudgetSpansRoutes, sent
  <2>3. LayersAgree
    <3> SUFFICES ASSUME NEW r \in Routes
                 PROVE  /\ intents[r] # "none" => attempts[r] # "none"
                        /\ r \in effects => intents[r] \in {"unknown", "observed"}
                        /\ attempts[r] = "observed" => r \in effects
                        /\ attempts[r] = "blocked" =>
                              r \notin effects /\ requests[r] # "inflight"
      BY DEF LayersAgree
    <3> QED
      BY <2>1 DEF StoresInLine, PipelineTypeOK
  <2> QED
    BY <2>1, <2>2, <2>3 DEF StoresAgree
<1> QED
    BY <1>1, Invariance, PTL

\* A route that is latched, or whose alert stays open, since before a dispatch
\* of the successor began keeps it from every signal gate: blocking_routes is
\* read in several transactions but never misses it.
THEOREM BlockingHoldsAll == Spec => []BlockingRouteHoldsAll
PROOF
<1>1. IInv => BlockingRouteHoldsAll
    BY DEF IInv, ChecksSeeBlocking, BlockingRouteHoldsAll, CheckedSteps, SendingSteps
<1> QED
    BY <1>1, Invariance, PTL

\* While the pipeline is held, by an update that runs or by one that failed or
\* died, no dispatch is past its check of the hold.
THEOREM HoldExcludes == Spec => []HoldExcludesDispatch
PROOF
<1>1. IInv => HoldExcludesDispatch
    BY DEF IInv, LockIsExclusive
<1> QED
    BY <1>1, Invariance, PTL

-----------------------------------------------------------------------------
\* What a step may never do.

\* Only the receiver's commit takes effect, and not after a revocation under
\* the continuous policy.
LEMMA OnlyCommitTakesEffect ==
    ASSUME PipelineTypeOK, RoutesAreKnown, [Next]_pipelineVars
    PROVE  effects' = effects \/ ~credentialRevoked \/ Policy # "continuous"
PROOF
<1>1. ASSUME NEW r \in Routes, Commit(r)
      PROVE  effects' = effects \/ ~credentialRevoked \/ Policy # "continuous"
    BY <1>1 DEF Commit
<1>2. ASSUME NEW p \in Processes, DispatchContinues(p) PROVE effects' = effects
    BY <1>2, DispatchMoves DEF DispatchMove
<1>3. ASSUME NEW p \in Processes, StopContinues(p) \/ ControlBegins(p) \/ Faulty(p)
      PROVE  effects' = effects
    BY <1>3, StopMoves, BeginMoves, FaultMoves DEF ControlMove
<1>4. ASSUME NEW p \in Dispatchers, NEW r \in Routes, Begin(p, r)
      PROVE  effects' = effects
    BY <1>4 DEF Begin, receiverRows
<1>5. ASSUME NEW r \in Routes,
             \/ Lose(r) \/ Pause(r) \/ Restart(r) \/ ReceiveAlert(r)
             \/ ResolveUnrelated(r)
      PROVE  effects' = effects
    BY <1>5 DEF Lose, Pause, Restart, ReceiveAlert, ResolveUnrelated, receiverRows
<1>6. CASE LateRevoke \/ UNCHANGED pipelineVars
    BY <1>6 DEF LateRevoke, pipelineVars
<1> QED
    BY <1>1, <1>2, <1>3, <1>4, <1>5, <1>6 DEF Next, Environment, Processes

\* Once one route's signal gate has recorded host_revoked, nothing of either
\* route takes effect any more under the continuous policy: not what is in
\* flight, not what another process sends.
THEOREM RevocationRecordedIsFinal == Spec => RecordedRevocationIsFinal
PROOF
<1>1. IInv /\ [Next]_pipelineVars =>
          [Policy = "continuous" /\ hostRevoked # {} => effects' = effects]_pipelineVars
  <2> SUFFICES ASSUME IInv, [Next]_pipelineVars,
                      Policy = "continuous", hostRevoked # {}
               PROVE  effects' = effects
    OBVIOUS
  <2>1. credentialRevoked
    BY DEF IInv, AcksAreTrue
  <2> QED
    BY <2>1, OnlyCommitTakesEffect DEF IInv
<1> QED
    BY <1>1, Invariance, PTL DEF Spec, RecordedRevocationIsFinal

=============================================================================
