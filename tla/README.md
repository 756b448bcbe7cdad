# A TLA+ model of Project Simurgh

Simurgh is two things in one repository. One decides whether an agent's proposed
action may still take effect after its task has been stopped, its authority
revoked or its monitor gone silent: the stack of gates under `tools/assurance-*`
(Python). The other collects evidence and keeps it honest: the Node server
(`server.js`, `src/`) with its exam sessions, device and integrity nodes, signed
audit chains, LLM shield and consent pilots, and the offline verifiers of signed
histories under `tools/simurgh-attestation` (JavaScript).

This directory models the gates from the receiver to the composed pipeline, the
Node server's stateful parts, and the latest verifier; it checks the models with
TLC on small instances and proves every safety property that holds with TLAPS,
for all instances.

- [1. The system](#1-the-system)
- [2. The modules](#2-the-modules)
- [3. What is checked](#3-what-is-checked)
- [4. What is proved](#4-what-is-proved)
- [5. Disagreements between the code and its documents](#5-disagreements-between-the-code-and-its-documents)
- [6. What is not modelled](#6-what-is-not-modelled)
- [7. Plan](#7-plan)

## 1. The system

### The gates

```
            BoundSession.dispatch                    alerts    operator   monitor
                    |                                   |          |         |
   pipeline lock, held flag  (composition.py, successor.py)        |         |
                    |                                   |          |         |
            Session.dispatch                            |          |         |
   context ledger: grants, facts, budget, attempts      |          |         |
                    |            (context_gate.py)      |          |         |
        +-----------+-----------+                       v          v         v
        v                       v
   signal gate a           signal gate b     latch, lease, inbox, decisions
        |                       |                            (signals.py)
   credential gateway a    credential gateway b     one intent each, stop flag
        |                       |                            (gateway.py)
        +---- HTTP, 3 s --------+
                    v
   receiver: credentials, sessions, effects, event log       (service.py)
```

Every store is a sqlite file of its own. A layer changes its store in `BEGIN
IMMEDIATE` transactions and calls the layer below between two of them; there is
no transaction over two stores. Several processes may open the same stores, any
of them may die at any step, and the network between gateway and receiver may
lose or delay what it carries.

### The Node server

```
 students   tokenless clients   instructor     timers (5 min)
     |            |                 |              |
 rate limits, instructor back-off, token check, closed-session check
     |            |                 |              |
 exam routes   telemetry route   reports       evictions
     |        /   |       \          |              |
 examSessions   sessions (last seen, peak, history, audit chain)
            |         |  await
 replay guard, nonce guard      model call (may be slow, may fail)
 device registry: challenges, pairings, records, display lock
 integrity registry: pending pairings, paired node, bound node

 /llm-shield  : shield sessions, contained runs
 /gateway     : runs with one fallback hop; an export guard at the mount
 /banking, /voting pilots : consent, submission, withdrawal, report
```

Node runs one handler at a time, so a handler is atomic up to its `await`. The
state is in memory; what makes it hard is that tables are evicted by timers and
by caps independently of each other, that several registries describe one
session, and that two handlers (telemetry, gateway run) wait for an answer in the
middle and write afterwards.

### The verifier of histories (stage 5S)

A bundle holds two signed checkpoints of one producer, statements of witnesses,
receipts of receivers, a committed chain and the policies for them. `evaluate`
judges it in a frozen order and may mint an equivocation artifact, which
`verifyEquivocationArtifact` judges again, without the bundle. Bundles grow: the
verdict on a larger bundle must not silently take back the one on a smaller.

### Components

| Component | State | Operations | What makes it hard | What makes it correct |
| --- | --- | --- | --- | --- |
| **Receiver** `assurance-credentials/service.py` | tables `credentials`, `sessions`, `effects`, `events`; a logical clock; an armed lost-response fault | issue, revoke, cancel, advance, login, send | logins race with revocations; a queued request commits after its sender gave up; retries under one idempotency key | one effect per key; no effect after an acknowledged revocation (continuous policy); `observed` is always backed by a row |
| **Credential gateway** `gateway.py`, `transport.py` | `stopped`, `revocation`, `ack_seq`, one intent row; an advisory file lock | dispatch, revoke | a crash on either side of the transmission; time-outs; a revoker that waits for the lock of a dispatcher that waits for the network | one delivery at most, under a durable intent; outcomes never misreport; a stored acknowledgment bounds the credential's effects; every call returns |
| **Signal gate** `assurance-signals/signals.py` | `terminal`, `paused`, `revision`, the monitor lease, the inbox, spent nonces, events | heartbeat, receive, resolve, provider_error, restart, dispatch | the lease lapses by the clock alone; decisions can be replayed; the host is called outside the transaction that latches | a stop is never undone; a pause is undone only by a fresh decision for this revision; alerts hold dispatch; a stop reaches the host |
| **Context gate** `assurance-context/context_gate.py` | `source`, `revision`, `grants`, `facts`, `attempts` | fact, change_source, delegate, revoke, checkpoint, resume, dispatch | sessions hold what they read when they were opened; the source may change and change back; two sessions share the last unit of a budget | delegation only narrows; revocation reaches descendants; the budget counts unknown outcomes; an attempt is handed over once |
| **Pipeline** `assurance-composed/composition.py` and its successor `assurance-composed-successor/successor.py` | the `held` flag, a lock, the stores of two routes | create, open, dispatch, alerts, stop, transport errors, update, resume | one dispatch writes four stores; both routes share one credential; an update may raise half-way; a stop may fail on one route | the layers never contradict each other; a latched route holds its siblings; nothing is dispatched on half an update; a stop reaches the receiver |
| **Exam sessions** `server.js`, `academic/` | `sessions`, `examSessions`, `legacySessionIds`, tokens, timelines | join, privacy, start, submit, report, telemetry, evictions | two tables evicted one after the other; a submission during the model call; expiry of tokens | joined sessions and records stay paired; nothing comes back; a submitted chain says so; the worst window reaches the report |
| **Device and integrity nodes** `device/`, `integrity/` | challenges, pairings, device records, display lock; pending pairings, bound node, nonces | challenge, pair, prove, observe, evict | one table of challenges for all sessions; two registries that bind a node; nonces are forgotten | a proof counts only against a live challenge of its session and purpose; one node for each session; a proof is used once |
| **Guards and limits** `security/` | rows of sequence and time; buckets; back-off counters; token buckets | check, count, sweep, evict | every table is capped, and forgetting is what a cap does | nothing is accepted twice; a throttled key is not freed by a flood of others; bursts are bounded |
| **Audit chain** `audit/` | entries, previous hash, `truncated` | append, verify, verify an export | the cap; a chain cut short verifies | appending keeps it sealed; a cut shows only in the count |
| **LLM shield and gateway** `llmShield/` | sessions with risk, repetition and chain | plain run, contained run, gateway run with a hop, export | runs of one session overlap across awaits; the router decides, and the mount decides again | risk only grows; nothing leaves with a better verdict than its risk; softening is recognised for good |
| **Consent pilots** `bankingPilot/`, `votingPilot/` | records, chains, risk | consent, submit, reject, withdraw, report, export, explain | each call logs before or after it changes the record | log, record and verdict tell the same |
| **Stage 5S verifier** `stage5s/core/` | none between calls; the bundle grows | evaluate, derive, verify, rejudge | order of refusals, partial chains, borrowed keys, replays | a quorum is earned; an accusation is founded and stands; witnesses cannot silence it |
| Recovery controller, connector | a recovery table; an intent table with retry and reconciliation | handle, stop; dispatch, revoke, reconcile | see their hazards | one recovery for each key; a reconciliation is not contradicted later |
| Other verifiers, experiments, viewers, daemons | none between calls | verify one bundle, run one study | none that is concurrent | each verdict follows from the bundle |

`PROJECT.json` names every component with its files, and under `hazards` the
places where this code can go wrong in a way a test would hardly reach, each
with the properties that cover it.

## 2. The modules

| Module | Models | Instances |
| --- | --- | --- |
| `CredentialReceiver` | `Store` and the three request handlers of `service.py` | `MCCredentialReceiver` |
| `CredentialGateway` (extends the receiver) | `Gateway` and the HTTP client | `MCCredentialGateway` |
| `OneShotDelivery` | what a gateway in front of an unreliable receiver promises | refined by `CredentialGateway` and by `ContextGate` |
| `SignalGate` | `SignalGate` and `SuccessorSignalGate` | `MCSignalGate` |
| `AdmissionLatch` | what admission control promises | refined by `SignalGate` |
| `ContextGate` | `ContextGate` and `Session` | `MCContextGate` |
| `ComposedPipeline` | `Pipeline`, `BoundSession` and their successors, over all layers | `MCComposedPipeline` |
| `AuditChain` | `hmacChain.js`, `verifyAudit.js` | used by `ExamServer`, `ConsentPilots` |
| `AcademicRisk` | `riskScoring.js`, `scannerRiskPolicy.js`, the telemetry schema | used by `ExamServer` |
| `DeviceTrust`, `IntegrityTrust` | the device registry; the integrity registry | values of `ExamServer` |
| `ExamServer` | the exam, telemetry, device and integrity routes and the timers of `server.js` | `MCExamServer` |
| `FreshnessGuards` | `replayGuard.js`, `nonceGuard.js` and the session eviction they depend on | `MCNodeParts` |
| `RequestLimits` | `rateLimit.js`, the instructor back-off, the telemetry token bucket | `MCNodeParts` |
| `ShieldPolicy` | the firewalls' verdicts, risk points, fallback policy | used by the two below |
| `ShieldRouter`, `ShieldGateway` | the shield's plain and contained runs; the gateway's runs and what the mount exports of them | `MCNodeParts` |
| `ConsentPilots` | both pilots' routes | `MCNodeParts` |
| `HistoryRelation`, `WitnessLanes` | checkpoints, ancestry and comparison; witness tally and receiver intake | used by `HistoryVerdict` |
| `HistoryVerdict` | `evaluate`, the artifact and its verification, over a growing bundle | `MCHistoryVerdict` |
| `CredentialReceiverProofs`, `CredentialGatewayProofs`, `SignalGateProofs`, `ContextGateProofs`, `ComposedPipelineProofs`, `ExamServerProofs`, `HistoryVerdictProofs` | theorems about the modules they are named for; `ExamServerProofs` is also about `AcademicRisk` and `AuditChain` | |
| `NodePartsProofs` | theorems about `FreshnessGuards`, `RequestLimits`, `ShieldRouter`, `ShieldGateway`, `ConsentPilots` | |

Names follow the code where TLA+ allows it. `map` in `PROJECT.json` ties every
definition to the lines it stands for. A definition whose comment begins with
"Mutant:" is not part of the model: it is the definition after it with one
plausible mistake, and the check makes sure that a property notices.

### Conventions

*A transaction is an action.* `BEGIN IMMEDIATE` makes a transaction atomic with
respect to the other users of its store, and an exception rolls it back. A call
to another store or over the network is an action of its own, and the process
record says between which two actions a process is (`phase`, `step`).

*Processes share stores, not memory.* A crash forgets the process record and
nothing else; the operating system releases its locks. A process that opens the
store again starts with what the store says.

*The wire.* A request is in a client's slot from the moment it leaves until the
receiver answers or drops it. Whoever waits may give up at any time; what it sent
may still arrive. A revocation whose caller is gone goes on in `lateRevokes`
(`lateRevoke` in the pipeline).

*Data.* Bodies, keys and bearer secrets are members of small sets. A secret is a
capability for one row, so a request names the session it authenticates as.
Digests are the identity of what they digest; the idempotency key is a separate
field, because the code hashes identity and id but not the body. A signature
check is its outcome.

*Clocks.* The receiver's clock is the logical clock of its store. The signal
gate's is the host's monotonic clock, which starts again with every boot and is
compared together with the boot's identity. The Node server's clocks are one
`now` per module, moved by an action of its own; times to live are constants, and
the assumptions beside them are the relations the code's values satisfy.

*Handlers.* A Node handler is one action, with every check and early return in
the order of the code; one with an `await` is two. What a timer deletes is an
action that may occur at any time the code's condition holds. Pure code is
operators, and a registry that several handlers use is a value they pass on.

### Correspondence

**`CredentialReceiver`.** `credentials`, `sessions`, `effects`, `log` are the
tables (`log` is `events`, with the kinds that matter to order). `Issue`,
`AdminRevoke`, `Cancel`, `Advance`, `DropNext` are the administrator's calls,
`Login` the login, `Submit`/`Commit`/`Answer`/`Lose`/`Close` the stages of one
effect request: the threaded server accepts it, `Store.send` commits it, the
handler answers or drops the connection.

**`CredentialGateway`.** `BeginDispatch` waits for the lock; `Admit` checks the
approved action, the stop and the intent row and stores the intent; `Transmit`,
`TakeReply`, `GiveUp` are the call; `Record` stores the outcome and releases the
lock. `StopLocally` stores the stop *before* the lock is asked for, as the code
does; `BeginRemoteRevoke` takes the lock; `RemoteRevoke`, `TakeAck`, `LoseAck`,
`RevokeTimeout`, `RecordRevocation` are the relayed revocation.

**`SignalGate`.** One action for each transaction of `heartbeat`, `restart`,
`receive`, `resolve`, `provider_error`, `dispatch`, and for the host's `revoke`
between them. `LatchLapse` is `_health`: the first transaction that meets an
expired lease pauses the gate and raises the revision. `Successor` chooses the
subclass, which keeps authentic events of a wrong shape and drives a revocation
again on redelivery and on opening (`EnsureRevoked`).

**`ContextGate`.** A handle is a `Session` object: it remembers the source and
the permission of its `resume`. `Admit` and `Record` are the two transactions of
`Session.dispatch`; `HandOver`, `HostAnswers` and `Deliver` the host in between,
which may carry an action out at any later time unless it has refused it.
Revisions count every durable change, as in the code, so that a checkpoint is
compared by its revision.

**`ComposedPipeline`.** A layer appears as far as the others can see it. A
dispatch is the walk `checking`, `context`, `guarding`, `signal`, `locking`,
`sending`, `waiting`, `recording`, `result`; the first and third check exist in
the successor only. The pipeline's lock (`PipelineFree`) is held through a
dispatch and through an update. `Stop`, a transport error, an update's operation
and the opening of the successor are walks over the routes: a stopping walk
latches each route and revokes its host, the other kind revokes what is latched
already. `SignalDecides` may block at any time for reasons `SignalGate` has and
this module has not (`Pause`, `Restart`, `ReceiveAlert` are free to occur).

**`ExamServer`.** `sessions`, `legacy`, `exams`, `timeline` are the tables of
`server.js`; `tokenExp` is the expiry inside the last token issued; `calls` the
telemetry requests that wait for the model. `Telemetry` is the route up to its
`await` (or its answer) and `ModelReply` the rest. `dev` and `node` are values of
`DeviceTrust` and `IntegrityTrust`, whose operators return the reason a request
is refused or the registry it leaves. `EvictSessions` and `EvictExams` are the two
timers. A client's possible requests are constant sets (`DevicePairings`,
`NodeProofs`, `Mixes`), each with one that passes and one that fails each check.

**`FreshnessGuards`.** A message is its session, sequence number and timestamp.
`taken` and `used` are history: how often each message and proof was accepted. `EvictSessions` drops
the rows of sessions that were idle for `SessionTtl`, as `server.js` does when it
calls `replayGuard.evict`.

**`RequestLimits`.** A table of buckets is a sequence, because a JavaScript `Map`
is scanned in insertion order: `Scan` looks at the first `ScanLimit` of them, and
a renewed bucket goes to the end. The limiter, the instructor's back-off and the
token bucket share a clock and nothing else.

**`ShieldGateway`.** `Begin` is a run up to its first `await`, `Answer` what
follows each answer: a hop to the fallback model, or the end. `Finished` scores
the run into its session. `prior` in a trail entry is the verdict of the attempt
that was replaced, which the receipt's chain of swaps stands for, and `exported`
the verdict that leaves the process: `GuardGatewayExport` is the guard `server.js`
wraps around the response (610-649), which corrects the router's decision.
`ExportGuard` is the switch `SIMURGH_GATEWAY_EXPORT_GUARD`; the guard is on unless
it is set to 0. `flagged` says what the export scan would find in a run's text.
Live mode has no action: the mount answers it 410 before the router
(`server.js:572-578`, whose comment says that the billable gateway did not account
for every attempt), so the router's ledger of live calls is never reached.

**`ConsentPilots`.** `pilot` says which of the two a behaviour is of, and `store`
holds its records; a record's `chain` is a value of `AuditChain`.

**`HistoryVerdict`.** The state is the bundle, the last verdict on it, and an
artifact published from it. `Submit*`, `CommitRecord` add to the bundle, `Rejudge`
judges it. `FrozenOrder` is the order of refusals, and `FirstFailure` picks the
first; a digest is what it is taken over. `ArtifactGroups` asks what a stranger asks,
the size of the question first (`MaxChain`, `MaxReceipts`, `TooLarge` are
`RESOURCE_BOUNDS`). A committed record has its place in the list, so that one given
twice is two, and may be malformed. `structural` is what validating the fields that
are not modelled (of policies, manifest and checkpoints) finds wrong.

## 3. What is checked

`tlc -config <cfg> <module>`. Every run takes at most a few minutes on two cores.

| Run | Shows |
| --- | --- |
| `receiver` | Under the snapshot policy, with two credentials, two connections and retries under one key: one effect for each key and no caller misled, every effect is of a session logged in before each revocation of its credential, and a cancelled session acts no more |
| `gateway_continuous` | Two gateways on one credential under the continuous policy: no effect after a revocation, the acknowledgment bound, honest records, refinement of `OneShotDelivery` |
| `signal_gate` | Two processes of the successor with leases, lapses, reboots, crashes between latch and host, and two signed decisions presented at any time: inbox, latch and host agree, alerts hold dispatch, only a decision made on the present revision and boot resumes, refinement of `AdmissionLatch` |
| `context_sessions` | Two sessions on the last unit of a budget, a chain of three actors below the root and a peer of another task, with crashes and an ABA change of source: authority is bounded, revocation reaches descendants' sessions, exact checkpoints, refinement of `OneShotDelivery` |
| `composed_stack` | The successor, one process dispatching and one in control, with a crash or a revocation call that times out: agreement of the stores under one budget, a latched route holds its sibling, no dispatch during or after a broken update, and a recorded `host_revoked` ends effects through *both* routes |
| `composed_progress` | A process that dies after a latch is followed by the revocation of the credential once the successor is opened again, and a stop of both routes reaches the receiver although the latch of one fails |
| `exam_server` | Two session ids and every route, with timers and expiry at any time: tables agree, sessions never come back, a submitted chain says so, evidence is kept across the model call, devices and nodes spend live challenges |
| `node_parts` | Eight independent parts, one for each initial value of `part`: freshness, three limiters, the gateway, the shield, the pilots, the verifier |
| `signal_garbled`, `exam_late_verdict`, `history_outvoted` | Counterexamples, see section 5 |

Each property has a mutant in `PROJECT.json`: a plausible mistake in one
definition that makes TLC find the property violated under the run's own bounds.
Some properties are conjunctions of facts about one hazard, each a definition of
its own: `EffectsAreRecorded`, `RecordsAreHonest`, `AuthorityIsBounded`,
`LedgerMovesOn`, `StoresAgree`, `TablesAgree`, `EvidenceIsKept`, `LimitsHold`,
`RiskOnlyGrows`, `NeverLaundered`, `PilotsTellAll`. Type invariants are conjuncts
of the first that speaks of the same state, or part of a proof (section 4).

### Properties worth a second look

* `AckBoundsEffects`: an acknowledgment is a *position in the receiver's log*,
  and several revocations of one credential by several gateways may be under way.
  It says that whichever position a gateway has kept, it is a revocation of its
  credential and later than each of that credential's effects.
* `LoginPrecedesRevocation` and `AcknowledgedIsDrained` say what is left under
  the snapshot policy, where a revoked credential's sessions go on: they were all
  opened before, and a gateway that was acknowledged has nobody on the way except
  a request whose sender gave up.
* `PauseInvalidatesDecisions`: a revision names one pause. The revision is *not*
  raised when a second lapse is noticed while the gate is paused already, so a
  decision signed between two lapses stays valid for the pause they share.
* `BudgetHolds`, `BudgetSpansRoutes`: a blocked attempt stays charged. This is
  what the code does, and why a dispatch that a signal gate refuses uses up the
  composed pipeline's only attempt.
* `BlockingRouteHoldsAll` speaks of routes that have been blocking since the
  dispatch began. A sibling that is stopped after the second check does not hold
  a dispatch that is admitted already; the successor's README documents that
  window, and `RecordedRevocationIsFinal` is what closes it.
* `TelemetryOnce`: eviction forgets the highest sequence number of a session that
  is still alive, and a row keeps its *last* timestamp, which may be older than
  its newest by the whole window. That is why the assumption asks for twice the
  past window.
* `LimitsHold`: a bucket that is throttling survives any flood of other keys: the
  eviction scan passes over it. That the scan may be bounded rests on the front of
  the map being the oldest, since a renewed bucket moves to the end.
* `VerdictFindsSession` needs `CallMax < SessionTtl`: a verdict is written without
  asking again whether the session is there, and what saves it is that the model
  client's timeout is shorter than the eviction time.
* `NoResurrection` needs `TokenTtl <= SessionTtl`: whoever could touch an evicted
  session holds a token that has expired by then.
* `EvidenceSpendsChallenge`: a challenge is consumed in the middle of a handler;
  whatever the checks before and after it say, a device is paired or a proof
  counted only in a step that spends a live challenge of this session and purpose.
* `NeverLaundered` is about two layers. The router computes its verdict from the
  last attempt, and of the risk only `warning` holds it back; what makes the
  stage 3R note's "the verdict can only hold or worsen" true is the guard at the
  mount. The mutant is a guard that looks at the run and not at its session.
* `AccusationStands`: the committed chain may grow after an artifact is published.
  The fuller record upholds it too, with two exceptions that the property names: the
  record contradicts itself (two records of one body, or a malformed one), or it is
  longer than the 4096 records a stranger reads. It never refutes it. A statement
  bound to the wrong checkpoint does withdraw an accusation of the evaluator, as documented.

### Bounds

| Bound | Value | Why it is enough |
| --- | --- | --- |
| Credentials, gateways, workers | 2 | one to be revoked and one to be confused with it; two dispatchers give every race on a row; the proofs of section 4 drop this bound |
| Revokers | 1 | with crashes and late requests, two revocations of a credential overlap; the proof covers more |
| `MaxTime` (gates) | 1 | a session or credential is valid and then is not; a monitor lease and a decision that each last 1 run out |
| `MaxSessions`, `MaxLog` (receiver) | 1–2, 2–3 | the longest orders the properties speak of: session, revocation, effect |
| `MaxCalls` (gateway) | 3 | a call, its repetition after a crash or time-out, and a competitor |
| `MaxBoots`, `MaxCrashes`, `MaxSigned` | 1–2 | a lease or decision of an earlier boot; a decision kept from one pause and presented in the next; a crash after a pause |
| `Alerts` (signal gate) | 2 | one about this conversation and one about another; `misshapen` and `mixed` events are in the proofs, not in a passing run: they stay pending like an alert whose lookup fails |
| `MaxRevision` (context) | 4 | a change, its reversal, a delegation below a delegation and a revocation; afterwards only dispatches go on |
| `Budget` | 1 | what the composed pipeline fixes it at; the last unit is what two sessions or two routes race for |
| Routes, processes (pipeline) | 2 | a route and its sibling; a dispatcher and whoever stops or updates. In `composed_progress` both are controllers, which contend for the lock of a gateway |
| `MaxFaults` | 1 | a single fault of either kind, at every step |
| Exam server: ids, clock, `ChainCap` | 2, 3, 3 | a joined and a tokenless session; a time to live of 2 passes and one tick more; a chain that is cut short |
| Exam server: `Mixes` | 4 | which routes are used together: exam with telemetry, telemetry with a device, exam with a node, report beside a stranger. Each pair of routes that share a table is in one of them |
| Freshness: windows 1, lives 3, clock 5 | | the least values the assumptions allow, so that forgetting happens as early as it may |
| Limits: 3 keys, 2 buckets, scan of 1 | | one key more than the table holds, and a scan that does not see the whole table |
| Gateway: 2 requests, 3 runs | | two runs of a session that await at once, each with a hop, and one that meets the score they leave |
| Shield: 3 runs | | soft, something else, soft again |
| Pilots: 1 record, chain of 6 | | every order of the calls on a record; records share only the cap on active ones |
| Verifier: 7 bundles, `MaxChain` 3, `MaxReceipts` 1 | | forks still being witnessed, advances with eleven late records (a repeated and a malformed one among them), a forged view, a missing manifest, a claim of quorum, a field of an unknown form; an accusation is upheld over two and three records and meets a contradiction or a fourth |

`CHECK_DEADLOCK FALSE` stands where a bound on sessions, log, calls or time ends
the behaviour. Symmetry is used for safety only. In `node_parts` a part's state
does not move in a run of another part, so the parts cost their sum and not their
product.

### Fairness

Only `composed_progress` assumes fairness. It is weak, per process, and on the
steps a process takes once it has begun a call: a step is a local transaction, or
a call that ends by a time-out (3 s in `transport.py`, 10 s for sqlite) if not
otherwise. `Open` is among the fair steps, since what is promised depends on a
dead process being started again; how often it dies is bounded. Nothing makes a
process begin a call, and the wire and the operator are never assumed to do
anything. There is one fault: a failing latch on each route would defeat the stop,
and a time-out of the only call leaves a route for the next opening or redelivery,
which the code does not promise will come. The Node server and the verifier
promise nothing that must eventually happen beyond answering a request, which is
one or two actions here.

## 4. What is proved

TLAPS checks eight modules for every value of the constants that satisfies the
named assumptions of the modules they extend. Every invariant and action property
that the runs of section 3 find to hold is a theorem here (`AuthenticAlertsHold` under
an assumption, see below); so are the refinements.
Each state machine is treated alike: types; one lemma for each step or group of
steps; the inductive invariant; then the properties, each from the invariant. The
assumptions say what the code's constants satisfy (a budget is positive, a call
times out before its session can be evicted); bounds such as `MaxTime` are only
assumed to be natural numbers.

**`CredentialReceiverProofs`**: `ReceiverInvariance`, `EffectsRecorded`
(`EffectsAreRecorded`), `LoginComesFirst` (`LoginPrecedesRevocation`),
`CancellationIsFinal` (`CancelFinal`). That nothing in the log follows a
revocation or cancellation rests on the tables the handlers look at, so
`ReceiverInv` ties the one to the others: what the log says was revoked or
cancelled is so in its table (`LoggedIsRevoked`, `LoggedIsCancelled`), and each
row of the sessions has its login in the log before any revocation of its
credential (`SessionsAreLogged`). Every action is first shown to be one of five
ways of moving the tables and the log (`StoreMoves`); the log's properties are
then proved once for each way.

**`CredentialGatewayProofs`**: `TypeCorrect`, `Invariance`,
`AcknowledgmentBounds` (`AckBoundsEffects`), `RevocationIsFinal`
(`RevocationFinal`), `RecordInvariance`, `RecordsHonest` (`RecordsAreHonest`),
`OneShotImplemented` (`ImplementsOneShot`). There are two invariants. `IInv` holds the
receiver's invariant and carries a position of the log from a revoker's call to
the row it is stored in (`CallsAreBound`, `AcksAreBound`); the bound follows from
it, since no effect comes after a revocation that the log has. `RecordInv` is
about the gateway's own files:

    RecordInv == LockIsExclusive /\ DeliveryInv /\ StopPrecedesRevocation
                 /\ AcknowledgedIsDrained

`DeliveryInv` says of a dispatch what the intent promises at each of its stages: a
request on the wire has an unsettled intent, an effect follows a commit, and what
is about to be recorded as *observed* or *denied* cannot be contradicted by a
request that is left. The exclusive lock is what makes an acknowledgment mean that
nobody is on the way. With both, each step of gateway, wire and receiver maps to
a step of `OneShotDelivery` or to none.

**`SignalGateProofs`**: `TypeCorrect`, `StopConsistency` (`StopIsConsistent`),
`ResumptionAuthorised`, `PauseInvalidates`, `LatchImplemented`
(`ImplementsLatch`), `StoredAlertsHold`. The inductive invariant is

    IInv == SignalTypeOK /\ StopIsConsistent /\ SignedPast
            /\ LeaseBehindClock /\ RevokedIsDead

`SignedPast` (no decision is ahead of the revision) makes a pause invalidate
decisions; `LeaseBehindClock` (a lease is of this boot or an earlier one, and of
this one was last seen in the past) makes an unhealthy lease stay unhealthy, on
which the refinement rests: without it a tick of the clock could open the latch.
`RevokedIsDead` is needed for the step that records the host's revocation.
`StoredAlertsHold` proves `AuthenticAlertsHold` *under the assumption that the
gate can store every alert it verifies*; section 5 shows what happens otherwise.

**`ContextGateProofs`**: `Invariance`, `AuthorityBounded` (`AuthorityIsBounded`),
`RevocationReaches` (`RevocationReachesDescendants`), `LedgerMoves`
(`LedgerMovesOn`), `OneShotImplemented` (`ImplementsOneShot`). The inductive
invariant is

    IInv == ContextTypeOK /\ LineageNarrows /\ CallsAreReserved
            /\ LedgerIsAhead /\ ReservedWithin

`LineageNarrows` is about a child and its parent; that a grant never exceeds any
ancestor's needs the registry to be read no further than that. `CallsAreReserved`
gives each call under way a reservation of its own, so that an action is handed
over once; `LedgerIsAhead` keeps the hosts from running ahead of the ledger;
`ReservedWithin` is the budget as the ledger counts it, which bounds what the
hosts were handed by the former. A session whose grant is stale is refused
because `Admit` reads the grants again; the proof of `RevocationReaches` is that
this one look covers the whole line of ancestors.

**`ComposedPipelineProofs`**: `Invariance`, `StoresAlwaysAgree` (`StoresAgree`),
`BlockingHoldsAll` (`BlockingRouteHoldsAll`), `HoldExcludes`
(`HoldExcludesDispatch`), `RevocationRecordedIsFinal`
(`RecordedRevocationIsFinal`), for the frozen pipeline and its successor, any
routes, processes and faults. The inductive invariant is

    IInv == PipelineTypeOK /\ RoutesAreKnown /\ LockIsExclusive /\ StoresInLine
            /\ CallsInLine /\ ReservedWithin /\ ChecksSeeBlocking /\ AcksAreTrue

`StoresInLine` orders the four stores of a route; on its own it is not inductive,
since a layer writes what the layer below has answered, so `CallInLine` says what
a dispatch has written at each stage and that the status it carries up is true.
`ChecksSeeBlocking` follows the routes that have been blocking since a dispatch
began through the successor's two readings. `AcksAreTrue` says that an
acknowledgment on its way up is of a revoked credential, without which
`host_revoked` could be recorded on a call that merely returned. A step of a dispatch
and a step of a controller are two kinds of move (`DispatchMove`, `ControlMove`):
the first is taken by the one process that holds the lock, the second blocks more
routes and never fewer.

**`NodePartsProofs`**: the parts of the Node server that share no state with the
exams, one section each.

*The freshness guards*: `GuardsInvariant`, `TelemetryIsTakenOnce`
(`TelemetryOnce`), `ProofIsUsedOnce` (`ProofOnce`), from the assumptions
`SessionTtl >= 2 * Past + Future` and `NonceTtl > Past + Future`, which the code's
values satisfy by a wide margin. That nothing is taken twice is not inductive: a
guard forgets. The inductive invariant is

    FreshnessInv == FreshnessTypeOK /\ TelemetryOnce /\ ProofOnce /\ Covered /\ Dated

`Covered` says that what was ever accepted is either covered by a row or a nonce
that is still remembered, or too old to pass the window again; `Dated` relates
what a row remembers to the clock and to the session's last touch, so that a row
is dropped only when all that it covered has become too old.

*The limits*: `LimitsInvariance`, `LimitsAlwaysHold` (`LimitsHold`). The inductive
invariant is

    LimitsInv == types /\ IsTable(buckets) /\ Ordered(buckets) /\ Refuses(buckets, heldUntil)
                 /\ IsTable(failures) /\ Refuses(failures, failHeld)
                 /\ PaidFor /\ BurstBound

`Refuses` says that a key that was refused still has the bucket that refused it; the
bounded scan keeps it because it takes expired or unthrottled buckets only, and the
sweep because its window has not ended. `Ordered`, the Map's insertion order
being the order of age, lets a bounded scan meet the oldest buckets first. `PaidFor`
bounds what was spent since *any* moment by what was saved up then and refilled
since, which no look at the bucket alone can tell.

*The shield's routes*: `ShieldInvariance`, `SofteningAlwaysEscalates`
(`SofteningEscalates`). `ShieldInv` has a session's risk and its count of warned
runs carry over what its log says of them: after the second warned contained run
the score stands at 6 or more and never falls, so that every later one is blocked.

*The shield's gateway*: `GatewayInvariance`, `RiskAlwaysGrows`
(`RiskOnlyGrows`), `NeverLaunders` (`NeverLaundered`), for any finite set of
requests and runs that end in any order. A session's receipts rise to its score, and
each of them (`Receipted`) hides nothing of what it replaced and is exported no better
than its risk. That what follows a score beyond the limit is blocked needs both: the
later score is no less, so its own verdict is `blocked` and the merge with a swap's can
only worsen it, or the router had blocked the run already.

*The consent pilots*: `PilotInvariance`, `PilotsAlwaysTell` (`PilotsTellAll`).
`PilotInv` relates a record to its log in both directions (`Trail`): what the log
tells the record says, and what the record says the log tells, unless it was cut;
and in the banking pilot a rejected field before submission is in the risk
(`RiskCounts`).

**`ExamServerProofs`**: `ServerInvariance`, `TablesAlwaysAgree`
(`TablesAgree`), `SubmissionIsTold` (`SubmittedIsRecorded`), `EvidenceStays`
(`EvidenceIsKept`), `VerdictAlwaysLands` (`VerdictFindsSession`), `NodeStaysOne`
(`NodeContinuity`), `EvictionIsFinal` (`NoResurrection`),
`EvidenceCostsChallenge` (`EvidenceSpendsChallenge`). The tables are evicted
independently, so the invariant is about each session in all of them:

    IInv == TablesOK /\ (\A s \in Ids : Good(s)) /\ (\A c \in calls : CallOK(c)) /\ CapsOK
    Good(s) == SessionOK(s) /\ TokenBound(s) /\ OnlyJoinedHaveDevices(s)
               /\ RiskReaches(s) /\ OneNode(s)

* `SessionOK` has the chain tell the record's story (`Tells`): started at one
  entry and submitted at a later one, or neither, unless it was cut at its cap.
  `SubmittedIsRecorded` alone is not inductive: what a submission appends to must
  already have told of the start.
* `TokenBound`: a token of a live session ends within `TokenTtl` of its last
  touch, and one of an evicted session has expired. With `TokenTtl <= SessionTtl`
  this is why no request with a token meets an empty slot and brings the session
  back under its old record.
* `OnlyJoinedHaveDevices` and `RiskReaches`: an excluded window that a device
  showed is at the peak already, or in a verdict that is still on its way; and
  device evidence belongs to a session that has joined, which tokenless telemetry
  cannot bring about.
* `CallOK`: a model call ends before its session can be evicted, since
  `CallMax < SessionTtl`. That is why the verdict written after the `await`
  finds its session.
* `OneNode` is about two registries, and says that a node bound by a proof and
  one bound by pairing are the same.

A telemetry request is seven stages in a row, each of which may end it. They are
proved one at a time from what they hand on (`Whole`, `Carried`, `Early`,
`Late`), and only their composition is an action of the server. The theorems
assume `ServerAssumption`, `TrustAssumption`, `ChainCapAssumption` and
`PayloadAssumption`; the last one is what the schema checks leave of a payload:
that it names a node and that its counters are natural numbers.

It also has theorems about operators alone. `EvidenceDecides`,
`ScoreIsMonotone`, `ClampKeepsScore` are about the scores of windows, for all
natural numbers in a window's fields: the score is a rounded weighted sum raised
to some floors, and the lemmas bound the sum and show that the floors are
reached. `AppendKeepsSealed`, `PrefixVerifies`, `OnlyTheCountShowsACut` are about
chains of any length: appending keeps a chain sealed, and what verification
cannot see is a cut end, unless the export declares its count. A signature is the
tuple of its key and what it signs.

**`HistoryVerdictProofs`**: `HistoryInvariance`, `QuorumAlwaysEarned`
(`QuorumIsEarned`), `WitnessesStayApart` (`WitnessesNeverSilence`),
`AccusationsAreFounded` (`AccusationIsFounded`), `AccusationsStand`
(`AccusationStands`), for any bodies, statements and receipts, any finite
chain and any bounds on what a stranger reads, from `HistoryAssumption`,
`BundlesAreParsed` (a bundle is parsed JSON of the shape the evaluator reads) and
`BoundsAssumption`. The evaluator keeps nothing, so the invariant is
only that the bundle has its shape and the verdict is of the bundle as it is; the
work is in the operators.

* A quorum: a clear tally has passed every question, whence each counted name has one
  key, its seat's, and there are as many keys as names (`KeysAreAsMany`).
* The lanes: the comparison reads nothing of a statement but what it is bound to.
* The walk of `ancestry.mjs` is a recursive function. That its equation has a
  solution is proved (`TailRecursion`) from the least set closed under it, for a
  step relation that need not terminate.
* *Founded*: the bodies from which a walk ends at a root without having met the
  earlier one are closed under lawful links, so none of them descends from it
  (`RootsAreNotReached`).
* *Standing*: a walk over a fuller chain finds the same records as long as it finds any
  (`FullerStep`); of the places where the two walks would end differently, one with
  the fewest bodies left to see leads to another with fewer (`FullerWalk`). Of the
  thirteen questions about an artifact, a fuller chain can change the answer to three:
  the bounds, the ancestry proof and, only together with that, the verdict
  (`UpheldAgain`).

### Only model-checked

* The two properties of `composed_progress`, `LatchReachesReceiver` and
  `StopReachesReceiver`, which need fairness: the provers have no rule for `ENABLED`.
* What the three violated runs show, since a counterexample is TLC's to give.

## 5. Disagreements between the code and its documents

Each of the first three is a run that TLC finds violated.

* `signal_garbled`. `tools/assurance-composed-successor/README.md:48-49`: the
  successor "holds any signature-valid but unparseable alert `pending`".
  `successor.py:175` turns only `invalid_webhook_event` into a pending alert. A
  verified body that the strict decoder refuses (a duplicate key, a non-finite
  number, no JSON at all) raises another error, which is passed on with nothing
  stored: dispatch goes on. `StoredAlertsHold` (section 4) is what holds otherwise.
* `exam_late_verdict`. `server.js:970`: "Block telemetry on closed/submitted
  sessions to protect the audit record." The state is looked at before the model
  is awaited, and the verdict appended after it, so a submission in between is
  followed by a verdict in the signed chain.
* `history_outvoted`. `equivocation.mjs:153-157`: a set "that is valid but short is
  `validated`". It reads the tally's refusals, among which the tally puts
  `QUORUM_BELOW_POLICY`.

Met while modelling, without a run: the router alone does not keep the stage 3R
note's "the verdict can only hold or worsen" (lines 40-41; a risk of `blocked` lets
its verdict be `accepted`), which `server.js:590-596` says and corrects at the mount;
with `SIMURGH_GATEWAY_EXPORT_GUARD=0` it stays so. The stage 5S design
(`docs/superpowers/specs/2026-07-28-stage-5s-vwq-verifiable-witness-quorum-design.md:258-260`)
has a clean exit verify the artifact itself, which `evaluate` never does; the
pilots' reports show `chain_valid` for a chain that was cut at its cap; a
withdrawal is refused with 410 once the collection is closed; the Linux report's
`linuxAnomaly` leaves out the counts of excluded windows that force a Critical
level; a device that is untrusted *and* has partial coverage counts 40 where the
first alone counts 50. The frozen signal gate (`signals.py:273`) stores nothing for
a verified body of a wrong shape, which the successor's README gives as its reason.
`compatibility.mjs:8` and the stage 5S design (line 194) call two checkpoints of
different epochs incompatible when *neither* is a valid ancestor of the other; the
code asks only whether the later descends from the earlier. Where a committed record
gives its body another epoch than the checkpoint does, the earlier one may descend from
the later and the two are still called incompatible. `AccusationIsFounded` says
what the code ensures.

## 6. What is not modelled

* The recovery controller and the connector trial: smaller, earlier protocols of
  the same kind as the latch and the gateway modelled here.
* The durable, redis and workflow adapters drive third-party engines that are not
  in the repository; scope, egress, isolation and SDK adapters and the hardened
  gateway keep no state between requests.
* Firewalls' pattern tables, prompts, report and explanation texts, dashboards and
  event streams: wording, about which no property speaks.
* The other attestation verifiers. They are most of the repository's lines: some
  forty stages of `tools/simurgh-attestation`, each a reader of one bundle with its
  canonical encoding, fixture builders, exit codes and self-tests. A stage has no
  state and no concurrency, its verdict is a fixed list of comparisons of digests,
  and a model of it would repeat the code line by line. Stage 5S is modelled
  because its verdict depends on orders, partial knowledge and growth.
* In stage 5S: the claim gate over prose, external anchors, publication channels,
  canonical encoding.
* The gateway's live mode, with its caps and ledger, and the router's answers when it
  is mounted without `server.js`.
* Experiments, studies, exporters, viewers and native daemons.
* Inside the modelled components: cryptography, HTTP framing, damage to a store
  from outside (the code refuses to open one).

For these reasons the modelled code is a small share of the repository's lines,
although it is most of what keeps state and nearly all of what runs concurrently.

## 7. Plan

Done: the gates from receiver to pipeline with their refinements; the Node
server's registries, guards, limits, chains, exam, shield and pilots; the stage 5S
verifier; proofs of every safety and action property and of every refinement that
the runs find to hold.

Next, in this order:

1. `ConnectorHost` and `RecoveryControl`, for the two hazards that have no property
   (`tools/assurance-connector/core.py:162`, `tools/assurance-recovery/control.py:57`).
2. The parts of the exam server that are left out: creating further exams, and the
   instructor's views, which read what the handlers write.
3. `AccusationIsFounded` over a chain whose records are compared with the bodies they
   name, should the code come to compare them.
