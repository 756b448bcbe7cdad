----------------------------- MODULE ExamServer -----------------------------
(***************************************************************************)
(* The exam side of the node server (server.js): telemetry sessions and    *)
(* exam records in two tables, the two timers that evict them one after    *)
(* the other, student tokens, the audit chain and timeline of a session,   *)
(* the telemetry route with the model call it may wait for, and the device *)
(* and integrity routes.  Node runs one handler at a time, so a handler is *)
(* one action; the telemetry handler is two, around its await.             *)
(*                                                                         *)
(* Registries are values of DeviceTrust and IntegrityTrust, chains of      *)
(* AuditChain, scores of AcademicRisk.  There is one exam.  What a client  *)
(* may send is a constant set per route; which routes and telemetry the    *)
(* clients of a session use is chosen from Mixes.                          *)
(***************************************************************************)
EXTENDS FiniteSets, Sequences, IntegrityTrust, AuditChain

CONSTANTS
  Students,        \* identities that may join
  Exam,            \* the exam
  Mixes,           \* functions from a session id to what its clients use:
                   \* [routes, bodies], the bodies of telemetry requests
  DevicePairings,  \* payloads of /api/device/pair
  NodePairings,    \* payloads of /api/integrity/pairing/complete
  NodeProofs,      \* payloads of /api/integrity/proofs
  NoProof,         \* a telemetry request without a device proof
  MaxSessions,     \* SIMURGH_MAX_SESSIONS
  MaxLegacy,       \* SIMURGH_MAX_LEGACY_SESSIONS
  SessionTtl,      \* idle time after which a session is evicted
  TokenTtl,        \* life of a student token
  RequireDaemon,   \* SIMURGH_REQUIRE_DAEMON
  HelperGrace,     \* age after which a missing helper counts (30 s)
  CallMax,         \* longest wait for the model (the SDK's timeout)
  MaxCalls,        \* bound on pending model calls
  MaxTime          \* bound on the clock

ASSUME ServerAssumption ==
  /\ MaxSessions \in Nat \ {0} /\ MaxLegacy \in Nat /\ MaxLegacy <= MaxSessions
  /\ TokenTtl \in Nat /\ SessionTtl \in Nat /\ TokenTtl <= SessionTtl
  /\ CallMax \in Nat /\ CallMax < SessionTtl
  /\ RequireDaemon \in BOOLEAN /\ MaxCalls \in Nat /\ MaxTime \in Nat

(* What the schema checks leave of a payload: it names a node, and the     *)
(* counters of a window are naturals.                                      *)
ASSUME PayloadAssumption ==
  /\ \A p \in DevicePairings \cup NodePairings \cup NodeProofs : p.node \in Nodes
  /\ \A mix \in Mixes, s \in Ids : \A b \in mix[s].bodies :
       b.window \in [ typed : Nat, wpm : Nat, blurs : Nat, offMs : Nat,
                      paste : Nat, idleMs : Nat ]

AuditKey == "audit-key"

(* sessions.js, TRANSITIONS: what a state may become.  helper_connected,   *)
(* report_generated and closed are never entered by the server.            *)
Transitions ==
  [ created |-> {"joined"}, joined |-> {"privacy_accepted"},
    privacy_accepted |-> {"helper_connected", "exam_started"},
    helper_connected |-> {"exam_started"}, exam_started |-> {"active"},
    active |-> {"submitted"}, submitted |-> {"report_generated"},
    report_generated |-> {"closed"}, closed |-> {} ]

ClosedStates == {"submitted", "report_generated", "closed"}

NoSession == [live |-> FALSE]

NoExamRecord == [student |-> NoOne, state |-> "none"]

NoVerdict == [level |-> "Safe", score |-> -1]

VARIABLES
  clients,    \* id -> the routes and telemetry its clients use
  now,        \* the clock
  sessions,   \* id -> telemetry session, or NoSession
  legacy,     \* ids of sessions made by tokenless telemetry
  exams,      \* id -> exam record, or NoExamRecord
  tokenExp,   \* id -> when the last token issued for it expires
  timeline,   \* id -> kinds of events recorded
  calls,      \* model calls waited for
  dev,        \* DeviceTrust registry
  node        \* IntegrityTrust registry

vars == <<clients, now, sessions, legacy, exams, tokenExp, timeline, calls, dev, node>>

Live == {s \in Ids : sessions[s].live}

Joined(s) == exams[s] # NoExamRecord

Closed(s) == exams[s].state \in ClosedStates

\* Mutant: the expiry inside the token is not compared with the clock.
TokenValidForever(s) == tokenExp[s] >= 0

TokenValid(s) == tokenExp[s] >= now

-----------------------------------------------------------------------------
NewSession ==
  [ live |-> TRUE, last |-> now, startedAt |-> now, chain |-> NewChain,
    peak |-> NoVerdict, history |-> {} ]

(* getSession: touch the session or make it; refused when the table is     *)
(* full.                                                                   *)
CanGet(s) == sessions[s].live \/ Cardinality(Live) < MaxSessions

Got(s) == IF sessions[s].live THEN [sessions[s] EXCEPT !.last = now] ELSE NewSession

(* What one request of the device and integrity routes writes is one entry *)
(* here, and its type is "device".                                         *)
Audit(sess, type) == [sess EXCEPT !.chain = AppendEntry(@, AuditKey, type)]

(* The peak is replaced by a verdict of higher level, or of the same level *)
(* and no lower score.                                                     *)
Peaked(peak, v) ==
  IF \/ peak = NoVerdict
     \/ Rank(v.level) > Rank(peak.level)
     \/ Rank(v.level) = Rank(peak.level) /\ v.score >= peak.score
  THEN v ELSE peak

(* persistVerdict.  No helper is connected (its route is retired), so no   *)
(* hostile window raises the level.                                        *)
Persist(sess, v) ==
  Audit([sess EXCEPT !.peak = Peaked(@, v), !.history = @ \cup {v}], "verdict")

Init ==
  /\ clients \in Mixes
  /\ now = 0
  /\ sessions = [s \in Ids |-> NoSession]
  /\ legacy = {}
  /\ exams = [s \in Ids |-> NoExamRecord]
  /\ tokenExp = [s \in Ids |-> -1]
  /\ timeline = [s \in Ids |-> {}]
  /\ calls = {}
  /\ dev = EmptyDevices
  /\ node = EmptyIntegrity

-----------------------------------------------------------------------------
(* The exam routes.                                                        *)
OpenFor(student) ==
  {s \in Ids : exams[s].student = student /\ exams[s].state \notin ClosedStates}

(* At capacity the record is taken back and nothing is left of the join.   *)
Join(s, student) ==
  /\ "exam" \in clients[s].routes
  /\ ~Joined(s) /\ ~sessions[s].live
  /\ OpenFor(student) = {}
  /\ CanGet(s)
  /\ exams' = [exams EXCEPT ![s] = [student |-> student, state |-> "joined"]]
  /\ sessions' = [sessions EXCEPT ![s] = Got(s)]
  /\ legacy' = legacy \ {s}
  /\ tokenExp' = [tokenExp EXCEPT ![s] = now + TokenTtl]
  /\ UNCHANGED <<clients, now, timeline, calls, dev, node>>

Authorised(s) == Joined(s) /\ TokenValid(s)

AcceptPrivacy(s) ==
  /\ "exam" \in clients[s].routes /\ Authorised(s)
  /\ "privacy_accepted" \in Transitions[exams[s].state]
  /\ exams' = [exams EXCEPT ![s].state = "privacy_accepted"]
  /\ timeline' = [timeline EXCEPT ![s] = @ \cup {"privacy_accepted"}]
  /\ UNCHANGED <<clients, now, sessions, legacy, tokenExp, calls, dev, node>>

(* At capacity the session is missing, the handler throws before it has    *)
(* stored anything and answers 409.                                        *)
Start(s) ==
  /\ "exam" \in clients[s].routes /\ Authorised(s)
  /\ exams[s].state \in {"privacy_accepted", "helper_connected"}
  /\ CanGet(s)
  /\ exams' = [exams EXCEPT ![s].state = "exam_started"]
  /\ sessions' = [sessions EXCEPT
                    ![s] = Audit([Got(s) EXCEPT !.startedAt = now], "exam_started")]
  /\ timeline' = [timeline EXCEPT ![s] = @ \cup {"exam_started"}]
  /\ UNCHANGED <<clients, now, legacy, tokenExp, calls, dev, node>>

(* The record is stored before the session is fetched: without a session   *)
(* the state changes and no entry says so.                                 *)
Submit(s) ==
  /\ "exam" \in clients[s].routes /\ Authorised(s)
  /\ exams[s].state \in {"exam_started", "active"}
  /\ exams' = [exams EXCEPT ![s].state = "submitted"]
  /\ timeline' = [timeline EXCEPT ![s] = @ \cup {"exam_submitted"}]
  /\ sessions' = IF CanGet(s)
                 THEN [sessions EXCEPT ![s] = Audit(Got(s), "exam_submitted")]
                 ELSE sessions
  /\ UNCHANGED <<clients, now, legacy, tokenExp, calls, dev, node>>

(* The instructor's report and the verification of the chain.              *)
Report(s) ==
  /\ "report" \in clients[s].routes
  /\ sessions[s].live \/ Joined(s)
  /\ timeline' = [timeline EXCEPT ![s] = @ \cup {"report_generated"}]
  /\ sessions' = IF sessions[s].live
                 THEN [sessions EXCEPT ![s] = Audit(@, "report_generated")]
                 ELSE sessions
  /\ UNCHANGED <<clients, now, legacy, exams, tokenExp, calls, dev, node>>

VerifyAudit(s) ==
  /\ "report" \in clients[s].routes
  /\ sessions[s].live
  /\ timeline' = [timeline EXCEPT ![s] = @ \cup {"audit_verified"}]
  /\ UNCHANGED <<clients, now, sessions, legacy, exams, tokenExp, calls, dev, node>>

-----------------------------------------------------------------------------
(* The telemetry route.  A request is carried through its stages as a      *)
(* value: the session, the registry and the timeline so far, and whether   *)
(* an earlier stage has answered.                                          *)
Request(s) ==
  [ sess |-> Got(s), dev |-> dev, kinds |-> timeline[s], done |-> FALSE ]

Answered(w) == [w EXCEPT !.done = TRUE]

(* A closed exam, then the token bucket of the session.                    *)
Gate(s, b, w) == IF Closed(s) \/ b.limited THEN Answered(w) ELSE w

MissingStage(s, b, w) ==
  IF w.done \/ b.proof # NoProof \/ ~(RequireDaemon \/ b.wantsDaemon) THEN w
  ELSE [w EXCEPT !.dev = RecordMissing(@, s), !.sess = Audit(@, "device"),
                 !.done = RequireDaemon]

(* The verdict of the replay guard on a stamped request.                   *)
ReplayStage(b, w) == IF ~w.done /\ b.replayed THEN Answered(w) ELSE w

Rejected(s, w) ==
  [w EXCEPT !.dev = RecordRejected(@, s), !.sess = Audit(@, "device"),
            !.done = TRUE]

(* Validation, then the challenge, then the display server (whose mismatch *)
(* leaves the daemon's state alone), then the record.                      *)
ProofStage(s, b, w) ==
  IF w.done \/ b.proof = NoProof THEN w
  ELSE LET p == b.proof
           exam == IF Joined(s) THEN Exam ELSE NoOne
           challenge == ConsumeReason(w.dev, s, p.challenge, "proof", now)
           spent == [w EXCEPT !.dev = Consume(@, s, p.challenge, "proof")]
           locked == p.platform = "linux" /\ p.display # "none"
           seen == IF locked THEN [spent EXCEPT !.dev = ObserveDisplay(@, s, p.display)]
                   ELSE spent
           risky == p.excluded > 0
       IN IF ProofReason(w.dev, s, exam, p, now) # "ok" THEN Rejected(s, w)
          ELSE IF challenge # "ok" THEN Rejected(s, spent)
          ELSE IF locked /\ ~DisplayOk(spent.dev, s, p.display)
          THEN [spent EXCEPT !.sess = Audit(@, "device"), !.done = TRUE]
          ELSE [seen EXCEPT
                  !.dev = RecordProofVerified(@, s, p, now),
                  !.sess = Audit(@, "device"),
                  !.kinds = IF risky THEN @ \cup {"risk_escalated"} ELSE @]

(* The score of the window with what the registry says of the device.      *)
Verdict(s, b, w) ==
  LET risk == Summarise(w.dev.record[s], now)
      helper == [connected |-> FALSE, hostile |-> FALSE, device |-> DeviceRisk(risk),
                 forced |-> ForcesCritical(risk)]
      score == Score(b.window, helper,
                     [reconnects |-> 0, aged |-> now - w.sess.startedAt > HelperGrace])
  IN [level |-> LevelOf(score), score |-> score]

(* recordWindowEvents.                                                     *)
WindowKinds(t) ==
  {"window"} \cup (IF t.blurs > 0 THEN {"focus_loss"} ELSE {})
             \cup (IF t.paste >= 200 THEN {"bulk_paste"} ELSE {})
             \cup (IF t.wpm >= 250 THEN {"wpm_spike"} ELSE {})
             \cup (IF t.idleMs >= 60000 THEN {"idle_gap"} ELSE {})

(* modelCallGate: only a joined session's window above Safe may be sent to *)
(* the model; the budget and the configuration may refuse it too.          *)
MayCall(s, v) == Joined(s) /\ v.level # "Safe" /\ Cardinality(calls) < MaxCalls

CreatesLegacy(s) == ~Joined(s) /\ ~sessions[s].live

Slot == CHOOSE i \in 1..MaxCalls : \A c \in calls : c.slot # i

(* The handler up to its answer, or up to the await.                       *)
Telemetry(s, b, call) ==
  /\ "telemetry" \in clients[s].routes
  /\ Joined(s) => TokenValid(s)
  /\ CreatesLegacy(s) => Cardinality(legacy) < MaxLegacy
  /\ CanGet(s)
  /\ LET w == ProofStage(s, b, ReplayStage(b, MissingStage(s, b, Gate(s, b, Request(s)))))
         v == Verdict(s, b, w)
     IN /\ call => ~w.done /\ MayCall(s, v)
        /\ dev' = w.dev
        /\ sessions' = [sessions EXCEPT ![s] = IF w.done \/ call THEN w.sess
                                               ELSE Persist(w.sess, v)]
        /\ timeline' = [timeline EXCEPT ![s] = IF w.done THEN w.kinds
                                               ELSE w.kinds \cup WindowKinds(b.window)]
        /\ calls' = IF call
                    THEN calls \cup {[slot |-> Slot, session |-> s, verdict |-> v,
                                      due |-> now + CallMax]}
                    ELSE calls
  /\ legacy' = IF CreatesLegacy(s) THEN legacy \cup {s} ELSE legacy
  /\ UNCHANGED <<clients, now, exams, tokenExp, node>>

\* Mutant: a verdict is recorded only by the call that needed no model.
ModelReplyUnrecorded(c) ==
  /\ calls' = calls \ {c}
  /\ UNCHANGED <<clients, now, sessions, legacy, exams, tokenExp, timeline, dev, node>>

(* The model answered or failed: the verdict scored before is recorded.    *)
(* Only its wording depends on the answer.                                 *)
ModelReply(c) ==
  /\ calls' = calls \ {c}
  /\ sessions' = IF sessions[c.session].live
                 THEN [sessions EXCEPT ![c.session] = Persist(@, c.verdict)]
                 ELSE sessions
  /\ UNCHANGED <<clients, now, legacy, exams, tokenExp, timeline, dev, node>>

-----------------------------------------------------------------------------
(* The device and integrity routes: a token, an exam that is not closed,   *)
(* and a session, which they never make.                                   *)
OnSession(s, route) ==
  /\ route \in clients[s].routes /\ TokenValid(s) /\ ~Closed(s) /\ sessions[s].live

DeviceChallenge(s, purpose) ==
  /\ OnSession(s, "device")
  /\ \E c \in Fresh(dev) : dev' = CreateChallenge(dev, s, c, purpose, now)
  /\ sessions' = [sessions EXCEPT ![s] = Audit(@, "device")]
  /\ UNCHANGED <<clients, now, legacy, exams, tokenExp, timeline, calls, node>>

DevicePair(s, p) ==
  /\ OnSession(s, "device") /\ Joined(s)
  /\ LET after == CompletePairing(dev, s, Exam, p, now)
     IN IF CompletePairingReason(dev, s, Exam, p, now) = "ok"
        THEN /\ dev' = RecordPaired(after, s, p)
             /\ sessions' = [sessions EXCEPT ![s] = Audit(@, "device")]
             /\ timeline' = [timeline EXCEPT ![s] = @ \cup {"daemon_paired"}]
        ELSE /\ dev' = RecordRejected(after, s)
             /\ sessions' = [sessions EXCEPT ![s] = Audit(@, "device")]
             /\ UNCHANGED timeline
  /\ UNCHANGED <<clients, now, legacy, exams, tokenExp, calls, node>>

NodeChallenge(s) ==
  /\ OnSession(s, "integrity")
  /\ IF node.paired[s] # NoOne
     THEN /\ UNCHANGED node
          /\ sessions' = [sessions EXCEPT ![s] = Audit(@, "device")]
     ELSE /\ \E c \in Challenges \ node.drawn : node' = NewPairing(node, s, c, now)
          /\ sessions' = [sessions EXCEPT ![s] = Audit(@, "device")]
  /\ UNCHANGED <<clients, now, legacy, exams, tokenExp, timeline, calls, dev>>

NodePair(s, p) ==
  /\ OnSession(s, "integrity")
  /\ IF PairReason(node, s, p, now) = "ok"
     THEN /\ node' = Pair(node, s, p.node)
          /\ sessions' = [sessions EXCEPT ![s] = Audit(@, "device")]
     ELSE /\ UNCHANGED node
          /\ sessions' = [sessions EXCEPT ![s] = Audit(@, "device")]
  /\ UNCHANGED <<clients, now, legacy, exams, tokenExp, timeline, calls, dev>>

NodeProof(s, p) ==
  /\ OnSession(s, "integrity")
  /\ node' = SubmitProof(node, s, p, now)
  /\ sessions' = [sessions EXCEPT ![s] = Audit(@, "device")]
  /\ UNCHANGED <<clients, now, legacy, exams, tokenExp, timeline, calls, dev>>

-----------------------------------------------------------------------------
(* The two timers, five minutes apart from nothing: each runs whenever it  *)
(* is due, and requests are handled between them.                          *)
\* Mutant: sessions are evicted by age and not by silence.
IdleByAge(s) == sessions[s].live /\ sessions[s].startedAt < now - SessionTtl

Idle(s) == sessions[s].live /\ sessions[s].last < now - SessionTtl

\* Mutant: an evicted tokenless session keeps its place among the counted.
EvictSessionsOnly ==
  /\ sessions' = [s \in Ids |-> IF Idle(s) THEN NoSession ELSE sessions[s]]
  /\ dev' = EvictExpired(dev, now)
  /\ UNCHANGED <<clients, now, legacy, exams, tokenExp, timeline, calls, node>>

EvictSessions ==
  /\ sessions' = [s \in Ids |-> IF Idle(s) THEN NoSession ELSE sessions[s]]
  /\ legacy' = {s \in legacy : ~Idle(s)}
  /\ dev' = EvictExpired(dev, now)
  /\ UNCHANGED <<clients, now, exams, tokenExp, timeline, calls, node>>

EvictExams ==
  /\ exams' = [s \in Ids |-> IF sessions[s].live THEN exams[s] ELSE NoExamRecord]
  /\ timeline' = [s \in Ids |-> IF sessions[s].live THEN timeline[s] ELSE {}]
  /\ dev' = EvictMissing(dev, Live)
  /\ node' = ForgetMissing(node, Live)
  /\ UNCHANGED <<clients, now, sessions, legacy, tokenExp, calls>>

(* The nonce guard's timer.                                                *)
ExpireNonces ==
  /\ node.seen # {}
  /\ node' = ForgetNonces(node, now)
  /\ UNCHANGED <<clients, now, sessions, legacy, exams, tokenExp, timeline, calls, dev>>

(* Time passes; a model call is answered or fails within CallMax.          *)
Tick ==
  /\ now < MaxTime
  /\ \A c \in calls : now < c.due
  /\ now' = now + 1
  /\ UNCHANGED <<clients, sessions, legacy, exams, tokenExp, timeline, calls, dev, node>>

Next ==
  \/ \E s \in Ids, student \in Students : Join(s, student)
  \/ \E s \in Ids : AcceptPrivacy(s) \/ Start(s) \/ Submit(s) \/ Report(s) \/ VerifyAudit(s)
  \/ \E s \in Ids, call \in BOOLEAN : \E b \in clients[s].bodies : Telemetry(s, b, call)
  \/ \E c \in calls : ModelReply(c)
  \/ \E s \in Ids, purpose \in {"pair", "proof"} : DeviceChallenge(s, purpose)
  \/ \E s \in Ids, p \in DevicePairings : DevicePair(s, p)
  \/ \E s \in Ids : NodeChallenge(s)
  \/ \E s \in Ids, p \in NodePairings : NodePair(s, p)
  \/ \E s \in Ids, p \in NodeProofs : NodeProof(s, p)
  \/ EvictSessions \/ EvictExams \/ ExpireNonces \/ Tick

Spec == Init /\ [][Next]_vars

-----------------------------------------------------------------------------
(* Properties.                                                             *)

(* Once the session of a joined student is evicted it never comes back     *)
(* under the same exam record: whoever could touch it holds a token that   *)
(* has expired before ("No implicit resurrection").                        *)
NoResurrection ==
  [][\A s \in Ids : Joined(s) /\ ~sessions[s].live /\ exams'[s] = exams[s]
       => ~sessions'[s].live]_vars

(* The tables keep their shape: sessions end in states the routes reach,   *)
(* and a session that is not live has left nothing in the table.           *)
ServerTypeOK ==
  /\ now \in 0..MaxTime
  /\ \A s \in Ids :
       /\ sessions[s] # NoSession =>
            /\ sessions[s].last \in 0..now /\ sessions[s].startedAt \in 0..sessions[s].last
            /\ Len(sessions[s].chain.entries) <= ChainCap
            /\ sessions[s].history \subseteq [level : {"Safe", "Warning", "Critical"},
                                              score : 0..100]
       /\ exams[s] # NoExamRecord =>
            /\ exams[s].student \in Students
            /\ exams[s].state \in {"joined", "privacy_accepted", "exam_started", "submitted"}
       /\ tokenExp[s] \in -1..(now + TokenTtl)
       /\ dev.paired[s] \in Nodes \cup {NoOne}
       /\ {node.paired[s], node.bound[s]} \subseteq Nodes \cup {NoOne}
  /\ legacy \subseteq Ids /\ Cardinality(legacy) <= MaxLegacy
  /\ Cardinality(Live) <= MaxSessions /\ Cardinality(calls) <= MaxCalls

(* The sessions nobody joined are exactly the counted ones, so the cap on  *)
(* tokenless sessions leaves the rest of the table to joining students.    *)
AnonymousCounted == legacy = {s \in Live : ~Joined(s)}

(* Each table keeps its shape and its cap, and they agree on who is in.    *)
TablesAgree == ServerTypeOK /\ AnonymousCounted

(* The chain of a submitted exam tells of its start and of its one         *)
(* submission in that order, or says that it is cut short.                 *)
SubmittedIsRecorded ==
  \A s \in Live : Joined(s) /\ exams[s].state = "submitted" =>
    LET types == Types(sessions[s].chain)
        At(type) == {i \in 1..Len(types) : types[i] = type}
    IN  \/ sessions[s].chain.truncated
        \/ Len(types) = ChainCap
        \/ \E i, j \in 1..Len(types) :
              i < j /\ At("exam_started") = {i} /\ At("exam_submitted") = {j}

(* What a report says of a session is its worst window, whichever order    *)
(* the answers of the model came in.                                       *)
PeakIsWorst ==
  \A s \in Live : \A v \in sessions[s].history :
    LET peak == sessions[s].peak
    IN  \/ Rank(peak.level) > Rank(v.level)
        \/ peak.level = v.level /\ peak.score >= v.score

(* A verified proof that saw a window hidden from capture makes the        *)
(* session Critical, at once or when the model has answered.               *)
RiskReachesRecord ==
  \A s \in Live : dev.record[s].excludedMax > 0 =>
    \/ sessions[s].peak.level = "Critical"
    \/ \E c \in calls : c.session = s /\ c.verdict.level = "Critical"

(* Evidence is neither lost while the model is asked nor outweighed later. *)
EvidenceIsKept == PeakIsWorst /\ RiskReachesRecord

(* A verdict that waits for the model finds its session still there        *)
(* ("session must already exist at this point").                           *)
VerdictFindsSession == \A c \in calls : sessions[c.session].live

(* The integrity node that a session paired and the one its proofs are     *)
(* bound to are one node, whichever came first.                            *)
NodeContinuity ==
  \A s \in Ids : node.paired[s] # NoOne /\ node.bound[s] # NoOne
    => node.paired[s] = node.bound[s]

(* A device is paired, and a proof counted, only by spending a live        *)
(* challenge that was issued to this session for this purpose.             *)
Spent(s, purpose) ==
  \E e \in dev.challenges \ dev'.challenges :
    e.session = s /\ e.purpose = purpose /\ e.expires >= now
EvidenceSpendsChallenge ==
  [][\A s \in Ids :
       /\ dev'.paired[s] \notin {NoOne, dev.paired[s]} => Spent(s, "pair")
       /\ /\ dev'.record[s] # dev.record[s]
          /\ dev'.record[s].state \in {"healthy", "risk_detected"}
          => Spent(s, "proof")]_vars

(* Nothing is written after the terminal state: once an exam is submitted  *)
(* its chain takes no further verdict ("Block telemetry on closed/         *)
(* submitted sessions to protect the audit record").                       *)
SubmittedChainSealed ==
  [][\A s \in Ids : Closed(s) /\ sessions[s].live /\ sessions'[s].live
       => Types(sessions'[s].chain) \in
            {Types(sessions[s].chain),
             Append(Types(sessions[s].chain), "report_generated")}]_vars
=============================================================================
