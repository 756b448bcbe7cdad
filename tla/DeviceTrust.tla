---------------------------- MODULE DeviceTrust -----------------------------
(***************************************************************************)
(* What the node server knows of a student's device: the challenges and    *)
(* the paired node of a session (src/device/daemonPairing.js), the state   *)
(* of its daemon and the display server it is locked to (src/device/       *)
(* daemonState.js), and the checks of a signed proof and of a signed       *)
(* pairing (src/device/daemonProof.js).  Operators over one registry value *)
(*   [challenges, paired, record, display]                                 *)
(* the last three indexed by session; the server module holds the value.   *)
(*                                                                         *)
(* A node's hash and its key are the node itself, and a signature is the   *)
(* node that made it.  The schema checks of a payload (types, lengths,     *)
(* versions, forbidden fields) are one flag, wellFormed.                   *)
(***************************************************************************)
EXTENDS Integers, AcademicRisk

CONSTANTS Ids,            \* session ids
          Nodes,          \* device daemons
          Challenges,     \* random challenges, never drawn twice
          NoOne,          \* neither a node, nor a student, nor a session
          ChallengeTtl,   \* life of a challenge
          ProofPast,      \* how old a signed timestamp may be
          ProofFuture,    \* how far ahead it may be
          StaleAfter      \* silence after which a healthy daemon is stale

ASSUME TrustAssumption == ChallengeTtl \in Nat

NoRecord ==
  [ state |-> "missing", node |-> NoOne, platform |-> "unknown", verified |-> 0,
    rejected |-> 0, excludedMax |-> 0, restrictedMax |-> 0, monitorMax |-> 0,
    aboveMax |-> 0, scanner |-> "unknown", coverage |-> "none", lastProof |-> -1,
    known |-> FALSE ]

EmptyDevices ==
  [ challenges |-> {}, drawn |-> {}, paired |-> [s \in Ids |-> NoOne],
    record |-> [s \in Ids |-> NoRecord], display |-> [s \in Ids |-> "none"] ]

-----------------------------------------------------------------------------
(* A challenge is drawn for one session and one purpose.  Several may be   *)
(* outstanding.                                                            *)
Fresh(dev) == Challenges \ dev.drawn

CreateChallenge(dev, s, c, purpose, now) ==
  [dev EXCEPT
     !.challenges = @ \cup
       {[value |-> c, session |-> s, purpose |-> purpose, expires |-> now + ChallengeTtl]},
     !.drawn = @ \cup {c}]

Issued(dev, s, c) == {e \in dev.challenges : e.session = s /\ e.value = c}

(* Asking with the wrong purpose leaves the challenge alone; with the      *)
(* right one it is gone, even when it has expired.                         *)
ConsumeReason(dev, s, c, purpose, now) ==
  IF Issued(dev, s, c) = {} THEN "challenge_not_found"
  ELSE IF \A e \in Issued(dev, s, c) : e.purpose # purpose
       THEN "challenge_purpose_mismatch"
  ELSE IF \E e \in Issued(dev, s, c) : e.expires < now THEN "challenge_expired"
  ELSE "ok"

\* Mutant: a challenge stays usable until it expires.
ConsumeLater(dev, s, c, purpose) == dev

Consume(dev, s, c, purpose) ==
  [dev EXCEPT !.challenges = @ \ {e \in Issued(dev, s, c) : e.purpose = purpose}]

-----------------------------------------------------------------------------
FreshTimestamp(ts, now) == ts <= now + ProofFuture /\ ts >= now - ProofPast

(* A proof is signed by the paired node's key, for this session and exam.  *)
ProofReason(dev, s, exam, p, now) ==
  IF ~p.wellFormed THEN "malformed"
  ELSE IF p.session # s THEN "proof_session_mismatch"
  ELSE IF exam # NoOne /\ p.exam # exam THEN "proof_exam_mismatch"
  ELSE IF ~FreshTimestamp(p.ts, now) THEN "proof_stale"
  ELSE IF dev.paired[s] = NoOne THEN "daemon_node_not_paired"
  ELSE IF p.node # dev.paired[s] THEN "daemon_node_mismatch"
  ELSE IF p.signer # dev.paired[s] THEN "invalid_signature"
  ELSE "ok"

(* A pairing is self-signed by the node it names.                          *)
PairingReason(s, exam, p, now) ==
  IF ~p.wellFormed THEN "malformed"
  ELSE IF p.session # s THEN "pairing_session_mismatch"
  ELSE IF p.exam # exam THEN "pairing_exam_mismatch"
  ELSE IF ~FreshTimestamp(p.ts, now) THEN "pairing_stale"
  ELSE IF p.signer # p.node THEN "invalid_signature"
  ELSE "ok"

CompletePairingReason(dev, s, exam, p, now) ==
  IF PairingReason(s, exam, p, now) # "ok" THEN PairingReason(s, exam, p, now)
  ELSE ConsumeReason(dev, s, p.challenge, "pair", now)

(* The registry after a pairing attempt: the challenge goes as soon as the *)
(* payload verifies, the node is replaced when the challenge was good.     *)
CompletePairing(dev, s, exam, p, now) ==
  LET spent == IF PairingReason(s, exam, p, now) = "ok"
               THEN Consume(dev, s, p.challenge, "pair") ELSE dev
  IN IF CompletePairingReason(dev, s, exam, p, now) = "ok"
     THEN [spent EXCEPT !.paired[s] = p.node] ELSE spent

-----------------------------------------------------------------------------
RecordMissing(dev, s) ==
  [dev EXCEPT !.record[s].state = "missing", !.record[s].known = TRUE]

RecordPaired(dev, s, p) ==
  [dev EXCEPT !.record[s].state = "paired", !.record[s].node = p.node,
              !.record[s].platform = p.platform, !.record[s].known = TRUE]

RecordRejected(dev, s) ==
  [dev EXCEPT !.record[s].state = "untrusted", !.record[s].known = TRUE,
              !.record[s].rejected = AtMost(1, @ + 1)]

RecordProofVerified(dev, s, p, now) ==
  LET r == dev.record[s]
  IN [dev EXCEPT !.record[s] =
       [r EXCEPT
          !.state = IF p.excluded > 0 THEN "risk_detected" ELSE "healthy",
          !.platform = p.platform, !.scanner = p.scanner, !.known = TRUE,
          !.excludedMax = AtLeast(@, p.excluded),
          !.restrictedMax = AtLeast(@, p.restricted),
          !.monitorMax = AtLeast(@, p.monitor),
          !.aboveMax = AtLeast(@, p.above),
          !.coverage = IF p.coverage = "none" THEN @ ELSE p.coverage,
          !.verified = AtMost(1, @ + 1), !.lastProof = now]]

(* Only a healthy daemon goes stale by silence.                            *)
Summarise(r, now) ==
  IF r.state = "healthy" /\ r.lastProof >= 0 /\ now - r.lastProof > StaleAfter
  THEN [r EXCEPT !.state = "stale"] ELSE r

-----------------------------------------------------------------------------
(* The first display server seen holds until the session is evicted.       *)
DisplayOk(dev, s, d) == dev.display[s] = "none" \/ dev.display[s] = d

ObserveDisplay(dev, s, d) ==
  [dev EXCEPT !.display[s] = IF @ = "none" THEN d ELSE @]

-----------------------------------------------------------------------------
EvictExpired(dev, now) ==
  [dev EXCEPT !.challenges = {e \in @ : e.expires >= now}]

EvictMissing(dev, active) ==
  [dev EXCEPT
     !.challenges = {e \in @ : e.session \in active},
     !.paired = [s \in Ids |-> IF s \in active THEN @[s] ELSE NoOne],
     !.record = [s \in Ids |-> IF s \in active THEN @[s] ELSE NoRecord],
     !.display = [s \in Ids |-> IF s \in active THEN @[s] ELSE "none"]]
=============================================================================
