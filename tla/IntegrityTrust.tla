--------------------------- MODULE IntegrityTrust ---------------------------
(***************************************************************************)
(* The integrity node of a session: its one pending challenge and the node *)
(* paired by it (src/integrity/pairingRegistry.js), the node bound by the  *)
(* first accepted proof (src/integrity/integrityState.js), and the checks  *)
(* of a signed proof and of a signed pairing (proofValidator.js,           *)
(* pairingValidator.js).  Operators over one registry value                *)
(*   [pending, paired, bound, seen]                                        *)
(* the first three indexed by session, seen the nonces remembered.         *)
(***************************************************************************)
EXTENDS Integers, DeviceTrust

CONSTANTS PairingTtl,     \* life of a pairing challenge
          NonceTtl        \* how long a nonce is remembered

NoPending == [value |-> NoOne, expires |-> -1]

EmptyIntegrity ==
  [ pending |-> [s \in Ids |-> NoPending], paired |-> [s \in Ids |-> NoOne],
    bound |-> [s \in Ids |-> NoOne], seen |-> {}, drawn |-> {} ]

-----------------------------------------------------------------------------
(* A new challenge replaces the pending one; none once a node is paired.   *)
NewPairing(reg, s, c, now) ==
  [reg EXCEPT !.pending[s] = [value |-> c, expires |-> now + PairingTtl],
              !.drawn = @ \cup {c}]

CheckPairing(s, p, now) ==
  IF ~p.wellFormed THEN "malformed"
  ELSE IF p.session # s THEN "proof_session_mismatch"
  ELSE IF ~FreshTimestamp(p.ts, now) THEN "pairing_stale"
  ELSE IF p.signer # p.node THEN "invalid_signature"
  ELSE "ok"

\* Mutant: the node that proofs are bound to is not compared.
PairReasonUnbound(reg, s, p, now) ==
  IF reg.paired[s] # NoOne THEN "node_already_paired"
  ELSE IF CheckPairing(s, p, now) # "ok" THEN CheckPairing(s, p, now)
  ELSE IF reg.pending[s] = NoPending THEN "challenge_not_found"
  ELSE IF reg.pending[s].expires < now THEN "challenge_expired"
  ELSE IF reg.pending[s].value # p.challenge THEN "challenge_mismatch"
  ELSE "ok"

(* The order of the route and of completePairing: already paired, payload, *)
(* the node bound by an earlier proof, then the challenge.  A challenge    *)
(* that does not match, or has expired, stays pending.                     *)
PairReason(reg, s, p, now) ==
  IF reg.paired[s] # NoOne THEN "node_already_paired"
  ELSE IF CheckPairing(s, p, now) # "ok" THEN CheckPairing(s, p, now)
  ELSE IF reg.bound[s] # NoOne /\ reg.bound[s] # p.node THEN "node_id_hash_changed"
  ELSE IF reg.pending[s] = NoPending THEN "challenge_not_found"
  ELSE IF reg.pending[s].expires < now THEN "challenge_expired"
  ELSE IF reg.pending[s].value # p.challenge THEN "challenge_mismatch"
  ELSE "ok"

Pair(reg, s, node) ==
  [reg EXCEPT !.paired[s] = node, !.pending[s] = NoPending]

-----------------------------------------------------------------------------
(* With a paired node the proof must name it and be signed with its        *)
(* registered key; without one it is only self-signed.                     *)
CheckProof(reg, s, p, now) ==
  IF ~p.wellFormed THEN "malformed"
  ELSE IF p.session # s THEN "proof_session_mismatch"
  ELSE IF ~FreshTimestamp(p.ts, now) THEN "proof_stale"
  ELSE IF reg.paired[s] # NoOne /\ p.node # reg.paired[s] THEN "paired_node_mismatch"
  ELSE IF reg.paired[s] # NoOne /\ p.signer # reg.paired[s] THEN "registered_signature_invalid"
  ELSE IF p.signer # p.node THEN "invalid_signature"
  ELSE "ok"

NonceSeen(reg, n) == \E e \in reg.seen : e.nonce = n

(* The nonce is spent before the bound node is looked at.                  *)
ProofReasonOf(reg, s, p, now) ==
  IF CheckProof(reg, s, p, now) # "ok" THEN CheckProof(reg, s, p, now)
  ELSE IF NonceSeen(reg, p.nonce) THEN "nonce_replayed"
  ELSE IF reg.bound[s] # NoOne /\ reg.bound[s] # p.node THEN "node_id_hash_changed"
  ELSE "ok"

SubmitProof(reg, s, p, now) ==
  LET reason == ProofReasonOf(reg, s, p, now)
      spent == IF CheckProof(reg, s, p, now) = "ok" /\ ~NonceSeen(reg, p.nonce)
               THEN [reg EXCEPT !.seen = @ \cup {[nonce |-> p.nonce, expires |-> now + NonceTtl]}]
               ELSE reg
  IN IF reason = "ok" THEN [spent EXCEPT !.bound[s] = p.node] ELSE spent

-----------------------------------------------------------------------------
ForgetNonces(reg, now) == [reg EXCEPT !.seen = {e \in @ : e.expires > now}]

ForgetMissing(reg, active) ==
  [reg EXCEPT
     !.pending = [s \in Ids |-> IF s \in active THEN @[s] ELSE NoPending],
     !.paired = [s \in Ids |-> IF s \in active THEN @[s] ELSE NoOne],
     !.bound = [s \in Ids |-> IF s \in active THEN @[s] ELSE NoOne]]
=============================================================================
