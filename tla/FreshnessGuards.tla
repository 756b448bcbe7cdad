--------------------------- MODULE FreshnessGuards ---------------------------
(***************************************************************************)
(* The two guards against a message that is sent twice: the sequence and   *)
(* timestamp guard of telemetry (src/security/replayGuard.js) and the      *)
(* nonce guard of integrity proofs (src/integrity/nonceGuard.js), with the *)
(* timers of server.js that make both forget.  Each forgets what it has    *)
(* accepted; what keeps an old message out then is its timestamp.          *)
(*                                                                         *)
(* A telemetry message is a session, a sequence number and a timestamp; a  *)
(* proof is a nonce and a timestamp.  taken and used count how often each  *)
(* was accepted: they are not state of the program.                        *)
(***************************************************************************)
EXTENDS Integers

CONSTANTS Ids,           \* telemetry sessions
          Nonces,        \* nonces of proofs
          MaxSeq,        \* bound on sequence numbers
          Past,          \* how old an accepted timestamp may be
          Future,        \* how far ahead it may be
          SessionTtl,    \* idle time after which a session is evicted
          NonceTtl,      \* how long a nonce is remembered
          MaxTime        \* bound on the clock

ASSUME FreshnessAssumption ==
  /\ MaxSeq \in Nat /\ MaxTime \in Nat
  /\ Past \in Nat /\ Future \in Nat
  /\ SessionTtl \in Nat /\ SessionTtl >= 2 * Past + Future
  /\ NonceTtl \in Nat /\ NonceTtl > Past + Future

Instants == 0..MaxTime

Messages == [session : Ids, seq : 0..MaxSeq, ts : Instants]

Proofs == [nonce : Nonces, ts : Instants]

NoRow == [lastSeq |-> -1, lastTs |-> -1]

Rows == [lastSeq : 0..MaxSeq, lastTs : Instants] \cup {NoRow}

NotSeen == -1

VARIABLES
  now,       \* the clock
  rows,      \* replayGuard: session -> [lastSeq, lastTs], or NoRow
  active,    \* session -> its last activity; -1 when there is no session
  seen,      \* nonceGuard: nonce -> when it may be forgotten, or NotSeen
  taken,     \* how often each message was accepted
  used       \* how often each proof was accepted

vars == <<now, rows, active, seen, taken, used>>

Init ==
  /\ now = 0
  /\ rows = [s \in Ids |-> NoRow]
  /\ active = [s \in Ids |-> -1]
  /\ seen = [n \in Nonces |-> NotSeen]
  /\ taken = [m \in Messages |-> 0]
  /\ used = [p \in Proofs |-> 0]

InWindow(ts) == ts <= now + Future /\ ts >= now - Past

(* A row is overwritten by the message just accepted: lastTs may go back.  *)
CheckOk(row, m) == InWindow(m.ts) /\ (row = NoRow \/ m.seq > row.lastSeq)

(* A telemetry request reaches the guard with its session just touched.    *)
AcceptTelemetry(m) ==
  /\ CheckOk(rows[m.session], m)
  /\ active' = [active EXCEPT ![m.session] = now]
  /\ rows' = [rows EXCEPT ![m.session] = [lastSeq |-> m.seq, lastTs |-> m.ts]]
  /\ taken' = [taken EXCEPT ![m] = @ + 1]
  /\ UNCHANGED <<now, seen, used>>

(* A refused message, or one without a sequence number, only keeps its     *)
(* session alive.                                                          *)
Touch(s) ==
  /\ active' = [active EXCEPT ![s] = now]
  /\ UNCHANGED <<now, rows, seen, taken, used>>

(* A proof with a nonce that is not remembered; whether its node is the    *)
(* one bound to the session is looked at after the nonce is spent.         *)
AcceptProof(p) ==
  /\ InWindow(p.ts)
  /\ seen[p.nonce] = NotSeen
  /\ seen' = [seen EXCEPT ![p.nonce] = now + NonceTtl]
  /\ used' = [used EXCEPT ![p] = @ + 1]
  /\ UNCHANGED <<now, rows, active, taken>>

-----------------------------------------------------------------------------
(* The eviction timer: idle sessions go with their rows, and then every    *)
(* row whose last timestamp is old, its session alive or not.              *)
Idle(s) == active[s] >= 0 /\ active[s] < now - SessionTtl

\* Mutant: rows are compared with the clock instead of the cutoff.
EvictOldRows ==
  /\ active' = [s \in Ids |-> IF Idle(s) THEN -1 ELSE active[s]]
  /\ rows' = [s \in Ids |-> IF Idle(s) \/ rows[s].lastTs < now THEN NoRow ELSE rows[s]]
  /\ UNCHANGED <<now, seen, taken, used>>

EvictSessions ==
  /\ active' = [s \in Ids |-> IF Idle(s) THEN -1 ELSE active[s]]
  /\ rows' = [s \in Ids |-> IF Idle(s) \/ rows[s].lastTs < now - SessionTtl
                            THEN NoRow ELSE rows[s]]
  /\ UNCHANGED <<now, seen, taken, used>>

\* Mutant: a nonce is forgotten while its proof may still be in the window.
ForgetNoncesEarly ==
  /\ seen' = [n \in Nonces |-> IF seen[n] <= now + Past THEN NotSeen ELSE seen[n]]
  /\ UNCHANGED <<now, rows, active, taken, used>>

(* The nonce guard's own timer.                                            *)
ForgetNonces ==
  /\ seen' = [n \in Nonces |-> IF seen[n] <= now THEN NotSeen ELSE seen[n]]
  /\ UNCHANGED <<now, rows, active, taken, used>>

Tick ==
  /\ now < MaxTime
  /\ now' = now + 1
  /\ UNCHANGED <<rows, active, seen, taken, used>>

Next ==
  \/ \E m \in Messages : AcceptTelemetry(m)
  \/ \E s \in Ids : Touch(s)
  \/ \E p \in Proofs : AcceptProof(p)
  \/ EvictSessions
  \/ ForgetNonces
  \/ Tick

Spec == Init /\ [][Next]_vars

-----------------------------------------------------------------------------
FreshnessTypeOK ==
  /\ now \in Instants
  /\ rows \in [Ids -> Rows]
  /\ active \in [Ids -> Instants \cup {-1}]
  /\ seen \in [Nonces -> Nat \cup {NotSeen}]
  /\ taken \in [Messages -> Nat]
  /\ used \in [Proofs -> Nat]

(* A telemetry message is accepted once, although the guard forgets the    *)
(* session's last number when the session is evicted and again when its    *)
(* last timestamp is old: replayGuard.check, reset and evictOlderThan.     *)
TelemetryOnce == \A m \in Messages : taken[m] <= 1

(* A proof is accepted once, although its nonce is forgotten after a time  *)
(* to live: by then its timestamp is too old (nonceGuard.check and the     *)
(* timestamp window of validateProof).                                     *)
ProofOnce == \A p \in Proofs : used[p] <= 1

(* Why: what was accepted is either still covered by what its guard        *)
(* remembers, or already too old for its timestamp to pass.                *)
TooOld(ts) == ts < now - Past

Covered ==
  /\ \A m \in Messages : taken[m] > 0 =>
        TooOld(m.ts) \/ rows[m.session].lastSeq >= m.seq
  /\ \A p \in Proofs : used[p] > 0 => TooOld(p.ts) \/ seen[p.nonce] # NotSeen

(* And why that survives forgetting: nothing accepted is much newer than   *)
(* the activity of its session, the row left by it, or its nonce.          *)
Dated ==
  /\ \A s \in Ids : active[s] <= now
  /\ \A s \in Ids : rows[s] # NoRow => active[s] >= 0
  /\ \A m \in Messages : taken[m] > 0 /\ rows[m.session].lastSeq >= m.seq =>
        /\ m.ts <= active[m.session] + Future
        /\ m.ts <= rows[m.session].lastTs + Past + Future
  /\ \A p \in Proofs : used[p] > 0 /\ seen[p.nonce] # NotSeen =>
        p.ts <= seen[p.nonce] - NonceTtl + Future

FreshnessInv == FreshnessTypeOK /\ TelemetryOnce /\ ProofOnce /\ Covered /\ Dated
=============================================================================
