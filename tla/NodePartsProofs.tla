--------------------------- MODULE NodePartsProofs ---------------------------
(***************************************************************************)
(* The parts of the node server that share no state with the exams, one    *)
(* section each: the replay guards, the limits, the shield's routes, the   *)
(* shield's gateway and the consent pilots.  Everything is proved for any  *)
(* number of keys, sessions, requests and records, any caps and windows    *)
(* that satisfy the assumptions of its module, and any length of a run.    *)
(*                                                                         *)
(* No telemetry message and no proof is accepted twice, although both      *)
(* guards forget.  Neither claim is inductive: after a guard has forgotten *)
(* a message only its age keeps it out.  Covered says so, and Dated bounds *)
(* how new a message can be when its guard forgets it.                     *)
(***************************************************************************)
EXTENDS FreshnessGuards, RequestLimits, ShieldGateway, ShieldRouter, ConsentPilots,
        FiniteSetTheorems, SequenceTheorems, WellFoundedInduction, TLAPS

(* The constants as the proofs use them.                                   *)
LEMMA Parameters ==
  /\ MaxSeq \in Nat /\ MaxTime \in Nat /\ Past \in Nat /\ Future \in Nat
  /\ SessionTtl \in Nat /\ NonceTtl \in Nat
  /\ SessionTtl >= 2 * Past + Future
  /\ NonceTtl > Past + Future
BY FreshnessAssumption

LEMMA FieldTypes ==
  /\ \A m \in Messages : m.session \in Ids /\ m.seq \in 0..MaxSeq /\ m.ts \in Instants
  /\ \A p \in Proofs : p.nonce \in Nonces /\ p.ts \in Instants
BY DEF Messages, Proofs

(* A row has numbers in both fields, and the absent row has -1.            *)
LEMMA RowTypes ==
  ASSUME FreshnessTypeOK, NEW s \in Ids
  PROVE  /\ rows[s].lastSeq \in Int /\ rows[s].lastTs \in Int
         /\ rows[s].lastSeq >= 0 => rows[s] # NoRow
         /\ rows[s] # NoRow => rows[s].lastSeq \in 0..MaxSeq /\ rows[s].lastTs \in Instants
         /\ rows[s] = NoRow => rows[s].lastSeq = -1 /\ rows[s].lastTs = -1
BY Parameters DEF FreshnessTypeOK, Rows, NoRow, Instants

-----------------------------------------------------------------------------
LEMMA InitEstablishes == Init => FreshnessInv
<1> SUFFICES ASSUME Init PROVE FreshnessInv
  OBVIOUS
<1> USE Parameters, FieldTypes DEF Init
<1>1. FreshnessTypeOK
  BY DEF FreshnessTypeOK, Rows, NoRow, Instants, NotSeen
<1>2. TelemetryOnce /\ ProofOnce
  BY DEF TelemetryOnce, ProofOnce
<1>3. Covered
  BY DEF Covered
<1>4. Dated
  BY DEF Dated
<1> QED
  BY <1>1, <1>2, <1>3, <1>4 DEF FreshnessInv

-----------------------------------------------------------------------------
(* The guard of telemetry accepts only what it has never accepted.         *)
LEMMA AcceptTelemetryKeeps ==
  ASSUME FreshnessInv, NEW m \in Messages, AcceptTelemetry(m)
  PROVE  FreshnessInv'
<1> USE Parameters, FieldTypes
<1> DEFINE s == m.session
<1>0. s \in Ids /\ m.seq \in 0..MaxSeq /\ m.ts \in Instants /\ now \in Instants
  BY DEF FreshnessInv, FreshnessTypeOK
<1>1. /\ active' = [active EXCEPT ![s] = now]
      /\ rows' = [rows EXCEPT ![s] = [lastSeq |-> m.seq, lastTs |-> m.ts]]
      /\ taken' = [taken EXCEPT ![m] = @ + 1]
      /\ UNCHANGED <<now, seen, used>>
      /\ m.ts <= now + Future /\ m.ts >= now - Past
      /\ rows[s] = NoRow \/ m.seq > rows[s].lastSeq
  BY DEF AcceptTelemetry, CheckOk, InWindow
<1>2. FreshnessTypeOK'
  BY <1>0, <1>1 DEF FreshnessInv, FreshnessTypeOK, Rows, Instants
<1>3. m.seq > rows[s].lastSeq /\ rows[s].lastSeq \in Int
  BY <1>0, <1>1, RowTypes DEF FreshnessInv
<1>4. taken[m] = 0
  <2>1. taken[m] \in Nat
    BY DEF FreshnessInv, FreshnessTypeOK
  <2>2. ~(taken[m] > 0)
    BY <1>0, <1>1, <1>3 DEF FreshnessInv, Covered, TooOld, Instants
  <2> QED
    BY <2>1, <2>2
<1>5. TelemetryOnce' /\ ProofOnce'
  BY <1>1, <1>4 DEF FreshnessInv, FreshnessTypeOK, TelemetryOnce, ProofOnce
<1>6. ASSUME NEW x \in Messages, taken'[x] > 0, x.session = s
      PROVE  rows'[s].lastSeq >= x.seq \/ TooOld(x.ts)'
  <2>1. CASE x = m
    BY <2>1, <1>0, <1>1 DEF FreshnessInv, FreshnessTypeOK
  <2>2. CASE x # m
    <3>1. taken[x] > 0
      BY <2>2, <1>1, <1>6 DEF FreshnessInv, FreshnessTypeOK
    <3>2. TooOld(x.ts) \/ rows[s].lastSeq >= x.seq
      BY <3>1, <1>6 DEF FreshnessInv, Covered
    <3>3. rows'[s].lastSeq = m.seq
      BY <1>0, <1>1 DEF FreshnessInv, FreshnessTypeOK
    <3> QED
      BY <3>2, <3>3, <1>0, <1>1, <1>3 DEF TooOld
  <2> QED
    BY <2>1, <2>2
<1>7. Covered'
  <2>1. ASSUME NEW x \in Messages, taken'[x] > 0
        PROVE  TooOld(x.ts)' \/ rows'[x.session].lastSeq >= x.seq
    <3>1. CASE x.session = s
      BY <2>1, <3>1, <1>6
    <3>2. CASE x.session # s
      BY <2>1, <3>2, <1>0, <1>1 DEF FreshnessInv, FreshnessTypeOK, Covered, TooOld
    <3> QED
      BY <3>1, <3>2
  <2>2. ASSUME NEW p \in Proofs, used'[p] > 0
        PROVE  TooOld(p.ts)' \/ seen'[p.nonce] # NotSeen
    BY <2>2, <1>1 DEF FreshnessInv, Covered, TooOld
  <2> QED
    BY <2>1, <2>2 DEF Covered
<1>8. Dated'
  <2>1. \A i \in Ids : active'[i] <= now' /\ (rows'[i] # NoRow => active'[i] >= 0)
    BY <1>0, <1>1 DEF FreshnessInv, FreshnessTypeOK, Dated, Instants
  <2>2. ASSUME NEW x \in Messages, taken'[x] > 0, rows'[x.session].lastSeq >= x.seq
        PROVE  /\ x.ts <= active'[x.session] + Future
               /\ x.ts <= rows'[x.session].lastTs + Past + Future
    <3>1. CASE x.session # s
      BY <2>2, <3>1, <1>0, <1>1 DEF FreshnessInv, FreshnessTypeOK, Dated
    <3>2. CASE x.session = s
      <4>1. active'[s] = now /\ rows'[s].lastTs = m.ts
        BY <1>0, <1>1 DEF FreshnessInv, FreshnessTypeOK
      <4>2. x.ts <= now + Future
        <5>1. CASE x = m
          BY <5>1, <1>1
        <5>2. CASE x # m
          <6>1. taken[x] > 0
            BY <5>2, <2>2, <1>1 DEF FreshnessInv, FreshnessTypeOK
          <6>2. CASE TooOld(x.ts)
            BY <6>2, <1>0 DEF TooOld, Instants
          <6>3. CASE rows[s].lastSeq >= x.seq
            BY <6>1, <6>3, <3>2, <1>0
               DEF FreshnessInv, FreshnessTypeOK, Dated, Instants
          <6> QED
            BY <6>1, <6>2, <6>3, <3>2 DEF FreshnessInv, Covered
        <5> QED
          BY <5>1, <5>2
      <4> QED
        BY <3>2, <4>1, <4>2, <1>0, <1>1 DEF Instants
    <3> QED
      BY <3>1, <3>2
  <2>3. \A p \in Proofs : used'[p] > 0 /\ seen'[p.nonce] # NotSeen =>
          p.ts <= seen'[p.nonce] - NonceTtl + Future
    BY <1>1 DEF FreshnessInv, Dated
  <2> QED
    BY <2>1, <2>2, <2>3 DEF Dated
<1> QED
  BY <1>2, <1>5, <1>7, <1>8 DEF FreshnessInv

LEMMA TouchKeeps ==
  ASSUME FreshnessInv, NEW s \in Ids, Touch(s)
  PROVE  FreshnessInv'
<1> USE Parameters, FieldTypes DEF FreshnessInv, Touch
<1>1. FreshnessTypeOK'
  BY DEF FreshnessTypeOK
<1>2. TelemetryOnce' /\ ProofOnce' /\ Covered'
  BY DEF TelemetryOnce, ProofOnce, Covered, TooOld
<1>3. Dated'
  <2>1. \A i \in Ids : active[i] \in Int /\ active[i] <= active'[i] /\ active'[i] \in Int
                       /\ active'[i] <= now
    BY DEF FreshnessTypeOK, Dated, Instants
  <2>2. \A i \in Ids : rows'[i] # NoRow => active'[i] >= 0
    BY <2>1 DEF Dated
  <2>3. \A m \in Messages : taken'[m] > 0 /\ rows'[m.session].lastSeq >= m.seq =>
          /\ m.ts <= active'[m.session] + Future
          /\ m.ts <= rows'[m.session].lastTs + Past + Future
    BY <2>1 DEF Dated, Instants
  <2> QED
    BY <2>1, <2>2, <2>3 DEF Dated
<1> QED
  BY <1>1, <1>2, <1>3

(* The nonce guard accepts only what it has never accepted.                *)
LEMMA AcceptProofKeeps ==
  ASSUME FreshnessInv, NEW p \in Proofs, AcceptProof(p)
  PROVE  FreshnessInv'
<1> USE Parameters, FieldTypes
<1>0. p.nonce \in Nonces /\ p.ts \in Instants /\ now \in Nat
  BY DEF FreshnessInv, FreshnessTypeOK, Instants
<1>1. /\ p.ts <= now + Future /\ p.ts >= now - Past
      /\ seen[p.nonce] = NotSeen
      /\ seen' = [seen EXCEPT ![p.nonce] = now + NonceTtl]
      /\ used' = [used EXCEPT ![p] = @ + 1]
      /\ UNCHANGED <<now, rows, active, taken>>
  BY DEF AcceptProof, InWindow
<1>2. used[p] = 0
  <2>1. used[p] \in Nat /\ ~TooOld(p.ts)
    BY <1>0, <1>1 DEF FreshnessInv, FreshnessTypeOK, TooOld, Instants
  <2>2. ~(used[p] > 0)
    BY <1>1, <2>1 DEF FreshnessInv, Covered
  <2> QED
    BY <2>1, <2>2
<1>3. FreshnessTypeOK'
  BY <1>0, <1>1 DEF FreshnessInv, FreshnessTypeOK
<1>4. TelemetryOnce' /\ ProofOnce'
  BY <1>1, <1>2 DEF FreshnessInv, FreshnessTypeOK, TelemetryOnce, ProofOnce
<1>5. seen'[p.nonce] = now + NonceTtl /\ seen'[p.nonce] # NotSeen
  BY <1>0, <1>1 DEF FreshnessInv, FreshnessTypeOK, NotSeen
<1>6. Covered'
  <2>1. ASSUME NEW x \in Proofs, used'[x] > 0
        PROVE  TooOld(x.ts)' \/ seen'[x.nonce] # NotSeen
    <3>1. CASE x.nonce = p.nonce
      BY <1>5, <3>1
    <3>2. CASE x.nonce # p.nonce
      BY <2>1, <3>2, <1>0, <1>1 DEF FreshnessInv, FreshnessTypeOK, Covered, TooOld
    <3> QED
      BY <3>1, <3>2
  <2> QED
    BY <2>1, <1>1 DEF FreshnessInv, Covered, TooOld
<1>7. Dated'
  <2>1. ASSUME NEW x \in Proofs, used'[x] > 0, seen'[x.nonce] # NotSeen
        PROVE  x.ts <= seen'[x.nonce] - NonceTtl + Future
    <3>1. CASE x = p
      BY <3>1, <1>0, <1>1, <1>5
    <3>2. CASE x # p /\ x.nonce = p.nonce
      <4>1. TooOld(x.ts)
        BY <2>1, <3>2, <1>1 DEF FreshnessInv, FreshnessTypeOK, Covered
      <4> QED
        BY <3>2, <4>1, <1>0, <1>5 DEF TooOld, Instants
    <3>3. CASE x.nonce # p.nonce
      BY <2>1, <3>3, <1>0, <1>1 DEF FreshnessInv, FreshnessTypeOK, Dated
    <3> QED
      BY <3>1, <3>2, <3>3
  <2> QED
    BY <2>1, <1>1 DEF FreshnessInv, Dated
<1> QED
  BY <1>3, <1>4, <1>6, <1>7 DEF FreshnessInv

-----------------------------------------------------------------------------
(* What the eviction timer forgets is too old to be accepted again: this   *)
(* is where SessionTtl >= 2 * Past + Future is needed.                     *)
LEMMA EvictKeeps ==
  ASSUME FreshnessInv, EvictSessions
  PROVE  FreshnessInv'
<1> USE Parameters, FieldTypes
<1>1. /\ active' = [s \in Ids |-> IF Idle(s) THEN -1 ELSE active[s]]
      /\ rows' = [s \in Ids |-> IF Idle(s) \/ rows[s].lastTs < now - SessionTtl
                                THEN NoRow ELSE rows[s]]
      /\ UNCHANGED <<now, seen, taken, used>>
  BY DEF EvictSessions
<1>2. now \in Nat /\ \A s \in Ids : active[s] \in Int
  BY DEF FreshnessInv, FreshnessTypeOK, Instants
<1>3. FreshnessTypeOK'
  BY <1>1 DEF FreshnessInv, FreshnessTypeOK, Rows
<1>4. TelemetryOnce' /\ ProofOnce'
  BY <1>1 DEF FreshnessInv, TelemetryOnce, ProofOnce
<1>5. ASSUME NEW m \in Messages, taken[m] > 0, ~TooOld(m.ts)
      PROVE  rows'[m.session] = rows[m.session] /\ rows[m.session].lastSeq >= m.seq
  <2>1. rows[m.session].lastSeq >= m.seq
    BY <1>5 DEF FreshnessInv, Covered
  <2>2. /\ m.ts <= active[m.session] + Future
        /\ m.ts <= rows[m.session].lastTs + Past + Future
        /\ m.ts \in Nat /\ rows[m.session].lastTs \in Int
    BY <1>5, <2>1, RowTypes DEF FreshnessInv, Dated, Instants
  <2>3. m.ts >= now - Past
    BY <1>2, <1>5, <2>2 DEF TooOld
  <2>4. ~Idle(m.session)
    BY <1>2, <2>2, <2>3 DEF Idle
  <2>5. ~(rows[m.session].lastTs < now - SessionTtl)
    BY <1>2, <2>2, <2>3
  <2> QED
    BY <1>1, <2>1, <2>4, <2>5
<1>6. Covered'
  BY <1>1, <1>5 DEF FreshnessInv, Covered, TooOld
<1>7. Dated'
  <2>1. \A s \in Ids : active'[s] <= now' /\ (rows'[s] # NoRow => active'[s] >= 0)
    BY <1>1, <1>2 DEF FreshnessInv, Dated
  <2>2. ASSUME NEW m \in Messages, taken'[m] > 0, rows'[m.session].lastSeq >= m.seq
        PROVE  /\ m.ts <= active'[m.session] + Future
               /\ m.ts <= rows'[m.session].lastTs + Past + Future
    <3>1. rows'[m.session] # NoRow
      BY <2>2 DEF NoRow
    <3>2. rows'[m.session] = rows[m.session] /\ active'[m.session] = active[m.session]
      BY <1>1, <3>1
    <3> QED
      BY <2>2, <3>2, <1>1 DEF FreshnessInv, Dated
  <2> QED
    BY <2>1, <2>2, <1>1 DEF FreshnessInv, Dated
<1> QED
  BY <1>3, <1>4, <1>6, <1>7 DEF FreshnessInv

(* A nonce outlives the window of the proofs it came with: this is where   *)
(* NonceTtl > Past + Future is needed.                                     *)
LEMMA ForgetKeeps ==
  ASSUME FreshnessInv, ForgetNonces
  PROVE  FreshnessInv'
<1> USE Parameters, FieldTypes
<1>1. /\ seen' = [n \in Nonces |-> IF seen[n] <= now THEN NotSeen ELSE seen[n]]
      /\ UNCHANGED <<now, rows, active, taken, used>>
  BY DEF ForgetNonces
<1>2. now \in Nat
  BY DEF FreshnessInv, FreshnessTypeOK, Instants
<1>3. FreshnessTypeOK'
  BY <1>1 DEF FreshnessInv, FreshnessTypeOK
<1>4. TelemetryOnce' /\ ProofOnce'
  BY <1>1 DEF FreshnessInv, TelemetryOnce, ProofOnce
<1>5. Covered'
  <2>1. ASSUME NEW p \in Proofs, used'[p] > 0, seen'[p.nonce] = NotSeen
        PROVE  TooOld(p.ts)
    <3>1. CASE seen[p.nonce] = NotSeen
      BY <1>1, <2>1, <3>1 DEF FreshnessInv, Covered
    <3>2. CASE seen[p.nonce] # NotSeen
      <4>1. p.ts <= seen[p.nonce] - NonceTtl + Future /\ seen[p.nonce] \in Nat
        BY <1>1, <2>1, <3>2 DEF FreshnessInv, FreshnessTypeOK, Dated
      <4>2. seen[p.nonce] <= now
        BY <1>1, <2>1, <3>2
      <4> QED
        BY <1>2, <4>1, <4>2 DEF TooOld, Instants
    <3> QED
      BY <3>1, <3>2
  <2> QED
    BY <2>1, <1>1 DEF FreshnessInv, Covered, TooOld
<1>6. Dated'
  BY <1>1 DEF FreshnessInv, Dated
<1> QED
  BY <1>3, <1>4, <1>5, <1>6 DEF FreshnessInv

LEMMA TickKeeps ==
  ASSUME FreshnessInv, Tick
  PROVE  FreshnessInv'
<1> USE Parameters, FieldTypes
<1>1. now < MaxTime /\ now' = now + 1 /\ UNCHANGED <<rows, active, seen, taken, used>>
  BY DEF Tick
<1>2. now \in Nat /\ \A s \in Ids : active[s] \in Int
  BY DEF FreshnessInv, FreshnessTypeOK, Instants
<1>3. FreshnessTypeOK'
  BY <1>1 DEF FreshnessInv, FreshnessTypeOK, Instants
<1>4. TelemetryOnce' /\ ProofOnce'
  BY <1>1 DEF FreshnessInv, TelemetryOnce, ProofOnce
<1>5. Covered'
  BY <1>1, <1>2 DEF FreshnessInv, Covered, TooOld, Instants
<1>6. Dated'
  BY <1>1, <1>2 DEF FreshnessInv, Dated
<1> QED
  BY <1>3, <1>4, <1>5, <1>6 DEF FreshnessInv

-----------------------------------------------------------------------------
LEMMA NextKeeps == FreshnessInv /\ [Next]_vars => FreshnessInv'
<1> SUFFICES ASSUME FreshnessInv, [Next]_vars PROVE FreshnessInv'
  OBVIOUS
<1>1. CASE \E m \in Messages : AcceptTelemetry(m)
  BY <1>1, AcceptTelemetryKeeps
<1>2. CASE \E s \in Ids : Touch(s)
  BY <1>2, TouchKeeps
<1>3. CASE \E p \in Proofs : AcceptProof(p)
  BY <1>3, AcceptProofKeeps
<1>4. CASE EvictSessions
  BY <1>4, EvictKeeps
<1>5. CASE ForgetNonces
  BY <1>5, ForgetKeeps
<1>6. CASE Tick
  BY <1>6, TickKeeps
<1>7. CASE UNCHANGED vars
  BY <1>7 DEF vars, FreshnessInv, FreshnessTypeOK, TelemetryOnce, ProofOnce, Covered,
       Dated, TooOld
<1> QED
  BY <1>1, <1>2, <1>3, <1>4, <1>5, <1>6, <1>7 DEF Next

(* The guards' invariant holds: what was accepted is remembered or too old *)
(* to be accepted (replayGuard.check, nonceGuard.check and what makes both *)
(* forget).                                                                *)
THEOREM GuardsInvariant == Spec => []FreshnessInv
<1>1. Init => FreshnessInv
  BY InitEstablishes
<1>2. FreshnessInv /\ [Next]_vars => FreshnessInv'
  BY NextKeeps
<1> QED
  BY <1>1, <1>2, PTL DEF Spec

(* No telemetry message of a session is accepted twice (replayGuard.js).   *)
THEOREM TelemetryIsTakenOnce == Spec => []TelemetryOnce
<1>1. FreshnessInv => TelemetryOnce
  BY DEF FreshnessInv
<1> QED
  BY <1>1, GuardsInvariant, PTL

(* No proof is accepted twice (nonceGuard.js and proofValidator.js).       *)
THEOREM ProofIsUsedOnce == Spec => []ProofOnce
<1>1. FreshnessInv => ProofOnce
  BY DEF FreshnessInv
<1> QED
  BY <1>1, GuardsInvariant, PTL

-----------------------------------------------------------------------------
(* The inductive invariant of the limits.                                  *)
Buckets == [key : Keys, start : Nat, count : Nat]

(* A table keeps to its cap, has one bucket for each key and none from     *)
(* the future.                                                             *)
IsTable(map) ==
  /\ map \in Seq(Buckets) /\ Len(map) <= MaxBuckets
  /\ \A i \in DOMAIN map : map[i].start <= clock
  /\ \A i, j \in DOMAIN map : map[i].key = map[j].key => i = j

Ordered(map) == \A i, j \in DOMAIN map : i < j => map[i].start <= map[j].start

(* A key that was refused still has the bucket that refused it.            *)
Refuses(map, held) ==
  \A k \in Keys : held[k] > clock =>
    \E i \in DOMAIN map : /\ map[i].key = k /\ map[i].count >= MaxRequests
                          /\ map[i].start + Window = held[k]

(* What was spent since any moment, and what may still be spent, is paid   *)
(* for by what was saved up then and by the refills since.                 *)
Earned(d) == (d + Refill - 1) \div Refill

PaidFor ==
  /\ rate \in [tokens : 0..Burst, lastRefill : 0..clock]
  /\ spent \in Seq(Nat)
  /\ \A i \in DOMAIN spent :
       /\ spent[i] <= clock /\ spent[i] - rate.lastRefill < Refill
       /\ Len(spent) - i + 1 + rate.tokens <= Burst + Earned(rate.lastRefill - spent[i])
       /\ \A j \in DOMAIN spent : i <= j => spent[i] <= spent[j]

LimitsInv ==
  /\ clock \in Nat /\ lastSweep \in Int
  /\ heldUntil \in [Keys -> Nat] /\ failHeld \in [Keys -> Nat]
  /\ IsTable(buckets) /\ Ordered(buckets) /\ Refuses(buckets, heldUntil)
  /\ IsTable(failures) /\ Refuses(failures, failHeld)
  /\ PaidFor /\ BurstBound

-----------------------------------------------------------------------------
(* A finite set of numbers can be listed in ascending order: the n-th is   *)
(* the one with n members up to it.                                        *)
LEMMA Ascending ==
  ASSUME NEW m \in Nat, NEW S \in SUBSET (1..m)
  PROVE  LET n == Cardinality(S)
         IN /\ n \in Nat /\ n <= m
            /\ \E f \in [1..n -> S] : \A i, j \in 1..n : i < j => f[i] < f[j]
<1> DEFINE n == Cardinality(S)
           Upto(i) == {j \in S : j <= i}
           rank == [i \in S |-> Cardinality(Upto(i))]
<1>1. IsFiniteSet(1..m) /\ Cardinality(1..m) = m
  BY FS_Interval
<1>2. IsFiniteSet(S) /\ n \in Nat /\ n <= m
  BY <1>1, FS_Subset, FS_CardinalityType
<1>3. \A i \in S : IsFiniteSet(Upto(i)) /\ rank[i] \in 1..n
  <2> TAKE i \in S
  <2>1. Upto(i) \in SUBSET S /\ i \in Upto(i)
    BY DEF Upto
  <2>2. IsFiniteSet(Upto(i)) /\ Cardinality(Upto(i)) \in Nat /\ Cardinality(Upto(i)) <= n
    BY <2>1, <1>2, FS_Subset, FS_CardinalityType
  <2>3. Cardinality(Upto(i)) # 0
    BY <2>1, <2>2, FS_EmptySet
  <2> QED
    BY <2>2, <2>3, <1>2
<1>4. \A i, j \in S : i < j => rank[i] < rank[j]
  <2> SUFFICES ASSUME NEW i \in S, NEW j \in S, i < j PROVE rank[i] < rank[j]
    OBVIOUS
  <2>1. Upto(i) \in SUBSET Upto(j) /\ j \in Upto(j) /\ j \notin Upto(i)
    <3>1. i \in Nat /\ j \in Nat /\ \A x \in S : x \in Nat
      OBVIOUS
    <3>2. \A x \in S : x <= i => x <= j
      BY <3>1
    <3>3. j <= j /\ ~(j <= i)
      BY <3>1
    <3> QED
      BY <3>2, <3>3
  <2>2. Cardinality(Upto(i)) <= Cardinality(Upto(j)) /\ Cardinality(Upto(i)) # Cardinality(Upto(j))
    <3>1. IsFiniteSet(Upto(j)) /\ Upto(i) # Upto(j)
      BY <2>1, <1>3
    <3> HIDE DEF Upto
    <3> QED
      BY <2>1, <3>1, FS_Subset
  <2>3. rank[i] = Cardinality(Upto(i)) /\ rank[j] = Cardinality(Upto(j))
    OBVIOUS
  <2> HIDE DEF rank, Upto
  <2> QED
    BY <2>2, <2>3, <1>3
<1>5. rank \in Injection(S, 1..n)
  <2>1. rank \in [S -> 1..n]
    BY <1>3
  <2>2. \A i, j \in S : i # j => rank[i] # rank[j]
    <3> HIDE DEF rank
    <3> SUFFICES ASSUME NEW i \in S, NEW j \in S, i # j PROVE rank[i] # rank[j]
      OBVIOUS
    <3>1. i \in Nat /\ j \in Nat
      BY S \subseteq Nat
    <3>2. i < j \/ j < i
      BY <3>1
    <3>3. rank[i] \in Nat /\ rank[j] \in Nat
      <4> HIDE DEF n, Upto
      <4> QED
        BY <1>2, <1>3
    <3>4. rank[i] < rank[j] \/ rank[j] < rank[i]
      BY <3>2, <1>4
    <3> QED
      BY <3>3, <3>4
  <2> QED
    BY <2>1, <2>2 DEF Injection, IsInjective
<1>6. IsFiniteSet(1..n) /\ Cardinality(1..n) = n
  BY <1>2, FS_Interval
<1>7. rank \in Surjection(S, 1..n)
  BY <1>2, <1>5, <1>6, FS_Injection
<1>8. \A k \in 1..n : \E i \in S : rank[i] = k
  BY <1>7 DEF Surjection
<1> DEFINE f == [k \in 1..n |-> CHOOSE i \in S : rank[i] = k]
<1>9. \A k \in 1..n : f[k] \in S /\ rank[f[k]] = k
  <2> HIDE DEF rank
  <2> QED
    BY <1>8
<1>10. \A i, j \in 1..n : i < j => f[i] < f[j]
  <2> HIDE DEF rank, f
  <2> SUFFICES ASSUME NEW i \in 1..n, NEW j \in 1..n, i < j PROVE f[i] < f[j]
    OBVIOUS
  <2>1. f[i] \in Nat /\ f[j] \in Nat /\ i \in Nat /\ j \in Nat
    <3>1. f[i] \in S /\ f[j] \in S
      BY <1>9
    <3> HIDE DEF n
    <3>2. i \in Nat /\ j \in Nat
      BY <1>2
    <3>3. S \subseteq Nat
      OBVIOUS
    <3>4. f[i] \in Nat /\ f[j] \in Nat
      BY <3>1, <3>3, Zenon
    <3> QED
      BY <3>2, <3>4
  <2>2. f[i] # f[j]
    BY <1>9, <2>1
  <2>3. ~(f[j] < f[i])
    <3> SUFFICES ASSUME f[j] < f[i] PROVE FALSE
      OBVIOUS
    <3>1. rank[f[j]] < rank[f[i]]
      BY <1>4, <1>9
    <3> QED
      BY <3>1, <1>9, <2>1
  <2> QED
    BY <2>1, <2>2, <2>3
<1> HIDE DEF rank
<1> QED
  BY <1>2, <1>9, <1>10

(* What is left of a map is listed by an ascending function onto the       *)
(* places that are kept.                                                   *)
Lists(f, left, map, places) ==
  /\ f \in [DOMAIN left -> places]
  /\ \A i, j \in DOMAIN left : i < j => f[i] < f[j]
  /\ \A i \in DOMAIN left : left[i] = map[f[i]]
  /\ \A p \in places : \E i \in DOMAIN left : f[i] = p

LEMMA OnlyListed ==
  ASSUME NEW B, NEW map \in Seq(B), NEW places \in SUBSET DOMAIN map
  PROVE  LET left == Only(map, places)
         IN /\ left \in Seq(B) /\ Len(left) = Cardinality(places) /\ Len(left) <= Len(map)
            /\ \E f : Lists(f, left, map, places)
<1> DEFINE n == Cardinality(places)
           Rising(f) == \A i, j \in 1..n : i < j => f[i] < f[j]
           at == CHOOSE f \in [1..n -> places] : Rising(f)
           left == Only(map, places)
<1>1. DOMAIN map = 1..Len(map) /\ Len(map) \in Nat /\ \A i \in DOMAIN map : map[i] \in B
  OBVIOUS
<1>2. n \in Nat /\ n <= Len(map) /\ at \in [1..n -> places] /\ Rising(at)
  <2>1. \E f \in [1..n -> places] : Rising(f)
    BY <1>1, Ascending
  <2> QED
    BY <2>1, <1>1, Ascending
<1>3. left = [i \in 1..n |-> map[at[i]]]
  BY DEF Only
<1> HIDE DEF at, left
<1>4. left \in Seq(B) /\ Len(left) = n /\ DOMAIN left = 1..n
  <2>1. left \in [1..n -> B]
    BY <1>1, <1>2, <1>3
  <2> QED
    BY <2>1, <1>2, IsASeq
<1>5. \A p \in places : \E i \in 1..n : at[i] = p
  <2>1. at \in Injection(1..n, places)
    <3>1. \A i, j \in 1..n : i # j => at[i] # at[j]
      <4> SUFFICES ASSUME NEW i \in 1..n, NEW j \in 1..n, i # j PROVE at[i] # at[j]
        OBVIOUS
      <4>1. at[i] \in places /\ at[j] \in places /\ at[i] \in Nat /\ at[j] \in Nat
        BY <1>1, <1>2
      <4>2. i < j \/ j < i
        BY <1>2
      <4> QED
        BY <4>1, <4>2, <1>2
    <3> QED
      BY <3>1, <1>2 DEF Injection, IsInjective
  <2>2. IsFiniteSet(places) /\ IsFiniteSet(1..n) /\ Cardinality(1..n) = n
    <3>1. IsFiniteSet(1..Len(map)) /\ places \in SUBSET (1..Len(map))
      BY <1>1, FS_Interval
    <3>2. IsFiniteSet(places)
      BY <3>1, FS_Subset
    <3>3. IsFiniteSet(1..n) /\ Cardinality(1..n) = n
      <4> HIDE DEF n
      <4> QED
        BY <1>2, FS_Interval
    <3> QED
      BY <3>2, <3>3
  <2>3. at \in Surjection(1..n, places)
    BY <2>1, <2>2, FS_Injection
  <2> QED
    BY <2>3 DEF Surjection
<1>6. Lists(at, left, map, places)
  BY <1>2, <1>3, <1>4, <1>5 DEF Lists
<1>7. Len(left) <= Len(map)
  BY <1>2, <1>4
<1> QED
  BY <1>4, <1>6, <1>7 DEF left

LEMMA LimitsParameters ==
  /\ MaxRequests \in Nat /\ MaxRequests > 0 /\ Window \in Nat /\ Window > 0
  /\ MaxBuckets \in Nat /\ MaxBuckets > 0 /\ ScanLimit \in Nat /\ SweepInterval \in Nat
  /\ Burst \in Nat /\ Burst > 0 /\ Refill \in Nat /\ Refill > 0
BY LimitsAssumption

LEMMA Entries ==
  ASSUME NEW map, IsTable(map)
  PROVE  /\ Len(map) \in Nat /\ DOMAIN map = 1..Len(map)
         /\ \A i \in DOMAIN map : /\ map[i] \in Buckets /\ map[i].key \in Keys
                                  /\ map[i].start \in Nat /\ map[i].count \in Nat
<1>1. Len(map) \in Nat /\ DOMAIN map = 1..Len(map) /\ \A i \in DOMAIN map : map[i] \in Buckets
  BY DEF IsTable
<1> QED
  BY <1>1 DEF Buckets

LEMMA Found ==
  ASSUME NEW map, IsTable(map), NEW k, Has(map, k)
  PROVE  \E i \in DOMAIN map : /\ map[i].key = k /\ Get(map, k) = map[i]
                               /\ \A j \in DOMAIN map : map[j].key = k => j = i
<1>1. PICK i \in DOMAIN map : map[i].key = k
  BY DEF Has
<1>2. \A j \in DOMAIN map : map[j].key = k => j = i
  BY <1>1 DEF IsTable
<1>3. Get(map, k) = map[i]
  <2> DEFINE c == CHOOSE j \in DOMAIN map : map[j].key = k
  <2>1. c \in DOMAIN map /\ map[c].key = k
    BY <1>1
  <2>2. c = i
    BY <2>1, <1>2
  <2> QED
    BY <2>2 DEF Get
<1> QED
  BY <1>1, <1>2, <1>3

(* A bucket that holds a key back is throttled, and no table drops it.     *)
LEMMA HeldIsThrottled ==
  ASSUME clock \in Nat, NEW b \in Buckets, b.count >= MaxRequests, b.start + Window > clock
  PROVE  Throttled(b)
BY LimitsParameters DEF Throttled, Expired, Buckets

LEMMA OnlyKeeps ==
  ASSUME clock \in Nat, NEW map, IsTable(map), NEW places \in SUBSET DOMAIN map
  PROVE  LET left == Only(map, places)
         IN /\ IsTable(left) /\ Len(left) = Cardinality(places)
            /\ places # DOMAIN map => Len(left) < Len(map)
            /\ Ordered(map) => Ordered(left)
            /\ \A i \in DOMAIN left : \E p \in places : left[i] = map[p]
            /\ (\A i \in DOMAIN map : Throttled(map[i]) => i \in places) =>
                 \A held : (\A k \in Keys : held[k] \in Nat) /\ Refuses(map, held)
                              => Refuses(left, held)
<1> DEFINE left == Only(map, places)
<1>1. map \in Seq(Buckets) /\ Len(map) \in Nat /\ DOMAIN map = 1..Len(map)
  BY Entries DEF IsTable
<1>2. left \in Seq(Buckets) /\ Len(left) = Cardinality(places) /\ Len(left) <= Len(map)
  BY <1>1, OnlyListed
<1> HIDE DEF left
<1>a. \E f : Lists(f, left, map, places)
  BY <1>1, OnlyListed DEF left
<1>b. PICK f : Lists(f, left, map, places)
  BY <1>a
<1>3. /\ f \in [DOMAIN left -> places]
      /\ \A i, j \in DOMAIN left : i < j => f[i] < f[j]
      /\ \A i \in DOMAIN left : left[i] = map[f[i]]
      /\ \A p \in places : \E i \in DOMAIN left : f[i] = p
  BY <1>b DEF Lists
<1>4. \A i \in DOMAIN left : f[i] \in DOMAIN map /\ f[i] \in Nat /\ i \in Nat
  BY <1>1, <1>2, <1>3
<1>5. IsTable(left)
  <2>1. Len(left) \in Nat /\ Len(left) <= MaxBuckets
    BY <1>1, <1>2, LimitsParameters DEF IsTable
  <2>2. \A i \in DOMAIN left : left[i].start <= clock
    BY <1>3, <1>4 DEF IsTable
  <2>3. \A i, j \in DOMAIN left : left[i].key = left[j].key => i = j
    <3> SUFFICES ASSUME NEW i \in DOMAIN left, NEW j \in DOMAIN left,
                        left[i].key = left[j].key
                 PROVE  i = j
      OBVIOUS
    <3>1. f[i] = f[j]
      BY <1>3, <1>4 DEF IsTable
    <3>2. ~(i < j) /\ ~(j < i)
      BY <3>1, <1>3, <1>4
    <3> QED
      BY <3>2, <1>4
  <2> QED
    BY <1>2, <2>1, <2>2, <2>3 DEF IsTable
<1>6. places # DOMAIN map => Len(left) < Len(map)
  <2> SUFFICES ASSUME places # DOMAIN map PROVE Len(left) < Len(map)
    OBVIOUS
  <2>1. IsFiniteSet(DOMAIN map) /\ Cardinality(DOMAIN map) = Len(map)
    <3>1. IsFiniteSet(1..Len(map)) /\ Cardinality(1..Len(map)) = Len(map)
      <4> DEFINE m == Len(map)
      <4>2. m \in Nat
        BY <1>1
      <4> HIDE DEF m
      <4>3. IsFiniteSet(1..m) /\ Cardinality(1..m) = m
        BY <4>2, FS_Interval
      <4> QED
        BY <4>3 DEF m
    <3> QED
      BY <1>1, <3>1
  <2>2. Cardinality(places) # Cardinality(DOMAIN map)
    BY <2>1, FS_Subset
  <2>3. Len(left) \in Nat
    BY <1>2
  <2> QED
    BY <1>1, <1>2, <2>1, <2>2, <2>3
<1>7. Ordered(map) => Ordered(left)
  BY <1>3, <1>4 DEF Ordered
<1>8. \A i \in DOMAIN left : \E p \in places : left[i] = map[p]
  BY <1>3
<1>9. ASSUME \A i \in DOMAIN map : Throttled(map[i]) => i \in places
      PROVE  \A held : (\A k \in Keys : held[k] \in Nat) /\ Refuses(map, held)
                          => Refuses(left, held)
  <2> SUFFICES ASSUME NEW held, Refuses(map, held), \A k \in Keys : held[k] \in Nat,
                      NEW k \in Keys, held[k] > clock
               PROVE  \E i \in DOMAIN left :
                        /\ left[i].key = k /\ left[i].count >= MaxRequests
                        /\ left[i].start + Window = held[k]
    BY DEF Refuses
  <2>1. PICK p \in DOMAIN map : /\ map[p].key = k /\ map[p].count >= MaxRequests
                                /\ map[p].start + Window = held[k]
    BY DEF Refuses
  <2>2. p \in places
    <3>1. map[p] \in Buckets
      BY Entries
    <3> QED
      BY <2>1, <3>1, <1>9, HeldIsThrottled
  <2> QED
    BY <1>3, <2>1, <2>2
<1> QED
  BY <1>2, <1>5, <1>6, <1>7, <1>8, <1>9 DEF left

LEMMA AppendKeeps ==
  ASSUME clock \in Nat, NEW map, IsTable(map), Len(map) < MaxBuckets,
         NEW k \in Keys, ~Has(map, k)
  PROVE  LET more == Append(map, NewBucket(k))
         IN /\ IsTable(more)
            /\ Ordered(map) => Ordered(more)
            /\ \A held : Refuses(map, held) => Refuses(more, held)
<1> DEFINE more == Append(map, NewBucket(k))
           n == Len(map)
<1>1. n \in Nat /\ DOMAIN map = 1..n /\ map \in Seq(Buckets)
  BY Entries DEF IsTable
<1>2. NewBucket(k) \in Buckets /\ NewBucket(k).key = k /\ NewBucket(k).start = clock
  BY DEF NewBucket, Buckets
<1>3. /\ more \in Seq(Buckets) /\ Len(more) = n + 1 /\ DOMAIN more = 1..(n + 1)
      /\ more[n + 1] = NewBucket(k)
      /\ \A i \in 1..n : more[i] = map[i]
  BY <1>1, <1>2, AppendProperties
<1> HIDE DEF more
<1>4. \A i \in DOMAIN more : i = n + 1 \/ i \in 1..n
  BY <1>1, <1>3
<1>5. IsTable(more)
  <2>1. Len(more) <= MaxBuckets
    BY <1>1, <1>3, LimitsParameters
  <2>2. \A i \in DOMAIN more : more[i].start <= clock
    BY <1>1, <1>2, <1>3, <1>4 DEF IsTable
  <2>3. \A i, j \in DOMAIN more : more[i].key = more[j].key => i = j
    BY <1>1, <1>2, <1>3, <1>4 DEF IsTable, Has
  <2> QED
    BY <1>3, <2>1, <2>2, <2>3 DEF IsTable
<1>6. Ordered(map) => Ordered(more)
  BY <1>1, <1>2, <1>3, <1>4 DEF Ordered, IsTable
<1>7. \A held : Refuses(map, held) => Refuses(more, held)
  <2> SUFFICES ASSUME NEW held, Refuses(map, held), NEW x \in Keys, held[x] > clock
               PROVE  \E i \in DOMAIN more :
                        /\ more[i].key = x /\ more[i].count >= MaxRequests
                        /\ more[i].start + Window = held[x]
    BY DEF Refuses
  <2>1. PICK i \in DOMAIN map : /\ map[i].key = x /\ map[i].count >= MaxRequests
                                /\ map[i].start + Window = held[x]
    BY DEF Refuses
  <2>2. i \in DOMAIN more /\ more[i] = map[i]
    BY <1>1, <1>3
  <2> QED
    BY <2>1, <2>2
<1> QED
  BY <1>5, <1>6, <1>7 DEF more

LEMMA PutKeeps ==
  ASSUME clock \in Nat, NEW map, IsTable(map), NEW k \in Keys, Has(map, k),
         NEW b \in Buckets, b.key = k, b.start <= clock
  PROVE  LET put == Put(map, k, b)
         IN /\ IsTable(put)
            /\ b.start = Get(map, k).start /\ Ordered(map) => Ordered(put)
            /\ \A held : /\ Refuses(map, held)
                         /\ held[k] > clock => /\ b.count >= Get(map, k).count
                                               /\ b.start = Get(map, k).start
                         => Refuses(put, held)
<1> DEFINE put == Put(map, k, b)
<1>1. PICK p \in DOMAIN map : /\ map[p].key = k /\ Get(map, k) = map[p]
                              /\ \A j \in DOMAIN map : map[j].key = k => j = p
  BY Found
<1>2. /\ Len(map) \in Nat /\ DOMAIN map = 1..Len(map) /\ map \in Seq(Buckets)
      /\ \A i \in DOMAIN map : map[i] \in Buckets
  BY Entries DEF IsTable
<1>3. /\ DOMAIN put = DOMAIN map /\ put[p] = b
      /\ \A i \in DOMAIN map : i # p => put[i] = map[i]
  BY <1>1 DEF Put
<1>4. put \in Seq(Buckets) /\ Len(put) = Len(map)
  <2>1. put \in [1..Len(map) -> Buckets]
    BY <1>2 DEF Put
  <2> QED
    BY <2>1, <1>2, IsASeq
<1> HIDE DEF put
<1>5. IsTable(put)
  BY <1>1, <1>3, <1>4 DEF IsTable
<1>6. b.start = Get(map, k).start /\ Ordered(map) => Ordered(put)
  BY <1>1, <1>3 DEF Ordered
<1>7. ASSUME NEW held, Refuses(map, held),
             held[k] > clock => b.count >= Get(map, k).count /\ b.start = Get(map, k).start
      PROVE  Refuses(put, held)
  <2> SUFFICES ASSUME NEW x \in Keys, held[x] > clock
               PROVE  \E i \in DOMAIN put :
                        /\ put[i].key = x /\ put[i].count >= MaxRequests
                        /\ put[i].start + Window = held[x]
    BY DEF Refuses
  <2>1. PICK i \in DOMAIN map : /\ map[i].key = x /\ map[i].count >= MaxRequests
                                /\ map[i].start + Window = held[x]
    BY <1>7 DEF Refuses
  <2>2. CASE i # p
    BY <2>1, <2>2, <1>3
  <2>3. CASE i = p
    <3>1. x = k /\ b.start + Window = held[x] /\ b.count >= map[p].count
      BY <2>1, <2>3, <1>1, <1>7
    <3>2. b.count \in Nat /\ map[p].count \in Nat
      BY Entries DEF Buckets
    <3>3. b.count >= MaxRequests
      BY <3>1, <3>2, <2>1, <2>3, LimitsParameters
    <3> QED
      BY <3>1, <3>3, <1>3
  <2> QED
    BY <2>2, <2>3
<1> QED
  BY <1>5, <1>6, <1>7 DEF put

-----------------------------------------------------------------------------
(* A set of numbers that is not empty has a least member.                  *)
LEMMA Least ==
  ASSUME NEW S \in SUBSET Nat, S # {}
  PROVE  \E i \in S : \A j \in S : i <= j
<1> DEFINE Below == OpToRel(<, Nat)
<1>1. IsWellFoundedOn(Below, Nat)
  BY NatLessThanWellFounded
<1>2. \E i \in S : \A j \in S : ~(<<j, i>> \in Below)
  BY <1>1, WFMin
<1>3. \A i, j \in Nat : ~(<<j, i>> \in Below) => i <= j
  BY DEF OpToRel
<1> QED
  BY <1>2, <1>3

(* What is left of a table after a scan or a sweep.                        *)
LEMMA ScanKeeps ==
  ASSUME clock \in Nat, NEW map, IsTable(map), NEW limit
  PROVE  LET left == Scan(map, limit)
         IN /\ IsTable(left)
            /\ Ordered(map) => Ordered(left)
            /\ \A i \in DOMAIN left : \E p \in DOMAIN map : left[i] = map[p]
            /\ \A held : (\A k \in Keys : held[k] \in Nat) /\ Refuses(map, held)
                            => Refuses(left, held)
<1> DEFINE found == {i \in DOMAIN map : i <= limit /\ Evictable(map[i])}
           out == CHOOSE i \in found : \A j \in found : i <= j
           places == DOMAIN map \ {out}
<1>1. CASE found = {}
  BY <1>1 DEF Scan
<1>2. CASE found # {}
  <2>1. out \in found
    <3>1. \E i \in found : \A j \in found : i <= j
      <4>1. found \in SUBSET Nat
        BY Entries
      <4> HIDE DEF found
      <4> QED
        BY <1>2, <4>1, Least
    <3> QED
      BY <3>1
  <2>2. \A i \in DOMAIN map : Throttled(map[i]) => i \in places
    BY <2>1 DEF Evictable
  <2>3. Scan(map, limit) = Only(map, places)
    BY <1>2 DEF Scan
  <2> HIDE DEF places
  <2>4. places \in SUBSET DOMAIN map
    BY DEF places
  <2> QED
    BY <2>2, <2>3, <2>4, OnlyKeeps
<1> QED
  BY <1>1, <1>2

LEMMA SweepKeeps ==
  ASSUME clock \in Nat, NEW map, IsTable(map)
  PROVE  LET left == Sweep(map)
         IN /\ IsTable(left)
            /\ Ordered(map) => Ordered(left)
            /\ \A i \in DOMAIN left : \E p \in DOMAIN map : left[i] = map[p]
            /\ \A held : (\A k \in Keys : held[k] \in Nat) /\ Refuses(map, held)
                            => Refuses(left, held)
<1> DEFINE places == {i \in DOMAIN map : map[i].start >= clock - Window}
<1>1. \A i \in DOMAIN map : Throttled(map[i]) => i \in places
  BY Entries, LimitsParameters DEF Throttled, Expired
<1>2. Sweep(map) = Only(map, places) /\ places \in SUBSET DOMAIN map
  BY DEF Sweep
<1> HIDE DEF places
<1> QED
  BY <1>1, <1>2, OnlyKeeps

(* A new bucket, or a renewed one whose window is over, goes to the back.  *)
LEMMA RenewedKeeps ==
  ASSUME clock \in Nat, NEW map, IsTable(map), NEW k \in Keys,
         Has(map, k) => Expired(Get(map, k)),
         Has(map, k) \/ Len(map) < MaxBuckets
  PROVE  LET more == Renewed(map, k)
         IN /\ IsTable(more)
            /\ Ordered(map) => Ordered(more)
            /\ \A held : (\A x \in Keys : held[x] \in Nat) /\ Refuses(map, held)
                            => Refuses(more, held)
<1> DEFINE places == {i \in DOMAIN map : map[i].key # k}
           left == Only(map, places)
<1>1. places \in SUBSET DOMAIN map
  OBVIOUS
<1>2. \A i \in DOMAIN map : Throttled(map[i]) => i \in places
  <2> SUFFICES ASSUME NEW i \in DOMAIN map, Throttled(map[i]), map[i].key = k PROVE FALSE
    OBVIOUS
  <2>1. Has(map, k)
    BY DEF Has
  <2>2. Get(map, k) = map[i]
    BY <2>1, Found
  <2> QED
    BY <2>1, <2>2 DEF Throttled
<1>3. /\ IsTable(left) /\ Len(left) = Cardinality(places)
      /\ places # DOMAIN map => Len(left) < Len(map)
      /\ Ordered(map) => Ordered(left)
      /\ \A i \in DOMAIN left : \E p \in places : left[i] = map[p]
      /\ \A held : (\A x \in Keys : held[x] \in Nat) /\ Refuses(map, held) => Refuses(left, held)
  <2> HIDE DEF places
  <2> QED
    BY <1>1, <1>2, OnlyKeeps
<1>4. ~Has(left, k)
  BY <1>3 DEF Has
<1>5. Len(left) < MaxBuckets
  <2>1. Len(left) \in Nat /\ Len(map) \in Nat /\ Len(map) <= MaxBuckets
    BY <1>3, Entries DEF IsTable
  <2>2. CASE Has(map, k)
    <3>1. places # DOMAIN map
      BY <2>2 DEF Has
    <3> QED
      BY <3>1, <1>3, <2>1, LimitsParameters
  <2>3. CASE ~Has(map, k)
    <3>1. places = DOMAIN map
      BY <2>3 DEF Has
    <3>2. DOMAIN map = 1..Len(map)
      BY Entries
    <3>3. Len(left) = Len(map)
      <4> DEFINE m == Len(map)
      <4>1. m \in Nat
        BY <2>1
      <4> HIDE DEF m
      <4>2. Cardinality(1..m) = m
        BY <4>1, FS_Interval
      <4> QED
        BY <4>2, <3>1, <3>2, <1>3 DEF m
    <3> QED
      BY <3>3, <2>3
  <2> QED
    BY <2>2, <2>3
<1>6. Renewed(map, k) = Append(left, NewBucket(k))
  BY DEF Renewed
<1> HIDE DEF left
<1> QED
  BY <1>3, <1>4, <1>5, <1>6, AppendKeeps

-----------------------------------------------------------------------------
(* The steps of the two tables.                                            *)
LEMMA AdmitStep ==
  ASSUME LimitsInv, NEW k \in Keys, Admit(k)
  PROVE  LimitsInv'
<1> DEFINE crowded == ~Has(buckets, k) /\ Full(buckets)
           scanned == IF crowded THEN Scan(buckets, ScanLimit) ELSE buckets
           swept == crowded /\ Full(scanned) /\ clock - lastSweep >= SweepInterval
           left == IF swept THEN Sweep(scanned) ELSE scanned
           Keeps(map) == /\ IsTable(map) /\ Ordered(map) /\ Refuses(map, heldUntil)
                         /\ \A i \in DOMAIN map : \E p \in DOMAIN buckets : map[i] = buckets[p]
<1>1. /\ Fresh(k)
      /\ lastSweep' = IF swept THEN clock ELSE lastSweep
      /\ buckets' = IF crowded /\ Full(left) THEN left ELSE Renewed(left, k)
      /\ UNCHANGED <<clock, failures, rate, heldUntil, failHeld, spent>>
  BY DEF Admit
<1>2. /\ clock \in Nat /\ IsTable(buckets) /\ Ordered(buckets) /\ Refuses(buckets, heldUntil)
      /\ \A x \in Keys : heldUntil[x] \in Nat
  BY DEF LimitsInv
<1>3. Keeps(scanned)
  <2>1. Keeps(Scan(buckets, ScanLimit))
    BY <1>2, ScanKeeps
  <2>2. Keeps(buckets)
    BY <1>2
  <2> QED
    BY <2>1, <2>2
<1> HIDE DEF scanned
<1>4. Keeps(left)
  <2>1. Keeps(Sweep(scanned))
    <3>1. /\ IsTable(Sweep(scanned)) /\ Ordered(Sweep(scanned))
          /\ Refuses(Sweep(scanned), heldUntil)
          /\ \A i \in DOMAIN Sweep(scanned) :
               \E p \in DOMAIN scanned : Sweep(scanned)[i] = scanned[p]
      BY <1>2, <1>3, SweepKeeps
    <3> QED
      BY <3>1, <1>3
  <2> QED
    BY <2>1, <1>3
<1>5. crowded \/ left = buckets
  BY DEF scanned
<1> HIDE DEF left
<1>6. IsTable(buckets') /\ Ordered(buckets') /\ Refuses(buckets', heldUntil)
  <2>1. CASE crowded /\ Full(left)
    BY <2>1, <1>1, <1>4
  <2>2. CASE ~(crowded /\ Full(left))
    <3>1. Has(left, k) => left = buckets /\ Has(buckets, k)
      BY <1>4, <1>5 DEF Has
    <3>2. Has(left, k) => Expired(Get(left, k))
      BY <3>1, <1>1 DEF Fresh
    <3>3. Has(left, k) \/ Len(left) < MaxBuckets
      <4>1. Len(left) \in Nat
        BY <1>4, Entries
      <4>2. Has(left, k) \/ ~Full(left)
        BY <2>2, <1>5
      <4> QED
        BY <4>1, <4>2, LimitsParameters DEF Full
    <3>4. /\ IsTable(Renewed(left, k)) /\ Ordered(Renewed(left, k))
          /\ Refuses(Renewed(left, k), heldUntil)
      BY <1>2, <1>4, <3>2, <3>3, RenewedKeeps
    <3> QED
      BY <2>2, <3>4, <1>1
  <2> QED
    BY <2>1, <2>2
<1>7. lastSweep' \in Int
  BY <1>1 DEF LimitsInv
<1> HIDE DEF crowded, swept
<1> QED
  BY <1>1, <1>6, <1>7 DEF LimitsInv, IsTable, Ordered, Refuses, PaidFor, BurstBound

LEMMA CountStep ==
  ASSUME LimitsInv, NEW k \in Keys, Count(k)
  PROVE  LimitsInv'
<1> DEFINE b == Get(buckets, k)
           c == [b EXCEPT !.count = @ + 1]
<1>1. /\ clock \in Nat /\ IsTable(buckets) /\ Ordered(buckets) /\ Refuses(buckets, heldUntil)
      /\ heldUntil \in [Keys -> Nat]
  BY DEF LimitsInv
<1>2. /\ Has(buckets, k) /\ ~Expired(b)
      /\ UNCHANGED <<clock, lastSweep, failures, rate, failHeld, spent>>
      /\ IF b.count >= MaxRequests
         THEN heldUntil' = [heldUntil EXCEPT ![k] = b.start + Window] /\ buckets' = buckets
         ELSE buckets' = Put(buckets, k, c) /\ heldUntil' = heldUntil
  BY DEF Count, Fresh
<1>3. PICK p \in DOMAIN buckets : buckets[p].key = k /\ b = buckets[p]
  BY <1>1, <1>2, Found
<1>4. b \in Buckets /\ b.key = k /\ b.start \in Nat /\ b.count \in Nat /\ b.start <= clock
  BY <1>1, <1>3, Entries DEF IsTable
<1> HIDE DEF b
<1>5. CASE b.count >= MaxRequests
  <2>1. heldUntil' \in [Keys -> Nat] /\ heldUntil'[k] = b.start + Window
    BY <1>1, <1>2, <1>4, <1>5, LimitsParameters
  <2>2. Refuses(buckets, heldUntil')
    <3> SUFFICES ASSUME NEW x \in Keys, heldUntil'[x] > clock
                 PROVE  \E i \in DOMAIN buckets :
                          /\ buckets[i].key = x /\ buckets[i].count >= MaxRequests
                          /\ buckets[i].start + Window = heldUntil'[x]
      BY DEF Refuses
    <3>1. CASE x = k
      BY <3>1, <1>3, <1>5, <2>1
    <3>2. CASE x # k
      <4>1. heldUntil'[x] = heldUntil[x]
        BY <3>2, <1>1, <1>2, <1>5
      <4> QED
        BY <4>1, <1>1 DEF Refuses
    <3> QED
      BY <3>1, <3>2
  <2>3. buckets' = buckets
    BY <1>2, <1>5
  <2> QED
    BY <1>2, <2>1, <2>2, <2>3 DEF LimitsInv, IsTable, Ordered, Refuses, PaidFor, BurstBound
<1>6. CASE ~(b.count >= MaxRequests)
  <2>1. c \in Buckets /\ c.key = k /\ c.start = b.start /\ c.count = b.count + 1
    BY <1>4 DEF Buckets
  <2> HIDE DEF c
  <2>2. c.count >= b.count /\ c.start <= clock
    BY <2>1, <1>4
  <2>3. /\ IsTable(Put(buckets, k, c)) /\ Ordered(Put(buckets, k, c))
        /\ Refuses(Put(buckets, k, c), heldUntil)
    BY <1>1, <1>2, <2>1, <2>2, PutKeeps DEF b
  <2>4. buckets' = Put(buckets, k, c) /\ heldUntil' = heldUntil
    BY <1>2, <1>6
  <2> QED
    BY <1>2, <2>3, <2>4 DEF LimitsInv, IsTable, Ordered, Refuses, PaidFor, BurstBound
<1> QED
  BY <1>5, <1>6

LEMMA SweepTimerStep ==
  ASSUME LimitsInv, SweepTimer
  PROVE  LimitsInv'
<1>1. /\ buckets' = Sweep(buckets)
      /\ UNCHANGED <<clock, lastSweep, failures, rate, heldUntil, failHeld, spent>>
  BY DEF SweepTimer
<1>2. /\ IsTable(Sweep(buckets)) /\ Ordered(Sweep(buckets)) /\ Refuses(Sweep(buckets), heldUntil)
  BY SweepKeeps DEF LimitsInv
<1> QED
  BY <1>1, <1>2 DEF LimitsInv, IsTable, Ordered, Refuses, PaidFor, BurstBound

LEMMA BarStep ==
  ASSUME LimitsInv, NEW k \in Keys, Bar(k)
  PROVE  LimitsInv'
<1> DEFINE b == Get(failures, k)
<1>1. /\ clock \in Nat /\ IsTable(failures) /\ Refuses(failures, failHeld)
      /\ failHeld \in [Keys -> Nat]
  BY DEF LimitsInv
<1>2. /\ Has(failures, k) /\ Throttled(b)
      /\ failHeld' = [failHeld EXCEPT ![k] = b.start + Window]
      /\ UNCHANGED <<clock, buckets, lastSweep, failures, rate, heldUntil, spent>>
  BY DEF Bar, Barred
<1>3. PICK p \in DOMAIN failures : failures[p].key = k /\ b = failures[p]
  BY <1>1, <1>2, Found
<1>4. b.start \in Nat /\ b.count >= MaxRequests
  BY <1>1, <1>2, <1>3, Entries DEF Throttled
<1> HIDE DEF b
<1>5. failHeld' \in [Keys -> Nat] /\ failHeld'[k] = b.start + Window
  BY <1>1, <1>2, <1>4, LimitsParameters
<1>6. Refuses(failures, failHeld')
  <2> SUFFICES ASSUME NEW x \in Keys, failHeld'[x] > clock
               PROVE  \E i \in DOMAIN failures :
                        /\ failures[i].key = x /\ failures[i].count >= MaxRequests
                        /\ failures[i].start + Window = failHeld'[x]
    BY DEF Refuses
  <2>1. CASE x = k
    BY <2>1, <1>3, <1>4, <1>5
  <2>2. CASE x # k
    <3>1. failHeld'[x] = failHeld[x]
      BY <2>2, <1>1, <1>2
    <3> QED
      BY <3>1, <1>1 DEF Refuses
  <2> QED
    BY <2>1, <2>2
<1> QED
  BY <1>2, <1>5, <1>6 DEF LimitsInv, IsTable, Ordered, Refuses, PaidFor, BurstBound

LEMMA WrongTokenStep ==
  ASSUME LimitsInv, NEW k \in Keys, WrongToken(k)
  PROVE  LimitsInv'
<1> DEFINE crowded == ~Has(failures, k) /\ Full(failures)
           left == IF crowded THEN Scan(failures, Len(failures)) ELSE failures
           b == Get(failures, k)
           c == IF Expired(b) THEN NewBucket(k) ELSE Counted(b)
<1>1. /\ clock \in Nat /\ IsTable(failures) /\ Refuses(failures, failHeld)
      /\ \A x \in Keys : failHeld[x] \in Nat
  BY DEF LimitsInv
<1>2. /\ ~Barred(k)
      /\ failures' = IF Has(failures, k) THEN Put(failures, k, c)
                     ELSE IF crowded /\ Full(left) THEN left
                     ELSE Append(left, NewBucket(k))
      /\ UNCHANGED <<clock, buckets, lastSweep, rate, heldUntil, failHeld, spent>>
  BY DEF WrongToken
<1>3. IsTable(failures') /\ Refuses(failures', failHeld)
  <2>1. CASE Has(failures, k)
    <3>1. PICK p \in DOMAIN failures : failures[p].key = k /\ b = failures[p]
      BY <1>1, <2>1, Found
    <3>2. b \in Buckets /\ b.key = k /\ b.start \in Nat /\ b.count \in Nat /\ b.start <= clock
      BY <1>1, <3>1, Entries DEF IsTable
    <3>3. c \in Buckets /\ c.key = k /\ c.start <= clock
      BY <1>1, <3>2 DEF NewBucket, Counted, Buckets
    <3>4. failHeld[k] > clock => c.count >= b.count /\ c.start = b.start
      <4> SUFFICES ASSUME failHeld[k] > clock PROVE c.count >= b.count /\ c.start = b.start
        OBVIOUS
      <4>1. PICK i \in DOMAIN failures : /\ failures[i].key = k
                                         /\ failures[i].start + Window = failHeld[k]
        BY <1>1 DEF Refuses
      <4>2. failures[i] = b
        BY <4>1, <1>1, <3>1 DEF IsTable
      <4>3. ~Expired(b)
        BY <4>1, <4>2, <1>1, <3>2, LimitsParameters DEF Expired
      <4>4. c.count = b.count + 1 /\ c.start = b.start
        BY <4>3, <3>2 DEF Counted, Buckets
      <4> QED
        BY <4>4, <3>2
    <3> HIDE DEF c
    <3>5. IsTable(Put(failures, k, c)) /\ Refuses(Put(failures, k, c), failHeld)
      BY <1>1, <2>1, <3>3, <3>4, PutKeeps
    <3> QED
      BY <3>5, <2>1, <1>2
  <2>2. CASE ~Has(failures, k)
    <3>1. /\ IsTable(left) /\ Refuses(left, failHeld)
          /\ \A i \in DOMAIN left : \E p \in DOMAIN failures : left[i] = failures[p]
      BY <1>1, ScanKeeps
    <3>2. ~Has(left, k)
      BY <2>2, <3>1 DEF Has
    <3>3. CASE crowded /\ Full(left)
      BY <2>2, <3>1, <3>3, <1>2
    <3>4. CASE ~(crowded /\ Full(left))
      <4>1. Len(left) < MaxBuckets
        <5>1. Len(left) \in Nat
          BY <3>1, Entries
        <5>2. ~Full(left)
          BY <2>2, <3>4
        <5> QED
          BY <5>1, <5>2, LimitsParameters DEF Full
      <4> HIDE DEF left
      <4>2. IsTable(Append(left, NewBucket(k))) /\ Refuses(Append(left, NewBucket(k)), failHeld)
        BY <1>1, <3>1, <3>2, <4>1, AppendKeeps
      <4> QED
        BY <2>2, <3>4, <4>2, <1>2
    <3> QED
      BY <3>3, <3>4
  <2> QED
    BY <2>1, <2>2
<1> HIDE DEF crowded, left, b, c
<1>4. UNCHANGED <<clock, buckets, lastSweep, rate, heldUntil, failHeld, spent>>
  BY <1>2
<1> QED
  BY <1>3, <1>4 DEF LimitsInv, IsTable, Ordered, Refuses, PaidFor, BurstBound

-----------------------------------------------------------------------------
(* The token bucket.  Rounding down twice never gives more than rounding   *)
(* down once, so a refill earns no more than the time it stands for.       *)
LEMMA Quotient ==
  ASSUME NEW a \in Nat, NEW r \in Nat, r > 0
  PROVE  a \div r \in Nat /\ r * (a \div r) <= a /\ a < r * (a \div r) + r
OBVIOUS

LEMMA Cancel ==
  ASSUME NEW x \in Int, NEW y \in Int, NEW r \in Nat, r > 0, r * x < r * y
  PROVE  x < y
<1> SUFFICES ASSUME x >= y PROVE FALSE
  OBVIOUS
<1>1. r * (x - y) >= 0
  OBVIOUS
<1>2. r * (x - y) = r * x - r * y
  OBVIOUS
<1> QED
  BY <1>1, <1>2

LEMMA QuotientsAdd ==
  ASSUME NEW a \in Nat, NEW b \in Nat, NEW r \in Nat, r > 0
  PROVE  a \div r + b \div r <= (a + b) \div r
<1> DEFINE p == a \div r
           q == b \div r
           t == (a + b) \div r
<1>1. p \in Nat /\ r * p <= a
  BY Quotient
<1>2. q \in Nat /\ r * q <= b
  BY Quotient
<1>3. t \in Nat /\ a + b < r * t + r
  <2>1. a + b \in Nat
    OBVIOUS
  <2> QED
    BY <2>1, Quotient
<1> HIDE DEF p, q, t
<1>4. r * (p + q) = r * p + r * q /\ r * (t + 1) = r * t + r
  BY <1>1, <1>2, <1>3
<1>5. r * (p + q) \in Int /\ r * p \in Int /\ r * q \in Int /\ r * t \in Int
  BY <1>1, <1>2, <1>3
<1>6. r * (p + q) < r * (t + 1)
  BY <1>1, <1>2, <1>3, <1>4, <1>5
<1>7. p + q < t + 1
  BY <1>6, <1>1, <1>2, <1>3, Cancel
<1> QED
  BY <1>7, <1>1, <1>2, <1>3 DEF p, q, t

LEMMA EarnedGrows ==
  ASSUME NEW d \in Int, d + Refill > 0, NEW e \in Nat
  PROVE  /\ Earned(d) \in Nat /\ Earned(d + e) \in Nat
         /\ Earned(d) <= Earned(d + e)
         /\ Earned(d) + e \div Refill <= Earned(d + e)
<1> DEFINE a == d + Refill - 1
<1>1. a \in Nat /\ Refill \in Nat /\ Refill > 0 /\ a + e \in Nat
  BY LimitsParameters
<1>2. Earned(d) = a \div Refill /\ Earned(d + e) = (a + e) \div Refill
  <2>1. (d + e) + Refill - 1 = a + e
    BY <1>1
  <2> QED
    BY <2>1 DEF Earned
<1> HIDE DEF a
<1>3. a \div Refill \in Nat /\ (a + e) \div Refill \in Nat /\ e \div Refill \in Nat
  BY <1>1, Quotient
<1>4. a \div Refill + e \div Refill <= (a + e) \div Refill
  BY <1>1, QuotientsAdd
<1> QED
  BY <1>2, <1>3, <1>4

(* A token's moment, the last refill and the clock, on one line.           *)
LEMMA Apart ==
  ASSUME NEW a \in Nat, NEW s \in Nat, NEW c \in Nat, a <= c, s - a < Refill
  PROVE  /\ a - s \in Int /\ (a - s) + Refill > 0 /\ c - a \in Nat
         /\ (a - s) + (c - a) = c - s /\ s - c < Refill
BY LimitsParameters

LEMMA TokenStep ==
  ASSUME LimitsInv, ConsumeRateToken
  PROVE  LimitsInv'
<1> DEFINE r == Refilled(rate)
           e == (clock - rate.lastRefill) \div Refill
           n == Len(spent)
<1>1. /\ clock \in Nat /\ PaidFor /\ BurstBound
      /\ rate.tokens \in Nat /\ rate.tokens <= Burst
      /\ rate.lastRefill \in Nat /\ rate.lastRefill <= clock
      /\ rate \in [tokens : 0..Burst, lastRefill : 0..clock]
  BY LimitsParameters DEF LimitsInv, PaidFor
<1>2. /\ spent \in Seq(Nat) /\ n \in Nat /\ DOMAIN spent = 1..n
      /\ \A i \in DOMAIN spent :
           /\ spent[i] \in Nat /\ spent[i] <= clock /\ spent[i] - rate.lastRefill < Refill
           /\ n - i + 1 + rate.tokens <= Burst + Earned(rate.lastRefill - spent[i])
           /\ \A j \in DOMAIN spent : i <= j => spent[i] <= spent[j]
  BY <1>1 DEF PaidFor
<1>3. e \in Nat /\ (e = 0 => clock - rate.lastRefill < Refill)
  <2>1. clock - rate.lastRefill \in Nat
    BY <1>1
  <2> DEFINE x == clock - rate.lastRefill
  <2>2. x \in Nat
    BY <2>1
  <2> HIDE DEF x
  <2>3. x \div Refill \in Nat /\ x < Refill * (x \div Refill) + Refill
    BY <2>2, Quotient, LimitsParameters
  <2>4. x \div Refill = 0 => x < Refill
    BY <2>3, LimitsParameters
  <2> QED
    BY <2>3, <2>4 DEF x
(* The bucket after the refill.                                            *)
<1>4. /\ r \in [tokens : 0..Burst, lastRefill : 0..clock]
      /\ r.tokens \in Nat /\ r.tokens <= Burst /\ r.tokens <= rate.tokens + e
      /\ r.lastRefill \in Nat /\ r.lastRefill <= clock /\ clock - r.lastRefill < Refill
      /\ r.lastRefill >= rate.lastRefill
      /\ r.lastRefill = rate.lastRefill \/ r.lastRefill = clock
      /\ r.lastRefill = rate.lastRefill => r.tokens = rate.tokens \/ r.lastRefill = clock
  <2>1. CASE e > 0
    <3>1. r = [tokens |-> IF rate.tokens + e < Burst THEN rate.tokens + e ELSE Burst,
               lastRefill |-> clock]
      BY <2>1 DEF Refilled
    <3> HIDE DEF e, r
    <3>2. /\ r.tokens = (IF rate.tokens + e < Burst THEN rate.tokens + e ELSE Burst)
          /\ r.lastRefill = clock
      BY <3>1
    <3>3. r.tokens \in Nat /\ r.tokens <= Burst /\ r.tokens <= rate.tokens + e
      BY <3>2, <1>1, <1>3, LimitsParameters
    <3>4. r \in [tokens : 0..Burst, lastRefill : 0..clock]
      BY <3>1, <3>2, <3>3, <1>1, LimitsParameters
    <3> QED
      BY <3>2, <3>3, <3>4, <1>1, LimitsParameters
  <2>2. CASE ~(e > 0)
    <3>1. r = rate
      BY <2>2 DEF Refilled
    <3>2. e = 0
      BY <2>2, <1>3
    <3> QED
      BY <3>1, <3>2, <1>1, <1>3
  <2> QED
    BY <2>1, <2>2
<1>5. \A i \in DOMAIN spent :
        /\ spent[i] - r.lastRefill < Refill
        /\ n - i + 1 + r.tokens <= Burst + Earned(r.lastRefill - spent[i])
  <2> SUFFICES ASSUME NEW i \in DOMAIN spent
               PROVE  /\ spent[i] - r.lastRefill < Refill
                      /\ n - i + 1 + r.tokens <= Burst + Earned(r.lastRefill - spent[i])
    OBVIOUS
  <2>1. /\ spent[i] \in Nat /\ spent[i] - rate.lastRefill < Refill /\ i \in Nat
        /\ n - i + 1 + rate.tokens <= Burst + Earned(rate.lastRefill - spent[i])
    BY <1>2
  <2>2. CASE r.lastRefill = clock /\ e > 0
    <3> DEFINE d == rate.lastRefill - spent[i]
               f == clock - rate.lastRefill
    <3>1. /\ d \in Int /\ d + Refill > 0 /\ f \in Nat /\ d + f = r.lastRefill - spent[i]
          /\ spent[i] - r.lastRefill < Refill
      <4>1. d \in Int /\ d + Refill > 0 /\ f \in Nat /\ d + f = clock - spent[i]
            /\ spent[i] - clock < Refill
        BY <2>1, <1>1, Apart
      <4> HIDE DEF d, f, r, e
      <4> QED
        BY <4>1, <2>2
    <3> HIDE DEF d, f
    <3>2. /\ Earned(d) \in Nat /\ Earned(d + f) \in Nat
          /\ Earned(d) + f \div Refill <= Earned(d + f)
      BY <3>1, EarnedGrows
    <3>3. f \div Refill = e /\ Earned(d) = Earned(rate.lastRefill - spent[i])
          /\ Earned(d + f) = Earned(r.lastRefill - spent[i])
      BY <3>1 DEF d, f
    <3> HIDE DEF e, r
    <3>4. n - i + 1 + r.tokens <= Burst + Earned(r.lastRefill - spent[i])
      <4> DEFINE u == n - i + 1
                 E == Earned(rate.lastRefill - spent[i])
                 F == Earned(r.lastRefill - spent[i])
                 R == r.tokens
                 T == rate.tokens
      <4>1. /\ u \in Int /\ E \in Nat /\ F \in Nat /\ R \in Nat /\ T \in Nat
            /\ e \in Nat /\ Burst \in Nat
        <5>1. u \in Int
          BY <2>1, <1>2
        <5>2. E \in Nat /\ F \in Nat
          BY <3>2, <3>3
        <5> QED
          BY <5>1, <5>2, <1>1, <1>3, <1>4, LimitsParameters
      <4>2. u + T <= Burst + E /\ E + e <= F /\ R <= T + e
        BY <3>2, <3>3, <2>1, <1>4
      <4> HIDE DEF u, E, F, R, T
      <4>3. u + R <= Burst + F
        BY <4>1, <4>2
      <4> QED
        BY <4>3 DEF u, F, R
    <3> QED
      BY <3>1, <3>4
  <2>3. CASE ~(e > 0)
    <3>1. r = rate
      BY <2>3 DEF Refilled
    <3> QED
      BY <3>1, <2>1
  <2>4. e > 0 => r.lastRefill = clock
    BY DEF Refilled
  <2> QED
    BY <2>2, <2>3, <2>4
<1> HIDE DEF r, e
<1>6. CASE r.tokens <= 0
  <2>1. rate' = r /\ UNCHANGED <<clock, buckets, lastSweep, failures, heldUntil, failHeld, spent>>
    BY <1>6 DEF ConsumeRateToken, r
  <2>2. PaidFor'
    BY <2>1, <1>2, <1>4, <1>5 DEF PaidFor
  <2> QED
    BY <2>1, <2>2 DEF LimitsInv, IsTable, Ordered, Refuses, BurstBound
<1>7. CASE ~(r.tokens <= 0)
  <2>1. /\ rate' = [r EXCEPT !.tokens = @ - 1] /\ spent' = Append(spent, clock)
        /\ UNCHANGED <<clock, buckets, lastSweep, failures, heldUntil, failHeld>>
    BY <1>7 DEF ConsumeRateToken, r
  <2>2. /\ rate' \in [tokens : 0..Burst, lastRefill : 0..clock]
        /\ rate'.tokens = r.tokens - 1 /\ rate'.lastRefill = r.lastRefill
    <3>1. r.tokens - 1 \in 0..Burst
      BY <1>4, <1>7, LimitsParameters
    <3> QED
      BY <2>1, <3>1, <1>4
  <2>3. /\ spent' \in Seq(Nat) /\ Len(spent') = n + 1 /\ DOMAIN spent' = 1..(n + 1)
        /\ spent'[n + 1] = clock /\ \A i \in 1..n : spent'[i] = spent[i]
    BY <2>1, <1>1, <1>2, AppendProperties
  <2>4. \A i \in 1..(n + 1) : i = n + 1 \/ i \in DOMAIN spent
    BY <1>2
  <2>5. \A i \in 1..(n + 1) :
          /\ spent'[i] \in Nat /\ spent'[i] <= clock /\ spent'[i] - r.lastRefill < Refill
          /\ clock - spent'[i] \in Nat
    <3> TAKE i \in 1..(n + 1)
    <3>1. CASE i = n + 1
      <4>1. spent'[i] = clock
        BY <3>1, <2>3
      <4> QED
        BY <4>1, <1>1, <1>4
    <3>2. CASE i \in DOMAIN spent
      <4>1. spent'[i] = spent[i]
        BY <3>2, <2>3, <1>2
      <4>2. spent[i] \in Nat /\ spent[i] <= clock /\ spent[i] - r.lastRefill < Refill
        BY <3>2, <1>2, <1>5
      <4> QED
        BY <4>1, <4>2, <1>1
    <3> QED
      BY <3>1, <3>2, <2>4
  <2>6. \A i \in 1..(n + 1) :
          (n + 1) - i + 1 + (r.tokens - 1) <= Burst + Earned(r.lastRefill - spent'[i])
    <3> SUFFICES ASSUME NEW i \in 1..(n + 1)
                 PROVE  (n + 1) - i + 1 + (r.tokens - 1)
                          <= Burst + Earned(r.lastRefill - spent'[i])
      OBVIOUS
    <3>1. CASE i = n + 1
      <4>1. Earned(r.lastRefill - clock) \in Nat
        <5> DEFINE d == r.lastRefill - clock
        <5>1. d \in Int /\ d + Refill > 0
          BY <1>1, <1>4, LimitsParameters
        <5> HIDE DEF d
        <5>2. Earned(d) \in Nat
          BY <5>1, EarnedGrows
        <5> QED
          BY <5>2 DEF d
      <4>2. (n + 1) - i + 1 + (r.tokens - 1) = r.tokens
        BY <3>1, <1>2, <1>4
      <4> QED
        BY <4>1, <4>2, <3>1, <2>3, <1>4, LimitsParameters
    <3>2. CASE i \in DOMAIN spent
      <4>1. n - i + 1 + r.tokens <= Burst + Earned(r.lastRefill - spent[i])
        BY <3>2, <1>5
      <4>2. (n + 1) - i + 1 + (r.tokens - 1) = n - i + 1 + r.tokens
        BY <3>2, <1>2, <1>4
      <4>3. spent'[i] = spent[i]
        BY <3>2, <2>3, <1>2
      <4> QED
        BY <4>1, <4>2, <4>3
    <3> QED
      BY <3>1, <3>2, <2>4
  <2>7. \A i, j \in 1..(n + 1) : i <= j => spent'[i] <= spent'[j]
    <3> SUFFICES ASSUME NEW i \in 1..(n + 1), NEW j \in 1..(n + 1), i <= j
                 PROVE  spent'[i] <= spent'[j]
      OBVIOUS
    <3>1. CASE j = n + 1
      BY <3>1, <2>3, <2>5
    <3>2. CASE j # n + 1
      <4>1. i \in 1..n /\ j \in 1..n
        BY <3>2, <1>2
      <4>2. spent[i] <= spent[j]
        BY <4>1, <1>2
      <4> QED
        BY <4>1, <4>2, <2>3
    <3> QED
      BY <3>1, <3>2
  <2>8. PaidFor'
    BY <2>1, <2>2, <2>3, <2>5, <2>6, <2>7 DEF PaidFor
  <2>9. BurstBound'
    <3> SUFFICES ASSUME NEW i \in 1..(n + 1), NEW j \in 1..(n + 1), i <= j
                 PROVE  j - i + 1
                          <= Burst + (spent'[j] - spent'[i] + Refill - 1) \div Refill
      BY <2>3 DEF BurstBound
    <3>1. CASE j = n + 1
      <4> DEFINE d == r.lastRefill - spent'[i]
                 f == clock - r.lastRefill
      <4>1. d \in Int /\ d + Refill > 0 /\ f \in Nat /\ d + f = spent'[j] - spent'[i]
        <5>1. spent'[j] = clock
          BY <3>1, <2>3
        <5>2. spent'[i] \in Nat /\ spent'[i] - r.lastRefill < Refill
          BY <2>5
        <5>3. /\ d \in Int /\ d + Refill > 0 /\ f \in Nat
              /\ d + f = clock - spent'[i]
          BY <5>2, <1>1, <1>4, Apart
        <5> HIDE DEF d, f
        <5> QED
          BY <5>1, <5>3
      <4>2. (n + 1) - i + 1 + (r.tokens - 1) <= Burst + Earned(d)
        BY <2>6
      <4> HIDE DEF d, f
      <4>3. Earned(d) \in Nat /\ Earned(d + f) \in Nat /\ Earned(d) <= Earned(d + f)
        BY <4>1, EarnedGrows
      <4>4. j - i + 1 <= Burst + Earned(d + f)
        BY <4>2, <4>3, <3>1, <1>2, <1>4, <1>7, LimitsParameters
      <4> QED
        BY <4>1, <4>4 DEF Earned
    <3>2. CASE j # n + 1
      <4>1. i \in 1..n /\ j \in 1..n
        BY <3>2, <1>2
      <4>2. spent'[i] = spent[i] /\ spent'[j] = spent[j]
        BY <4>1, <2>3
      <4>3. j - i + 1 <= Burst + (spent[j] - spent[i] + Refill - 1) \div Refill
        BY <4>1, <1>1, <1>2 DEF BurstBound
      <4> QED
        BY <4>2, <4>3
    <3> QED
      BY <3>1, <3>2
  <2> QED
    BY <2>1, <2>8, <2>9 DEF LimitsInv, IsTable, Ordered, Refuses
<1> QED
  BY <1>6, <1>7

LEMMA PassTimeStep ==
  ASSUME LimitsInv, PassTime
  PROVE  LimitsInv'
<1>1. /\ clock' = clock + 1 /\ clock \in Nat
      /\ UNCHANGED <<buckets, lastSweep, failures, rate, heldUntil, failHeld, spent>>
  BY DEF PassTime, LimitsInv
<1>2. \A map : IsTable(map) => /\ map \in Seq(Buckets) /\ Len(map) <= MaxBuckets
                               /\ \A i \in DOMAIN map : map[i].start <= clock + 1
                               /\ \A i, j \in DOMAIN map : map[i].key = map[j].key => i = j
  <2> SUFFICES ASSUME NEW map, IsTable(map)
               PROVE  \A i \in DOMAIN map : map[i].start <= clock + 1
    BY DEF IsTable
  <2>1. \A i \in DOMAIN map : map[i].start \in Nat /\ map[i].start <= clock
    BY Entries DEF IsTable
  <2> QED
    BY <2>1, <1>1
<1>3. IsTable(buckets)' /\ IsTable(failures)'
  BY <1>1, <1>2 DEF LimitsInv, IsTable
<1>4. Ordered(buckets)'
  BY <1>1 DEF LimitsInv, Ordered
<1>5. \A k \in Keys : /\ heldUntil[k] \in Nat /\ failHeld[k] \in Nat
                      /\ heldUntil[k] > clock + 1 => heldUntil[k] > clock
                      /\ failHeld[k] > clock + 1 => failHeld[k] > clock
  BY <1>1 DEF LimitsInv
<1>6. Refuses(buckets, heldUntil)' /\ Refuses(failures, failHeld)'
  BY <1>1, <1>5 DEF LimitsInv, Refuses
<1>7. PaidFor'
  <2>1. rate \in [tokens : 0..Burst, lastRefill : 0..(clock + 1)]
    BY <1>1 DEF LimitsInv, PaidFor
  <2>2. spent \in Seq(Nat) /\ \A i \in DOMAIN spent : spent[i] \in Nat /\ spent[i] <= clock
    BY DEF LimitsInv, PaidFor
  <2>3. \A i \in DOMAIN spent : spent[i] <= clock + 1
    BY <2>2, <1>1
  <2> QED
    BY <1>1, <2>1, <2>2, <2>3 DEF LimitsInv, PaidFor
<1> QED
  BY <1>1, <1>3, <1>4, <1>6, <1>7 DEF LimitsInv, BurstBound

LEMMA LimitsInit == LimitInit => LimitsInv
<1> SUFFICES ASSUME LimitInit PROVE LimitsInv
  OBVIOUS
<1>1. /\ clock = 0 /\ buckets = <<>> /\ failures = <<>> /\ spent = <<>>
      /\ lastSweep = -SweepInterval /\ rate = [tokens |-> Burst, lastRefill |-> 0]
      /\ heldUntil = [k \in Keys |-> 0] /\ failHeld = [k \in Keys |-> 0]
  BY DEF LimitInit
<1>2. IsTable(<<>>) /\ Ordered(<<>>)
  BY LimitsParameters DEF IsTable, Ordered
<1>3. Refuses(<<>>, heldUntil) /\ Refuses(<<>>, failHeld)
  BY <1>1 DEF Refuses
<1>4. PaidFor /\ BurstBound
  BY <1>1, LimitsParameters DEF PaidFor, BurstBound
<1> QED
  BY <1>1, <1>2, <1>3, <1>4, LimitsParameters DEF LimitsInv

(* The invariant of the limits holds in every state of the three limiters. *)
THEOREM LimitsInvariance == LimitsSpec => []LimitsInv
<1>1. LimitsInv /\ [LimitsNext]_limitVars => LimitsInv'
  <2> SUFFICES ASSUME LimitsInv, [LimitsNext]_limitVars PROVE LimitsInv'
    OBVIOUS
  <2>1. CASE LimitsNext
    BY <2>1, AdmitStep, CountStep, SweepTimerStep, BarStep, WrongTokenStep, TokenStep,
       PassTimeStep DEF LimitsNext, LimiterNext, InstructorNext
  <2>2. CASE UNCHANGED limitVars
    BY <2>2 DEF limitVars, LimitsInv, IsTable, Ordered, Refuses, PaidFor, BurstBound
  <2> QED
    BY <2>1, <2>2
<1> QED
  BY <1>1, LimitsInit, PTL DEF LimitsSpec

(* However many keys crowd the tables of the limiters, one that was        *)
(* refused stays refused until its window is over; the front of the        *)
(* limiter's Map stays the oldest; and over any stretch of time a session  *)
(* spends no more telemetry tokens than it had saved up and earned.        *)
THEOREM LimitsAlwaysHold == LimitsSpec => []LimitsHold
<1>1. LimitsInv => LimitsHold
  <2> SUFFICES ASSUME LimitsInv PROVE ThrottledHeld /\ FrontIsOldest
    BY DEF LimitsHold, LimitsInv
  <2>1. ASSUME NEW map, IsTable(map), NEW held, \A k \in Keys : held[k] \in Nat,
               Refuses(map, held), NEW k \in Keys, held[k] > clock
        PROVE  Has(map, k) /\ Throttled(Get(map, k))
    <3>1. PICK i \in DOMAIN map : /\ map[i].key = k /\ map[i].count >= MaxRequests
                                  /\ map[i].start + Window = held[k]
      BY <2>1 DEF Refuses
    <3>2. Has(map, k)
      BY <3>1 DEF Has
    <3>3. Get(map, k) = map[i] /\ map[i] \in Buckets
      BY <2>1, <3>1, <3>2, Found, Entries
    <3> QED
      BY <3>1, <3>2, <3>3, <2>1, HeldIsThrottled DEF LimitsInv
  <2>2. ThrottledHeld
    <3>1. /\ IsTable(buckets) /\ Refuses(buckets, heldUntil) /\ \A k \in Keys : heldUntil[k] \in Nat
          /\ IsTable(failures) /\ Refuses(failures, failHeld) /\ \A k \in Keys : failHeld[k] \in Nat
      BY DEF LimitsInv
    <3> QED
      BY <3>1, <2>1 DEF ThrottledHeld
  <2>3. FrontIsOldest
    <3>1. IsTable(buckets) /\ Ordered(buckets)
      BY DEF LimitsInv
    <3>2. \A i, j \in DOMAIN buckets : i < j => i # j
      BY <3>1, Entries
    <3> QED
      BY <3>1, <3>2 DEF FrontIsOldest, IsTable, Ordered
  <2> QED
    BY <2>2, <2>3
<1> QED
  BY <1>1, LimitsInvariance, PTL

-----------------------------------------------------------------------------
(* The shield's routes.  A session's risk and its count of warned runs     *)
(* carry over what its log says of them.                                   *)
ShieldSpec == ShieldInit /\ [][ShieldNext]_shield

WarnedRun(e) == e.kind = "contained" /\ e.input = "warning"

ShieldEntries == [kind : {"plain", "contained"}, input : {"safe", "warning", "blocked"},
                  called : BOOLEAN, risk : {"safe", "warning", "blocked"}, run : Nat]

ShieldRecords == [runs : Nat, risk : Nat, warned : Nat, log : Seq(ShieldEntries)]

CarriesOver(rec) ==
  /\ rec.warned > 0 => rec.risk >= 2
  /\ \A i \in DOMAIN rec.log : WarnedRun(rec.log[i]) => rec.warned > 0
  /\ \A i, j \in DOMAIN rec.log :
       i < j /\ WarnedRun(rec.log[i]) /\ WarnedRun(rec.log[j]) =>
         /\ rec.risk >= 6
         /\ \A k \in DOMAIN rec.log :
              k >= j /\ rec.log[k].kind = "contained" => rec.log[k].risk = "blocked"

ShieldInv == \A s \in DOMAIN shield : shield[s] \in ShieldRecords /\ CarriesOver(shield[s])

(* Appending to a log leaves what is in it.                                *)
LEMMA Appended ==
  ASSUME NEW S, NEW log \in Seq(S), NEW e \in S
  PROVE  /\ Append(log, e) \in Seq(S) /\ Len(log) \in Nat
         /\ DOMAIN Append(log, e) = 1..(Len(log) + 1) /\ DOMAIN log = 1..Len(log)
         /\ Append(log, e)[Len(log) + 1] = e
         /\ \A i \in DOMAIN log : Append(log, e)[i] = log[i] /\ log[i] \in S
BY AppendProperties

(* A run that is refused or plain leaves the risk of the session alone.    *)
LEMMA PlainCarries ==
  ASSUME NEW rec \in ShieldRecords, CarriesOver(rec), NEW e \in ShieldEntries,
         e.kind = "plain"
  PROVE  LET new == [runs |-> rec.runs + 1, risk |-> rec.risk, warned |-> rec.warned,
                      log |-> Append(rec.log, e)]
         IN new \in ShieldRecords /\ CarriesOver(new)
<1> DEFINE n == Len(rec.log)
           log == Append(rec.log, e)
           new == [runs |-> rec.runs + 1, risk |-> rec.risk, warned |-> rec.warned,
                   log |-> log]
<1>1. /\ rec.log \in Seq(ShieldEntries) /\ rec.runs \in Nat
      /\ rec.risk \in Nat /\ rec.warned \in Nat
  BY DEF ShieldRecords
<1>2. /\ log \in Seq(ShieldEntries) /\ n \in Nat /\ DOMAIN log = 1..(n + 1)
      /\ DOMAIN rec.log = 1..n /\ log[n + 1] = e
      /\ \A i \in 1..n : log[i] = rec.log[i] /\ log[i] \in ShieldEntries
  BY <1>1, Appended
<1> HIDE DEF log, n
<1>3. /\ new \in ShieldRecords /\ new.log = log
      /\ new.risk = rec.risk /\ new.warned = rec.warned
  BY <1>1, <1>2 DEF ShieldRecords
<1> HIDE DEF new
<1>4. \A i \in 1..(n + 1) : log[i].kind = "contained" => i \in 1..n /\ log[i] = rec.log[i]
  BY <1>2
<1>5. CarriesOver(new)
  BY <1>2, <1>3, <1>4 DEF CarriesOver, WarnedRun
<1> QED
  BY <1>3, <1>5 DEF new, log

LEMMA RefusedCarries ==
  ASSUME NEW rec \in ShieldRecords, CarriesOver(rec)
  PROVE  LET new == [rec EXCEPT !.runs = @ + 1]
         IN new \in ShieldRecords /\ CarriesOver(new)
<1> DEFINE new == [rec EXCEPT !.runs = @ + 1]
<1>1. /\ new \in ShieldRecords /\ new.log = rec.log
      /\ new.risk = rec.risk /\ new.warned = rec.warned
  BY DEF ShieldRecords
<1> HIDE DEF new
<1>2. CarriesOver(new)
  BY <1>1 DEF CarriesOver
<1> QED
  BY <1>1, <1>2 DEF new

(* A contained run: a warned prompt costs two points, a repeated one four. *)
LEMMA ContainedCarries ==
  ASSUME NEW rec \in ShieldRecords, CarriesOver(rec), NEW e \in ShieldEntries,
         NEW points \in Nat, e.kind = "contained",
         e.input = "warning" => points >= IF rec.warned > 0 THEN 4 ELSE 2,
         rec.risk + points >= 6 => e.risk = "blocked"
  PROVE  LET new == [runs |-> rec.runs + 1, risk |-> rec.risk + points,
                      warned |-> rec.warned + Points(e.input = "warning", 1),
                      log |-> Append(rec.log, e)]
         IN new \in ShieldRecords /\ CarriesOver(new)
<1> DEFINE n == Len(rec.log)
           log == Append(rec.log, e)
           w == Points(e.input = "warning", 1)
           new == [runs |-> rec.runs + 1, risk |-> rec.risk + points,
                   warned |-> rec.warned + w, log |-> log]
<1>1. /\ rec.log \in Seq(ShieldEntries) /\ rec.runs \in Nat
      /\ rec.risk \in Nat /\ rec.warned \in Nat
  BY DEF ShieldRecords
<1>2. /\ log \in Seq(ShieldEntries) /\ n \in Nat /\ DOMAIN log = 1..(n + 1)
      /\ DOMAIN rec.log = 1..n /\ log[n + 1] = e
      /\ \A i \in 1..n : log[i] = rec.log[i] /\ log[i] \in ShieldEntries
  BY <1>1, Appended
<1>3. w \in Nat /\ (e.input = "warning" => w = 1) /\ (e.input # "warning" => w = 0)
  BY DEF Points
<1> HIDE DEF log, n, w
<1>4. /\ new \in ShieldRecords /\ new.log = log
      /\ new.risk = rec.risk + points /\ new.warned = rec.warned + w
  BY <1>1, <1>2, <1>3 DEF ShieldRecords
<1> HIDE DEF new
<1>5. /\ new.risk \in Nat /\ new.risk >= rec.risk /\ new.risk >= points
      /\ new.warned >= rec.warned /\ new.warned \in Nat
  BY <1>1, <1>3, <1>4
<1>6. \A i \in 1..(n + 1) : (i \in 1..n /\ log[i] = rec.log[i]) \/ (i = n + 1 /\ log[i] = e)
  BY <1>2
<1>7. new.warned > 0 => new.risk >= 2
  <2>1. CASE rec.warned > 0
    BY <2>1, <1>1, <1>4 DEF CarriesOver
  <2>2. CASE ~(rec.warned > 0)
    BY <2>2, <1>1, <1>3, <1>4
  <2> QED
    BY <2>1, <2>2
<1>8. \A i \in 1..(n + 1) : WarnedRun(log[i]) => new.warned > 0
  <2> SUFFICES ASSUME NEW i \in 1..(n + 1), WarnedRun(log[i]) PROVE new.warned > 0
    OBVIOUS
  <2>1. CASE i \in 1..n /\ log[i] = rec.log[i]
    <3>1. rec.warned > 0
      BY <2>1, <1>2 DEF CarriesOver
    <3> QED
      BY <3>1, <1>1, <1>5
  <2>2. CASE log[i] = e
    BY <2>2, <1>1, <1>3, <1>4 DEF WarnedRun
  <2> QED
    BY <2>1, <2>2, <1>6
<1>9. ASSUME NEW i \in 1..(n + 1), NEW j \in 1..(n + 1), i < j,
             WarnedRun(log[i]), WarnedRun(log[j])
      PROVE  /\ new.risk >= 6
             /\ \A k \in 1..(n + 1) :
                  k >= j /\ log[k].kind = "contained" => log[k].risk = "blocked"
  <2>1. i \in 1..n /\ log[i] = rec.log[i]
    BY <1>2, <1>6, <1>9
  <2>2. rec.warned > 0 /\ rec.risk >= 2
    BY <2>1, <1>2, <1>9 DEF CarriesOver
  <2>3. CASE j = n + 1
    <3>1. points >= 4
      BY <2>2, <2>3, <1>2, <1>9 DEF WarnedRun
    <3>2. new.risk >= 6 /\ e.risk = "blocked"
      BY <3>1, <2>2, <1>1, <1>4
    <3> QED
      BY <3>2, <2>3, <1>2
  <2>4. CASE j \in 1..n
    <3>1. /\ rec.risk >= 6
          /\ \A k \in 1..n :
               k >= j /\ rec.log[k].kind = "contained" => rec.log[k].risk = "blocked"
      BY <2>1, <2>4, <1>2, <1>9 DEF CarriesOver
    <3>2. new.risk >= 6 /\ e.risk = "blocked"
      BY <3>1, <1>1, <1>4, <1>5
    <3> QED
      BY <3>1, <3>2, <1>2, <1>6
  <2> QED
    BY <2>3, <2>4, <1>2
<1>10. CarriesOver(new)
  BY <1>2, <1>4, <1>7, <1>8, <1>9 DEF CarriesOver
<1> QED
  BY <1>4, <1>10 DEF new, log, w

LEMMA ShieldStep == ShieldInv /\ [ShieldNext]_shield => ShieldInv'
<1> SUFFICES ASSUME ShieldInv, [ShieldNext]_shield PROVE ShieldInv'
  OBVIOUS
(* A step of a session that exists moves its record alone.                 *)
<1>1. ASSUME NEW s, s \in DOMAIN shield, NEW rec, shield' = [shield EXCEPT ![s] = rec],
             rec \in ShieldRecords, CarriesOver(rec)
      PROVE  ShieldInv'
  BY <1>1 DEF ShieldInv
<1>2. ASSUME NEW s \in ShieldIds, CreateShieldSession(s) PROVE ShieldInv'
  <2> DEFINE rec == [runs |-> 0, risk |-> 0, warned |-> 0, log |-> <<>>]
  <2>1. rec \in ShieldRecords /\ CarriesOver(rec)
    BY DEF ShieldRecords, CarriesOver
  <2>2. shield' = [x \in DOMAIN shield \cup {s} |-> IF x = s THEN rec ELSE shield[x]]
    BY <1>2 DEF CreateShieldSession
  <2> HIDE DEF rec
  <2> QED
    BY <2>1, <2>2 DEF ShieldInv
<1>3. ASSUME NEW s \in ShieldIds, RefuseRun(s) PROVE ShieldInv'
  <2>1. /\ s \in DOMAIN shield
        /\ shield' = [shield EXCEPT ![s] = [shield[s] EXCEPT !.runs = @ + 1]]
    BY <1>3 DEF RefuseRun, MayRunShield
  <2>2. shield[s] \in ShieldRecords /\ CarriesOver(shield[s])
    BY <2>1 DEF ShieldInv
  <2> QED
    BY <2>1, <2>2, <1>1, RefusedCarries
<1>4. ASSUME NEW s \in ShieldIds, NEW prompt \in ShieldPrompts, RunPlain(s, prompt)
      PROVE  ShieldInv'
  <2> DEFINE rec == shield[s]
             input == ClassifyPrompt(prompt)
             e == [kind |-> "plain", input |-> input, called |-> input # "blocked",
                   risk |-> input, run |-> rec.runs + 1]
  <2>1. /\ s \in DOMAIN shield
        /\ shield' = [shield EXCEPT ![s] = [runs |-> rec.runs + 1, risk |-> rec.risk, warned |-> rec.warned,
                      log |-> Append(rec.log, e)]]
    BY <1>4 DEF RunPlain, MayRunShield
  <2>2. rec \in ShieldRecords /\ CarriesOver(rec)
    BY <2>1 DEF ShieldInv
  <2>3. input \in {"safe", "warning", "blocked"}
    BY DEF ClassifyPrompt
  <2>4. rec.runs \in Nat
    BY <2>2 DEF ShieldRecords
  <2>5. e \in ShieldEntries /\ e.kind = "plain"
    BY <2>3, <2>4 DEF ShieldEntries
  <2> HIDE DEF e, rec
  <2> QED
    BY <2>1, <2>2, <2>5, <1>1, PlainCarries
<1>5. ASSUME NEW s \in ShieldIds, NEW prompt \in ShieldPrompts,
             NEW contexts \in ShieldContexts, NEW scenario,
             RunContained(s, prompt, contexts, scenario)
      PROVE  ShieldInv'
  <2> DEFINE rec == shield[s]
             input == ClassifyPrompt(prompt)
             context == GuardContexts(contexts, FALSE)
             called == input # "blocked" /\ context # "rejected"
             tool == IF called THEN GateToolRequest(scenario.tool) ELSE "not_requested"
             output == IF called THEN ScanOutput(scenario.text) ELSE "not_called"
             scored == RiskPointsFor(input, context, tool, output, Repeated(rec, input))
             points == IF input = "blocked" THEN 6 ELSE scored
             risk == IF input = "blocked" \/ context = "rejected" THEN "blocked"
                     ELSE RiskVerdict(rec.risk + points)
             e == [kind |-> "contained", input |-> input, called |-> called,
                   risk |-> risk, run |-> rec.runs + 1]
  <2>1. /\ s \in DOMAIN shield
        /\ shield' = [shield EXCEPT ![s] =
             [runs |-> rec.runs + 1, risk |-> rec.risk + points,
                      warned |-> rec.warned + Points(input = "warning", 1),
                      log |-> Append(rec.log, e)]]
    BY <1>5 DEF RunContained, MayRunShield
  <2>2. rec \in ShieldRecords /\ CarriesOver(rec) /\ rec.runs \in Nat /\ rec.risk \in Nat
    BY <2>1 DEF ShieldInv, ShieldRecords
  <2>3. input \in {"safe", "warning", "blocked"} /\ called \in BOOLEAN
    BY DEF ClassifyPrompt
  <2> HIDE DEF rec, input, context, called, tool, output
  <2>4. /\ scored \in Nat /\ (input = "warning" => scored >= 2)
        /\ (input = "warning" /\ rec.warned > 0 => scored >= 4)
    BY DEF RiskPointsFor, Points, Repeated
  <2> HIDE DEF scored
  <2>5. /\ points \in Nat
        /\ input = "warning" => points >= IF rec.warned > 0 THEN 4 ELSE 2
    BY <2>4
  <2> HIDE DEF points
  <2>6. /\ risk \in {"safe", "warning", "blocked"}
        /\ rec.risk + points >= 6 => risk = "blocked"
    BY <2>2, <2>5 DEF RiskVerdict
  <2> HIDE DEF risk
  <2>7. e \in ShieldEntries /\ e.kind = "contained" /\ e.input = input /\ e.risk = risk
    BY <2>2, <2>3, <2>6 DEF ShieldEntries
  <2> HIDE DEF e
  <2> DEFINE new == [runs |-> rec.runs + 1, risk |-> rec.risk + points,
                      warned |-> rec.warned + Points(input = "warning", 1),
                      log |-> Append(rec.log, e)]
  <2>8. new \in ShieldRecords /\ CarriesOver(new)
    BY <2>2, <2>5, <2>6, <2>7, ContainedCarries
  <2> HIDE DEF new
  <2>9. shield' = [shield EXCEPT ![s] = new]
    BY <2>1 DEF new
  <2> QED
    BY <2>1, <2>8, <2>9, <1>1
<1>6. CASE UNCHANGED shield
  BY <1>6 DEF ShieldInv
<1> QED
  BY <1>2, <1>3, <1>4, <1>5, <1>6 DEF ShieldNext

(* The invariant of the shield's routes holds in every state.              *)
THEOREM ShieldInvariance == ShieldSpec => []ShieldInv
<1>1. ShieldInit => ShieldInv
  BY DEF ShieldInit, ShieldInv
<1> QED
  BY <1>1, ShieldStep, PTL DEF ShieldSpec

(* From the second contained run with a warned prompt on, every contained  *)
(* run of the session is blocked (llmShieldRouter.js 280-297), whatever    *)
(* runs and refusals lie in between.                                       *)
THEOREM SofteningAlwaysEscalates == ShieldSpec => []SofteningEscalates
<1>1. ShieldInv => SofteningEscalates
  BY DEF ShieldInv, CarriesOver, WarnedRun, SofteningEscalates
<1> QED
  BY <1>1, ShieldInvariance, PTL

-----------------------------------------------------------------------------
(* The shield's gateway behind its mount.                                  *)
GatewaySpec == GatewayInit /\ [][GatewayNext]_gatewayVars

IsTrail(trail) == \E S : trail \in Seq(S)

(* A receipt: a swap hid nothing, and what the guarded mount exported is   *)
(* no better than the risk the run was judged to have.  That is at least   *)
(* what its score says, or nothing was exported at all.                    *)
Receipted(e) ==
  /\ e.score \in Nat
  /\ e.swapped => /\ VerdictRank(e.risk) >= VerdictRank(e.prior)
                  /\ VerdictRank(e.risk) >= VerdictRank("warning")
  /\ ExportGuard =>
       /\ VerdictRank(e.exported) >= VerdictRank(e.risk)
       /\ \/ e.exported = "blocked"
          \/ VerdictRank(e.risk) >= VerdictRank(RiskVerdict(e.score))

IsGatewayRecord(x) ==
  /\ x \in [risk : Nat, trail : {x.trail}] /\ IsTrail(x.trail)
  /\ \A i \in DOMAIN x.trail : Receipted(x.trail[i])
  /\ \A i, j \in DOMAIN x.trail : i < j => x.trail[i].score <= x.trail[j].score
  /\ x.trail # <<>> => x.trail[Len(x.trail)].score = x.risk

FlightsOK ==
  /\ DOMAIN flight \subseteq Requests
  /\ \A r \in DOMAIN flight :
       /\ flight[r] \in [session : GatewayIds, run : Runs, primary : {flight[r].primary}]
       /\ flight[r].session \in DOMAIN sessions

GatewayInv ==
  /\ FlightsOK
  /\ DOMAIN sessions \subseteq GatewayIds
  /\ \A s \in DOMAIN sessions : IsGatewayRecord(sessions[s])

-----------------------------------------------------------------------------
LEMMA Ranks ==
  /\ \A v : VerdictRank(v) \in {0, 1, 2}
  /\ VerdictRank("warning") = 1 /\ VerdictRank("blocked") = 2 /\ VerdictRank("accepted") = 0
  /\ \A v : VerdictRank(v) = 2 => v = "blocked"
  /\ \A v : v # "blocked" /\ v # "warning" => VerdictRank(v) = 0
  /\ \A a, b : /\ VerdictRank(MergeTrustMonotonic(a, b)) >= VerdictRank(a)
               /\ VerdictRank(MergeTrustMonotonic(a, b)) >= VerdictRank(b)
<1>1. \A v : VerdictRank(v) \in {0, 1, 2}
  BY DEF VerdictRank
<1>2. VerdictRank("warning") = 1 /\ VerdictRank("blocked") = 2 /\ VerdictRank("accepted") = 0
  BY DEF VerdictRank
<1>3. ASSUME NEW a, NEW b
      PROVE  /\ VerdictRank(MergeTrustMonotonic(a, b)) >= VerdictRank(a)
             /\ VerdictRank(MergeTrustMonotonic(a, b)) >= VerdictRank(b)
  <2> DEFINE p == VerdictRank(a)
             q == VerdictRank(b)
             higher == IF p >= q THEN p ELSE q
  <2>1. MergeTrustMonotonic(a, b) =
          CASE higher = 0 -> "accepted" [] higher = 1 -> "warning" [] OTHER -> "blocked"
    BY DEF MergeTrustMonotonic
  <2>2. p \in {0, 1, 2} /\ q \in {0, 1, 2}
    BY <1>1
  <2> HIDE DEF p, q
  <2>3. higher \in {0, 1, 2} /\ higher >= p /\ higher >= q
    BY <2>2
  <2> HIDE DEF higher
  <2>4. VerdictRank(MergeTrustMonotonic(a, b)) = higher
    BY <2>1, <2>3, <1>2
  <2> QED
    BY <2>3, <2>4 DEF p, q
<1>4. /\ \A v : VerdictRank(v) = 2 => v = "blocked"
      /\ \A v : v # "blocked" /\ v # "warning" => VerdictRank(v) = 0
  BY DEF VerdictRank
<1> QED
  BY <1>1, <1>2, <1>3, <1>4

LEMMA TrailAppended ==
  ASSUME NEW trail, IsTrail(trail), NEW e
  PROVE  /\ IsTrail(Append(trail, e)) /\ Len(trail) \in Nat
         /\ DOMAIN trail = 1..Len(trail)
         /\ DOMAIN Append(trail, e) = 1..(Len(trail) + 1)
         /\ Len(Append(trail, e)) = Len(trail) + 1
         /\ Append(trail, e)[Len(trail) + 1] = e
         /\ \A i \in DOMAIN trail : Append(trail, e)[i] = trail[i]
<1>1. PICK S : trail \in Seq(S)
  BY DEF IsTrail
<1>2. trail \in Seq(S \cup {e}) /\ e \in S \cup {e}
  BY <1>1
<1> QED
  BY <1>2, AppendProperties DEF IsTrail

(* A receipt whose score is the session's new risk, no less than the old.  *)
LEMMA ReceiptKeeps ==
  ASSUME NEW x, IsGatewayRecord(x), NEW y, NEW e, NEW score \in Nat,
         y \in [risk : {score}, trail : {Append(x.trail, e)}],
         e.score = score, score >= x.risk, Receipted(e)
  PROVE  IsGatewayRecord(y)
<1> DEFINE n == Len(x.trail)
           t == Append(x.trail, e)
<1>1. /\ IsTrail(t) /\ n \in Nat /\ DOMAIN x.trail = 1..n
      /\ DOMAIN t = 1..(n + 1) /\ Len(t) = n + 1
      /\ t[n + 1] = e /\ \A i \in 1..n : t[i] = x.trail[i]
  <2>1. IsTrail(x.trail)
    BY DEF IsGatewayRecord
  <2>2. /\ IsTrail(t) /\ n \in Nat /\ DOMAIN x.trail = 1..n
        /\ DOMAIN t = 1..(n + 1) /\ Len(t) = n + 1
        /\ t[n + 1] = e /\ \A i \in DOMAIN x.trail : t[i] = x.trail[i]
    BY <2>1, TrailAppended
  <2> QED
    BY <2>2
<1>2. y.trail = t /\ y.risk = score /\ y \in [risk : Nat, trail : {y.trail}]
  OBVIOUS
<1> HIDE DEF t
<1>3. /\ \A i \in 1..n : x.trail[i].score \in Nat /\ Receipted(x.trail[i])
      /\ \A i, j \in 1..n : i < j => x.trail[i].score <= x.trail[j].score
      /\ n > 0 => x.trail[n].score = x.risk
      /\ x.risk \in Nat
  <2>1. n > 0 => x.trail # <<>>
    BY <1>1
  <2> QED
    BY <1>1, <2>1 DEF IsGatewayRecord, Receipted
<1> HIDE DEF n
<1>4. \A i \in 1..n : x.trail[i].score <= score
  <2> SUFFICES ASSUME NEW i \in 1..n PROVE x.trail[i].score <= score
    OBVIOUS
  <2>1. n \in 1..n /\ n > 0 /\ (i < n \/ i = n)
    BY <1>1
  <2>2. x.trail[n].score <= score /\ x.trail[n].score \in Nat /\ x.trail[i].score \in Nat
    BY <1>3, <2>1
  <2> QED
    BY <1>3, <2>1, <2>2
<1>5. \A i \in 1..(n + 1) : i = n + 1 \/ i \in 1..n
  BY <1>1
<1>6. \A i \in 1..(n + 1) : Receipted(t[i])
  BY <1>1, <1>3, <1>5
<1>7. \A i, j \in 1..(n + 1) : i < j => t[i].score <= t[j].score
  <2> SUFFICES ASSUME NEW i \in 1..(n + 1), NEW j \in 1..(n + 1), i < j
               PROVE  t[i].score <= t[j].score
    OBVIOUS
  <2>1. i \in 1..n /\ (j \in 1..n \/ j = n + 1)
    BY <1>1
  <2> QED
    BY <1>1, <1>3, <1>4, <2>1
<1>8. t[Len(t)].score = y.risk
  BY <1>1, <1>2
<1> QED
  BY <1>1, <1>2, <1>6, <1>7, <1>8 DEF IsGatewayRecord

-----------------------------------------------------------------------------
(* The ends of a run.                                                      *)
LEMMA RefusedKeeps ==
  ASSUME NEW x, IsGatewayRecord(x)
  PROVE  IsGatewayRecord(Refused(x))
<1> DEFINE e == [swapped |-> FALSE, prior |-> "accepted", risk |-> "warning",
                 score |-> x.risk, exported |-> "blocked"]
           y == [x EXCEPT !.trail = Append(@, e)]
<1>1. x \in [risk : Nat, trail : {x.trail}]
  BY DEF IsGatewayRecord
<1>2. y \in [risk : {x.risk}, trail : {Append(x.trail, e)}]
  BY <1>1
<1>3. /\ e.score = x.risk /\ x.risk \in Nat /\ x.risk >= x.risk
      /\ e.exported = "blocked" /\ e.risk = "warning" /\ ~e.swapped
  BY <1>1
<1>4. Refused(x) = y
  BY DEF Refused
<1> HIDE DEF e, y
<1>5. Receipted(e)
  BY <1>3, Ranks DEF Receipted
<1> QED
  BY <1>2, <1>3, <1>4, <1>5, ReceiptKeeps

(* A swap that hides nothing: its verdict is at least the one replaced.    *)
HonestSwap(swap) ==
  /\ swap.used \in BOOLEAN /\ swap.delta \in Nat
  /\ swap.used => /\ VerdictRank(swap.verdict) >= VerdictRank(swap.prior)
                  /\ VerdictRank(swap.verdict) >= 1

LEMMA SwapsAreHonest ==
  /\ HonestSwap(NoSwap)
  /\ \A p, o, f : HonestSwap(Swap(p, o, f))
<1>1. HonestSwap(NoSwap)
  BY DEF HonestSwap, NoSwap
<1>2. ASSUME NEW p, NEW o, NEW f
      PROVE  HonestSwap(Swap(p, o, f))
  <2> DEFINE m == MergeTrustMonotonic(p.verdict, f.verdict)
             v == ApplySwapFloor(m)
             d == RiskDeltaFor(o)
  <2>1. Swap(p, o, f) = [used |-> TRUE, delta |-> d, prior |-> p.verdict, verdict |-> v]
    BY DEF Swap
  <2>2. d \in Nat
    BY DEF RiskDeltaFor
  <2>3. VerdictRank(m) >= VerdictRank(p.verdict)
    BY Ranks
  <2>4. VerdictRank(v) >= VerdictRank(m) /\ VerdictRank(v) >= 1
    BY Ranks DEF ApplySwapFloor
  <2>5. /\ VerdictRank(v) \in {0, 1, 2} /\ VerdictRank(m) \in {0, 1, 2}
        /\ VerdictRank(p.verdict) \in {0, 1, 2}
    BY Ranks
  <2> HIDE DEF m, v, d
  <2>6. VerdictRank(v) >= VerdictRank(p.verdict)
    BY <2>3, <2>4, <2>5
  <2> QED
    BY <2>1, <2>2, <2>4, <2>6 DEF HonestSwap
<1> QED
  BY <1>1, <1>2

(* The guarded mount exports nothing better than the risk of the run.      *)
LEMMA GuardHolds ==
  ASSUME ExportGuard, NEW run, NEW final, NEW risk, NEW verdict,
         verdict = GatewayVerdict(run, final, risk)
  PROVE  VerdictRank(GuardGatewayExport(run, final, risk, verdict)) >= VerdictRank(risk)
<1> DEFINE g == GuardGatewayExport(run, final, risk, verdict)
<1>1. g = "blocked" \/ (g = verdict /\ risk # "blocked")
  BY DEF GuardGatewayExport
<1>2. verdict = "blocked" \/ (risk = "warning" /\ verdict = "warning") \/ risk # "warning"
  BY DEF GatewayVerdict
<1> HIDE DEF g
<1>3. VerdictRank(risk) \in {0, 1, 2} /\ VerdictRank(g) \in {0, 1, 2}
      /\ VerdictRank("blocked") = 2
  BY Ranks
<1>4. CASE g = "blocked"
  BY <1>3, <1>4 DEF g
<1>5. CASE g = verdict /\ risk # "blocked" /\ verdict # "blocked"
  <2>1. g = risk \/ VerdictRank(risk) = 0
    BY <1>2, <1>5, Ranks
  <2> QED
    BY <1>3, <2>1 DEF g
<1> QED
  BY <1>1, <1>4, <1>5 DEF g

LEMMA FinishedKeeps ==
  ASSUME NEW x, IsGatewayRecord(x), NEW run, NEW final, NEW swap, HonestSwap(swap)
  PROVE  IsGatewayRecord(Finished(x, run, final, swap))
<1> DEFINE points == IF run.input = "blocked" THEN 6
                     ELSE RiskPointsFor(run.input, run.context, final.tool, final.output, FALSE)
           score == x.risk + points + swap.delta
           own == IF run.input = "blocked" \/ run.context = "rejected" THEN "blocked"
                  ELSE RiskVerdict(score)
           risk == IF swap.used THEN MergeTrustMonotonic(own, swap.verdict) ELSE own
           verdict == GatewayVerdict(run, final, risk)
           exported == GuardGatewayExport(run, final, risk, verdict)
           e == [swapped |-> swap.used, prior |-> swap.prior, risk |-> risk, score |-> score,
                 exported |-> exported]
           y == [risk |-> score, trail |-> Append(x.trail, e)]
<1>1. Finished(x, run, final, swap) = y
  BY DEF Finished
<1>2. x.risk \in Nat
  BY DEF IsGatewayRecord
<1>3. points \in Nat
  BY DEF RiskPointsFor, Points
<1> HIDE DEF points
<1>4. score \in Nat /\ score >= x.risk
  BY <1>2, <1>3 DEF HonestSwap
<1> HIDE DEF score
<1>5. ExportGuard => VerdictRank(exported) >= VerdictRank(risk)
  BY GuardHolds
<1> HIDE DEF verdict, exported
<1>6. VerdictRank(own) >= VerdictRank(RiskVerdict(score))
  <2>1. own = "blocked" \/ own = RiskVerdict(score)
    OBVIOUS
  <2>2. VerdictRank(RiskVerdict(score)) \in {0, 1, 2} /\ VerdictRank("blocked") = 2
    BY Ranks
  <2> HIDE DEF own
  <2> QED
    BY <2>1, <2>2
<1> HIDE DEF own
<1>7. /\ VerdictRank(risk) >= VerdictRank(RiskVerdict(score))
      /\ swap.used => /\ VerdictRank(risk) >= VerdictRank(swap.prior)
                      /\ VerdictRank(risk) >= VerdictRank("warning")
  <2>1. /\ risk = own \/ risk = MergeTrustMonotonic(own, swap.verdict)
        /\ swap.used => risk = MergeTrustMonotonic(own, swap.verdict)
    OBVIOUS
  <2> HIDE DEF risk
  <2>2. /\ VerdictRank(risk) \in {0, 1, 2} /\ VerdictRank(own) \in {0, 1, 2}
        /\ VerdictRank(swap.verdict) \in {0, 1, 2} /\ VerdictRank(swap.prior) \in {0, 1, 2}
        /\ VerdictRank(RiskVerdict(score)) \in {0, 1, 2} /\ VerdictRank("warning") = 1
    BY Ranks
  <2>3. /\ VerdictRank(risk) >= VerdictRank(own)
        /\ swap.used => VerdictRank(risk) >= VerdictRank(swap.verdict)
    BY <2>1, <2>2, Ranks
  <2> QED
    BY <1>6, <2>2, <2>3 DEF HonestSwap
<1> HIDE DEF risk
<1>8. /\ y \in [risk : {score}, trail : {Append(x.trail, e)}]
      /\ e.score = score /\ e.swapped = swap.used /\ e.prior = swap.prior
      /\ e.risk = risk /\ e.exported = exported
  OBVIOUS
<1> HIDE DEF e, y
<1>9. Receipted(e)
  BY <1>4, <1>5, <1>7, <1>8 DEF Receipted
<1> QED
  BY <1>1, <1>4, <1>8, <1>9, ReceiptKeeps

-----------------------------------------------------------------------------
(* A step that replaces the record of one session, of requests that are    *)
(* still under way or begin.                                               *)
LEMMA RecordStep ==
  ASSUME GatewayInv, NEW s, NEW y, sessions' = [sessions EXCEPT ![s] = y],
         s \in DOMAIN sessions => IsGatewayRecord(y),
         DOMAIN flight' \subseteq DOMAIN flight,
         \A r \in DOMAIN flight' : flight'[r] = flight[r]
  PROVE  GatewayInv'
<1>1. /\ DOMAIN sessions' = DOMAIN sessions
      /\ \A t \in DOMAIN sessions : t # s => sessions'[t] = sessions[t]
      /\ s \in DOMAIN sessions => sessions'[s] = y
  OBVIOUS
<1>2. FlightsOK'
  BY <1>1 DEF GatewayInv, FlightsOK
<1>3. \A t \in DOMAIN sessions' : IsGatewayRecord(sessions'[t])
  BY <1>1 DEF GatewayInv
<1> QED
  BY <1>1, <1>2, <1>3 DEF GatewayInv

LEMMA CreateStep ==
  ASSUME GatewayInv, NEW s \in GatewayIds, CreateSession(s)
  PROVE  GatewayInv'
<1> DEFINE y == [risk |-> 0, trail |-> <<>>]
<1>1. IsGatewayRecord(y)
  <2>1. y \in [risk : Nat, trail : {y.trail}] /\ y.trail = <<>> /\ DOMAIN y.trail = {}
    OBVIOUS
  <2>2. IsTrail(y.trail)
    BY <2>1 DEF IsTrail
  <2> QED
    BY <2>1, <2>2 DEF IsGatewayRecord
<1> HIDE DEF y
<1>2. /\ DOMAIN sessions' = DOMAIN sessions \cup {s} /\ sessions'[s] = y
      /\ \A t \in DOMAIN sessions : t # s => sessions'[t] = sessions[t]
      /\ flight' = flight
  BY DEF CreateSession, Change, y
<1>3. FlightsOK'
  BY <1>2 DEF GatewayInv, FlightsOK
<1>4. \A t \in DOMAIN sessions' : IsGatewayRecord(sessions'[t])
  BY <1>1, <1>2 DEF GatewayInv
<1> QED
  BY <1>2, <1>3, <1>4 DEF GatewayInv

LEMMA AtOnceSteps ==
  ASSUME GatewayInv, NEW s, NEW run, NEW raw,
         RejectConfig(s) \/ Skip(s, run) \/ RunMock(s, run, raw)
  PROVE  GatewayInv'
<1>1. s \in DOMAIN sessions /\ flight' = flight /\ IsGatewayRecord(sessions[s])
  BY DEF GatewayInv, RejectConfig, Skip, RunMock, MayRun
<1>2. PICK y : sessions' = [sessions EXCEPT ![s] = y] /\ IsGatewayRecord(y)
  <2>1. CASE RejectConfig(s)
    BY <1>1, <2>1, RefusedKeeps DEF RejectConfig
  <2>2. CASE Skip(s, run)
    BY <1>1, <2>2, FinishedKeeps, SwapsAreHonest DEF Skip
  <2>3. CASE RunMock(s, run, raw)
    <3>1. \E final, swap : /\ HonestSwap(swap)
                           /\ sessions' = [sessions EXCEPT ![s] = Finished(@, run, final, swap)]
      BY <2>3, SwapsAreHonest DEF RunMock
    <3> QED
      BY <1>1, <3>1, FinishedKeeps
  <2> QED
    BY <2>1, <2>2, <2>3
<1> QED
  BY <1>1, <1>2, RecordStep

LEMMA BeginStep ==
  ASSUME GatewayInv, NEW r \in Requests, NEW s \in GatewayIds, NEW run \in Runs,
         Begin(r, s, run)
  PROVE  GatewayInv'
<1> DEFINE f == [session |-> s, run |-> run, primary |-> <<>>]
<1>1. /\ s \in DOMAIN sessions /\ sessions' = sessions
      /\ DOMAIN flight' = DOMAIN flight \cup {r} /\ flight'[r] = f
      /\ \A q \in DOMAIN flight : q # r => flight'[q] = flight[q]
  BY DEF Begin, MayRun, Change
<1>2. f \in [session : GatewayIds, run : Runs, primary : {f.primary}] /\ f.session = s
  OBVIOUS
<1> HIDE DEF f
<1>3. FlightsOK'
  BY <1>1, <1>2 DEF GatewayInv, FlightsOK
<1> QED
  BY <1>1, <1>3 DEF GatewayInv

LEMMA AnswerStep ==
  ASSUME GatewayInv, NEW r \in DOMAIN flight, NEW raw, Answer(r, raw)
  PROVE  GatewayInv'
<1> DEFINE f == flight[r]
<1>1. /\ f \in [session : GatewayIds, run : Runs, primary : {f.primary}]
      /\ f.session \in DOMAIN sessions /\ IsGatewayRecord(sessions[f.session])
  BY DEF GatewayInv, FlightsOK
<1>2. \/ /\ sessions' = sessions
         /\ \E a : flight' = [flight EXCEPT ![r].primary = <<a>>]
      \/ /\ flight' = Without(flight, r)
         /\ \E final, swap : /\ HonestSwap(swap)
                             /\ sessions' = [sessions EXCEPT ![f.session] =
                                               Finished(@, f.run, final, swap)]
  BY SwapsAreHonest DEF Answer
<1>3. CASE sessions' = sessions /\ \E a : flight' = [flight EXCEPT ![r].primary = <<a>>]
  <2>1. PICK a : flight' = [flight EXCEPT ![r].primary = <<a>>]
    BY <1>3
  <2> DEFINE g == [f EXCEPT !.primary = <<a>>]
  <2>2. /\ g \in [session : GatewayIds, run : Runs, primary : {g.primary}]
        /\ g.session = f.session
    BY <1>1
  <2>3. /\ DOMAIN flight' = DOMAIN flight /\ flight'[r] = g
        /\ \A q \in DOMAIN flight : q # r => flight'[q] = flight[q]
    BY <2>1
  <2> HIDE DEF g
  <2>4. FlightsOK'
    BY <1>1, <1>3, <2>2, <2>3 DEF GatewayInv, FlightsOK
  <2> QED
    BY <1>3, <2>4 DEF GatewayInv
<1>4. CASE /\ flight' = Without(flight, r)
           /\ \E final, swap : /\ HonestSwap(swap)
                               /\ sessions' = [sessions EXCEPT ![f.session] =
                                                 Finished(@, f.run, final, swap)]
  <2>1. DOMAIN flight' \subseteq DOMAIN flight /\ \A q \in DOMAIN flight' : flight'[q] = flight[q]
    BY <1>4 DEF Without
  <2>2. PICK y : sessions' = [sessions EXCEPT ![f.session] = y] /\ IsGatewayRecord(y)
    BY <1>1, <1>4, FinishedKeeps
  <2> QED
    BY <2>1, <2>2, RecordStep
<1> QED
  BY <1>2, <1>3, <1>4

LEMMA FixtureFailsStep ==
  ASSUME GatewayInv, NEW r \in DOMAIN flight, FixtureFails(r)
  PROVE  GatewayInv'
<1>1. flight[r].session \in DOMAIN sessions /\ IsGatewayRecord(sessions[flight[r].session])
  BY DEF GatewayInv, FlightsOK
<1>2. DOMAIN flight' \subseteq DOMAIN flight /\ \A q \in DOMAIN flight' : flight'[q] = flight[q]
  BY DEF FixtureFails, Without
<1>3. PICK y : sessions' = [sessions EXCEPT ![flight[r].session] = y] /\ IsGatewayRecord(y)
  BY <1>1, RefusedKeeps DEF FixtureFails
<1> QED
  BY <1>2, <1>3, RecordStep

-----------------------------------------------------------------------------
LEMMA GatewayStarts == GatewayInit => GatewayInv
BY DEF GatewayInit, GatewayInv, FlightsOK

LEMMA GatewayStep == GatewayInv /\ [GatewayNext]_gatewayVars => GatewayInv'
<1> SUFFICES ASSUME GatewayInv, [GatewayNext]_gatewayVars PROVE GatewayInv'
  OBVIOUS
<1>1. CASE UNCHANGED gatewayVars
  BY <1>1 DEF gatewayVars, GatewayInv, FlightsOK
<1>2. CASE \E s \in GatewayIds : CreateSession(s)
  BY <1>2, CreateStep
<1>3. CASE \E s \in GatewayIds : RejectConfig(s)
  BY <1>3, AtOnceSteps
<1>4. CASE \E s \in GatewayIds, run \in Runs : Skip(s, run)
  BY <1>4, AtOnceSteps
<1>5. CASE \E s \in GatewayIds, run \in Runs : \E raw \in Answers("mock") : RunMock(s, run, raw)
  BY <1>5, AtOnceSteps
<1>6. CASE \E r \in Requests, s \in GatewayIds, run \in Runs : Begin(r, s, run)
  BY <1>6, BeginStep
<1>7. CASE \E r \in DOMAIN flight : \E raw \in Answers("recorded_fixture") : Answer(r, raw)
  BY <1>7, AnswerStep
<1>8. CASE \E r \in DOMAIN flight : FixtureFails(r)
  BY <1>8, FixtureFailsStep
<1> QED
  BY <1>1, <1>2, <1>3, <1>4, <1>5, <1>6, <1>7, <1>8 DEF GatewayNext

(* The invariant of the gateway holds in every state, with any number of   *)
(* requests under way.                                                     *)
THEOREM GatewayInvariance == GatewaySpec => []GatewayInv
BY GatewayStarts, GatewayStep, PTL DEF GatewaySpec

(* What the invariant says of the properties that runs check.              *)
LEMMA RiskKept == GatewayInv => RiskOnlyGrows
<1> SUFFICES ASSUME GatewayInv PROVE RiskOnlyGrows
  OBVIOUS
<1>1. \A s \in DOMAIN sessions : IsGatewayRecord(sessions[s])
  BY DEF GatewayInv
<1>2. SwapHidesNothing
  BY <1>1 DEF IsGatewayRecord, SwapHidesNothing, Receipted
<1>3. ScoreNeverFalls
  BY <1>1 DEF IsGatewayRecord, ScoreNeverFalls
<1> QED
  BY <1>2, <1>3 DEF RiskOnlyGrows

(* A swap of models hides no verdict, and the scores of the receipts never *)
(* fall and end at the session's, in whichever order its runs end.         *)
THEOREM RiskAlwaysGrows == GatewaySpec => []RiskOnlyGrows
BY GatewayInvariance, RiskKept, PTL

LEMMA NothingLaundered == GatewayInv => NeverLaundered
<1> SUFFICES ASSUME GatewayInv, ExportGuard, NEW s \in DOMAIN sessions,
                    NEW i \in DOMAIN sessions[s].trail
             PROVE  LET trail == sessions[s].trail
                    IN  /\ VerdictRank(trail[i].exported) >= VerdictRank(trail[i].risk)
                        /\ trail[i].swapped => trail[i].exported # "accepted"
                        /\ \A j \in DOMAIN trail :
                             j < i /\ RiskVerdict(trail[j].score) = "blocked" =>
                               trail[i].exported = "blocked"
  BY DEF NeverLaundered
<1> DEFINE trail == sessions[s].trail
           e == trail[i]
<1>1. /\ \A j \in DOMAIN trail : Receipted(trail[j])
      /\ \A j, k \in DOMAIN trail : j < k => trail[j].score <= trail[k].score
  BY DEF GatewayInv, IsGatewayRecord
<1>2. Receipted(e)
  BY <1>1
<1> HIDE DEF e
<1>3. /\ VerdictRank(e.exported) \in {0, 1, 2} /\ VerdictRank(e.risk) \in {0, 1, 2}
      /\ VerdictRank("accepted") = 0 /\ VerdictRank("warning") = 1
      /\ VerdictRank("blocked") = 2
  BY Ranks
<1>4. VerdictRank(e.exported) >= VerdictRank(e.risk)
  BY <1>2 DEF Receipted
<1>5. e.swapped => e.exported # "accepted"
  BY <1>2, <1>3, <1>4 DEF Receipted
<1>6. ASSUME NEW j \in DOMAIN trail, j < i, RiskVerdict(trail[j].score) = "blocked"
      PROVE  e.exported = "blocked"
  <2>1. trail[j].score <= e.score /\ trail[j].score \in Nat /\ e.score \in Nat
    BY <1>1, <1>6 DEF Receipted, e
  <2>2. RiskVerdict(e.score) = "blocked"
    <3>1. ~(trail[j].score <= 5)
      BY <1>6, <2>1 DEF RiskVerdict
    <3>2. ~(e.score <= 2) /\ ~(e.score <= 5)
      BY <2>1, <3>1
    <3> QED
      BY <3>2 DEF RiskVerdict
  <2>3. e.exported = "blocked" \/ VerdictRank(e.risk) >= VerdictRank(RiskVerdict(e.score))
    BY <1>2 DEF Receipted
  <2>4. e.exported = "blocked" \/ VerdictRank(e.exported) = 2
    BY <1>3, <1>4, <2>2, <2>3
  <2> QED
    BY <2>4, Ranks
<1> QED
  BY <1>4, <1>5, <1>6 DEF e

(* With the mount's guard on, nothing is exported better than its risk, no *)
(* run that swapped models is exported as accepted, and a session whose    *)
(* score is beyond the limit exports nothing from then on (server.js       *)
(* 590-649).                                                               *)
THEOREM NeverLaunders == GatewaySpec => []NeverLaundered
BY GatewayInvariance, NothingLaundered, PTL

-----------------------------------------------------------------------------
(* The consent pilots.                                                     *)
PilotSpec == PilotInit /\ [][PilotNext]_pilotVars

IsLog(c) ==
  /\ c \in [prevHash : {c.prevHash}, entries : {c.entries}, truncated : BOOLEAN]
  /\ \E S : c.entries \in Seq(S)

IsPilotRecord(x) ==
  /\ x \in [withdrawn : BOOLEAN, submitted : BOOLEAN, forbidden : {0, 1},
            risk : {x.risk}, expired : BOOLEAN, chain : {x.chain}]
  /\ IsLog(x.chain)

Trail(x) ==
  /\ \A i, j \in At(x, "submitted") : i = j
  /\ \A i, j \in At(x, "withdrawn") : i = j
  /\ At(x, "submitted") # {} => x.submitted
  /\ At(x, "withdrawn") # {} => x.withdrawn
  /\ ~x.chain.truncated => /\ x.submitted => At(x, "submitted") # {}
                           /\ x.withdrawn => At(x, "withdrawn") # {}
  /\ \A type \in {"submitted", "report", "explained", "rejected"} : Before(x, type, "withdrawn")

RiskCounts(x) ==
  x.submitted => /\ x.risk.attempted <=> x.forbidden > 0
                 /\ x.forbidden > 0 => x.risk.verdict # "safe"

PilotInv ==
  \A r \in DOMAIN store : /\ IsPilotRecord(store[r]) /\ Trail(store[r])
                          /\ pilot = "banking" => RiskCounts(store[r])

(* An entry goes to the end of a log, or nothing does and the log is cut.  *)
LEMMA LogGrows ==
  ASSUME NEW c, IsLog(c), NEW type
  PROVE  LET d == AppendEntry(c, Key, type)
             n == Len(c.entries)
         IN /\ IsLog(d) /\ n \in Nat /\ DOMAIN c.entries = 1..n
            /\ \/ d.truncated /\ d.entries = c.entries
               \/ /\ ~c.truncated /\ ~d.truncated
                  /\ DOMAIN d.entries = 1..(n + 1) /\ d.entries[n + 1].type = type
                  /\ \A i \in 1..n : d.entries[i] = c.entries[i]
<1> DEFINE d == AppendEntry(c, Key, type)
           n == Len(c.entries)
           e == Entry(Key, n, type, c.prevHash)
           cut == [c EXCEPT !.truncated = TRUE]
           longer == [c EXCEPT !.entries = Append(@, e), !.prevHash = e.sig]
<1>1. PICK S : c.entries \in Seq(S)
  BY DEF IsLog
<1>2. /\ c \in [prevHash : {c.prevHash}, entries : {c.entries}, truncated : BOOLEAN]
      /\ n \in Nat /\ ChainCap \in Nat /\ DOMAIN c.entries = 1..n
  BY <1>1, ChainCapAssumption DEF IsLog
<1>3. d = IF c.truncated THEN c ELSE IF n >= ChainCap THEN cut ELSE longer
  BY DEF AppendEntry
<1>4. CASE c.truncated
  BY <1>2, <1>3, <1>4
<1>5. CASE ~c.truncated /\ n >= ChainCap
  <2>1. /\ cut.prevHash = c.prevHash /\ cut.entries = c.entries /\ cut.truncated
        /\ cut \in [prevHash : {c.prevHash}, entries : {c.entries}, truncated : BOOLEAN]
    BY <1>2
  <2> HIDE DEF cut
  <2> QED
    BY <1>1, <1>2, <1>3, <1>5, <2>1 DEF IsLog
<1>6. CASE ~c.truncated /\ ~(n >= ChainCap)
  <2> DEFINE es == Append(c.entries, e)
             T == S \cup {e}
  <2>1. /\ longer.prevHash = e.sig /\ longer.entries = es
        /\ longer.truncated = c.truncated
        /\ longer \in [prevHash : {e.sig}, entries : {es}, truncated : BOOLEAN]
    BY <1>2
  <2>2. e.type = type
    BY DEF Entry
  <2> HIDE DEF e, longer
  <2>3. c.entries \in Seq(T) /\ e \in T
    BY <1>1
  <2> HIDE DEF T
  <2>4. /\ es \in Seq(T) /\ DOMAIN es = 1..(n + 1) /\ es[n + 1] = e
        /\ \A i \in 1..n : es[i] = c.entries[i]
    BY <2>3
  <2> HIDE DEF es, n
  <2>5. d = longer
    BY <1>3, <1>6
  <2>6. IsLog(d)
    BY <1>2, <1>6, <2>1, <2>4, <2>5 DEF IsLog
  <2>7. /\ ~d.truncated /\ DOMAIN d.entries = 1..(n + 1) /\ d.entries[n + 1].type = type
        /\ \A i \in 1..n : d.entries[i] = c.entries[i]
    BY <1>6, <2>1, <2>2, <2>4, <2>5
  <2> QED
    BY <1>2, <1>6, <2>6, <2>7 DEF n
<1> QED
  BY <1>4, <1>5, <1>6

(* A submission is logged once, before any withdrawal; a withdrawal once;  *)
(* and reports, explanations and refusals before it.                       *)
LEMMA TrailGrows ==
  ASSUME NEW x, IsLog(x.chain), Trail(x), NEW y, NEW type,
         y.chain = AppendEntry(x.chain, Key, type),
         x.submitted \in BOOLEAN, x.withdrawn \in BOOLEAN,
         \/ /\ type = "submitted" /\ ~x.submitted /\ ~x.withdrawn
            /\ y.submitted /\ ~y.withdrawn
         \/ /\ type = "withdrawn" /\ ~x.withdrawn
            /\ y.withdrawn /\ y.submitted = x.submitted
         \/ /\ type \notin {"submitted", "withdrawn"}
            /\ type \in {"report", "explained", "rejected"} => ~x.withdrawn
            /\ y.withdrawn = x.withdrawn /\ y.submitted = x.submitted
  PROVE  Trail(y) /\ IsLog(y.chain)
<1> DEFINE n == Len(x.chain.entries)
<1>1. /\ IsLog(y.chain) /\ n \in Nat /\ DOMAIN x.chain.entries = 1..n
      /\ \/ y.chain.truncated /\ y.chain.entries = x.chain.entries
         \/ /\ ~x.chain.truncated /\ ~y.chain.truncated
            /\ DOMAIN y.chain.entries = 1..(n + 1) /\ y.chain.entries[n + 1].type = type
            /\ \A i \in 1..n : y.chain.entries[i] = x.chain.entries[i]
  BY LogGrows
<1> HIDE DEF n
<1>2. \A t : At(x, t) \subseteq 1..n
  BY <1>1 DEF At
<1>3. CASE y.chain.truncated /\ y.chain.entries = x.chain.entries
  <2>1. \A t : At(y, t) = At(x, t)
    BY <1>3 DEF At
  <2> QED
    BY <1>1, <1>3, <2>1 DEF Trail, Before
<1>4. CASE /\ ~x.chain.truncated /\ ~y.chain.truncated
           /\ DOMAIN y.chain.entries = 1..(n + 1) /\ y.chain.entries[n + 1].type = type
           /\ \A i \in 1..n : y.chain.entries[i] = x.chain.entries[i]
  <2>1. ASSUME NEW t
        PROVE  At(y, t) = At(x, t) \cup (IF t = type THEN {n + 1} ELSE {})
    <3>1. At(x, t) = {i \in 1..n : x.chain.entries[i].type = t}
      BY <1>1 DEF At
    <3>2. At(y, t) = {i \in 1..(n + 1) : y.chain.entries[i].type = t}
      BY <1>4 DEF At
    <3>3. 1..(n + 1) = 1..n \cup {n + 1} /\ n + 1 \notin 1..n
      BY <1>1
    <3> QED
      BY <1>4, <3>1, <3>2, <3>3
  <2>2. ~x.withdrawn => At(x, "withdrawn") = {}
    BY DEF Trail
  <2>3. ~x.submitted => At(x, "submitted") = {}
    BY DEF Trail
  <2>4. \A i \in 1..n : i < n + 1
    BY <1>1
  <2>5. CASE type = "submitted"
    <3>1. /\ At(y, "submitted") = {n + 1} /\ At(y, "withdrawn") = {}
          /\ y.submitted /\ ~y.withdrawn
      BY <2>1, <2>2, <2>3, <2>5
    <3> QED
      BY <1>1, <3>1 DEF Trail, Before
  <2>6. CASE type = "withdrawn"
    <3>1. /\ At(y, "withdrawn") = {n + 1} /\ y.withdrawn /\ y.submitted = x.submitted
          /\ \A t : t # "withdrawn" => At(y, t) = At(x, t)
      BY <2>1, <2>2, <2>6
    <3> QED
      BY <1>1, <1>2, <1>4, <2>4, <3>1 DEF Trail, Before
  <2>7. CASE type \notin {"submitted", "withdrawn"}
    <3>1. /\ At(y, "withdrawn") = At(x, "withdrawn") /\ At(y, "submitted") = At(x, "submitted")
          /\ y.withdrawn = x.withdrawn /\ y.submitted = x.submitted
      BY <2>1, <2>7
    <3>2. \A t \in {"submitted", "report", "explained", "rejected"} :
            t # type => At(y, t) = At(x, t)
      BY <2>1
    <3>3. type \in {"report", "explained", "rejected"} => At(y, "withdrawn") = {}
      BY <2>2, <2>7, <3>1
    <3> QED
      BY <1>1, <1>4, <3>1, <3>2, <3>3 DEF Trail, Before
  <2> QED
    BY <2>5, <2>6, <2>7
<1> QED
  BY <1>1, <1>3, <1>4

(* Who sent a forbidden field scores 35 points on top of the scenario's.   *)
LEMMA AttemptIsSeen ==
  ASSUME NEW s, NEW attempted \in BOOLEAN
  PROVE  LET risk == ScoreBankingRisk(s, attempted)
         IN /\ risk.attempted = attempted
            /\ attempted => risk.verdict # "safe"
<1>1. BasePoints(s) \in Nat /\ BasePoints(s) >= 10
  BY DEF BasePoints
<1>2. LET sum == BasePoints(s) + (IF s.prompted THEN 5 ELSE 0) + (IF attempted THEN 35 ELSE 0)
          score == IF sum > 100 THEN 100 ELSE sum
      IN attempted => score >= 30
  BY <1>1
<1> QED
  BY <1>2 DEF ScoreBankingRisk

-----------------------------------------------------------------------------
LEMMA PilotStep == PilotInv /\ [PilotNext]_pilotVars => PilotInv'
<1> SUFFICES ASSUME PilotInv, [PilotNext]_pilotVars PROVE PilotInv'
  OBVIOUS
<1>1. ASSUME NEW r, r \in DOMAIN store, NEW y, Rewrite(r, y),
             IsPilotRecord(y), Trail(y), pilot = "banking" => RiskCounts(y)
      PROVE  PilotInv'
  BY <1>1 DEF Rewrite, PilotInv
(* A request that only logs something.                                     *)
<1>2. ASSUME NEW r, r \in DOMAIN store, NEW type,
             type \notin {"submitted", "withdrawn"},
             type \in {"report", "explained", "rejected"} => ~store[r].withdrawn,
             Rewrite(r, Log(store[r], type))
      PROVE  PilotInv'
  <2> DEFINE x == store[r]
             y == Log(x, type)
  <2>1. IsPilotRecord(x) /\ Trail(x) /\ (pilot = "banking" => RiskCounts(x))
    BY <1>2 DEF PilotInv
  <2>2. x \in [withdrawn : BOOLEAN, submitted : BOOLEAN, forbidden : {0, 1},
               risk : {x.risk}, expired : BOOLEAN, chain : {x.chain}]
    BY <2>1 DEF IsPilotRecord
  <2> HIDE DEF x
  <2>3. /\ y.chain = AppendEntry(x.chain, Key, type)
        /\ y.withdrawn = x.withdrawn /\ y.submitted = x.submitted
        /\ y.risk = x.risk /\ y.forbidden = x.forbidden
        /\ y \in [withdrawn : BOOLEAN, submitted : BOOLEAN, forbidden : {0, 1},
                  risk : {y.risk}, expired : BOOLEAN, chain : {y.chain}]
    BY <2>2 DEF Log
  <2> HIDE DEF y
  <2>4. Trail(y) /\ IsLog(y.chain)
    BY <1>2, <2>1, <2>2, <2>3, TrailGrows DEF IsPilotRecord, x
  <2>5. IsPilotRecord(y) /\ (pilot = "banking" => RiskCounts(y))
    BY <2>1, <2>3, <2>4 DEF IsPilotRecord, RiskCounts
  <2> QED
    BY <1>1, <1>2, <2>4, <2>5 DEF x, y
<1>3. ASSUME NEW r, Accept(r) PROVE PilotInv'
  <2> DEFINE a == [withdrawn |-> FALSE, submitted |-> FALSE, forbidden |-> 0,
                   risk |-> NoRisk, expired |-> FALSE, chain |-> NewChain]
             b == Log(a, "consent")
             y == Log(b, "started")
  <2>1. /\ IsLog(NewChain) /\ NewChain.entries = <<>> /\ ~NewChain.truncated
    <3>1. <<>> \in Seq({})
      OBVIOUS
    <3> QED
      BY <3>1 DEF NewChain, IsLog
  <2>2. At(a, "submitted") = {} /\ At(a, "withdrawn") = {}
    BY <2>1 DEF At
  <2>3. Trail(a)
    BY <2>2 DEF Trail, Before
  <2>4. /\ a.chain = NewChain /\ ~a.withdrawn /\ ~a.submitted
        /\ a \in [withdrawn : {FALSE}, submitted : {FALSE}, forbidden : {0},
                  risk : {NoRisk}, expired : {FALSE}, chain : {NewChain}]
    OBVIOUS
  <2> HIDE DEF a
  <2>5. /\ b.chain = AppendEntry(a.chain, Key, "consent")
        /\ b.withdrawn = FALSE /\ b.submitted = FALSE
        /\ b \in [withdrawn : {FALSE}, submitted : {FALSE}, forbidden : {0},
                  risk : {NoRisk}, expired : {FALSE}, chain : {b.chain}]
    BY <2>4 DEF Log
  <2> HIDE DEF b
  <2>6. Trail(b) /\ IsLog(b.chain)
    BY <2>1, <2>3, <2>4, <2>5, TrailGrows
  <2>7. /\ y.chain = AppendEntry(b.chain, Key, "started")
        /\ y.withdrawn = FALSE /\ y.submitted = FALSE
        /\ y \in [withdrawn : {FALSE}, submitted : {FALSE}, forbidden : {0},
                  risk : {NoRisk}, expired : {FALSE}, chain : {y.chain}]
    BY <2>5 DEF Log
  <2> HIDE DEF y
  <2>8. Trail(y) /\ IsLog(y.chain)
    BY <2>5, <2>6, <2>7, TrailGrows
  <2>9. IsPilotRecord(y) /\ RiskCounts(y)
    BY <2>7, <2>8 DEF IsPilotRecord, RiskCounts
  <2>10. /\ store' = [x \in DOMAIN store \cup {r} |-> IF x = r THEN y ELSE store[x]]
         /\ pilot' = pilot
    BY <1>3 DEF Accept, NewRecord, a, b, y
  <2> QED
    BY <2>8, <2>9, <2>10 DEF PilotInv
<1>4. ASSUME NEW r, NEW reason, BankingReject(r, reason) \/ (VotingReject(r) /\ reason = "forbidden")
      PROVE  PilotInv'
  <2> DEFINE x == store[r]
             b == [x EXCEPT !.forbidden = IF reason = "forbidden" THEN 1 ELSE @]
             y == Log(b, "rejected")
  <2>1. /\ r \in DOMAIN store /\ ~x.withdrawn /\ Rewrite(r, y)
        /\ pilot = "banking" => ~x.submitted
    BY <1>4 DEF BankingReject, VotingReject, Kept
  <2>2. IsPilotRecord(x) /\ Trail(x)
    BY <2>1 DEF PilotInv
  <2>3. x \in [withdrawn : BOOLEAN, submitted : BOOLEAN, forbidden : {0, 1},
               risk : {x.risk}, expired : BOOLEAN, chain : {x.chain}]
    BY <2>2 DEF IsPilotRecord
  <2> HIDE DEF x
  <2>4. /\ b.chain = x.chain /\ b.withdrawn = x.withdrawn /\ b.submitted = x.submitted
        /\ b \in [withdrawn : BOOLEAN, submitted : BOOLEAN, forbidden : {0, 1},
                  risk : {x.risk}, expired : BOOLEAN, chain : {x.chain}]
    BY <2>3
  <2> HIDE DEF b
  <2>5. /\ y.chain = AppendEntry(x.chain, Key, "rejected")
        /\ y.withdrawn = x.withdrawn /\ y.submitted = x.submitted
        /\ y \in [withdrawn : BOOLEAN, submitted : BOOLEAN, forbidden : {0, 1},
                  risk : {y.risk}, expired : BOOLEAN, chain : {y.chain}]
    BY <2>4 DEF Log
  <2> HIDE DEF y
  <2>6. Trail(y) /\ IsLog(y.chain)
    BY <2>1, <2>2, <2>3, <2>5, TrailGrows DEF IsPilotRecord
  <2>7. IsPilotRecord(y) /\ (pilot = "banking" => RiskCounts(y))
    BY <2>1, <2>5, <2>6 DEF IsPilotRecord, RiskCounts
  <2> QED
    BY <1>1, <2>1, <2>6, <2>7
<1>5. ASSUME NEW r, NEW s, BankingSubmit(r, s) PROVE PilotInv'
  <2> DEFINE x == store[r]
             attempted == x.forbidden > 0
             risk == ScoreBankingRisk(s, attempted)
             b == [x EXCEPT !.submitted = TRUE, !.risk = risk]
             y == Log(b, "submitted")
  <2>1. r \in DOMAIN store /\ ~x.withdrawn /\ ~x.submitted /\ Rewrite(r, y)
    BY <1>5 DEF BankingSubmit, Kept
  <2>2. IsPilotRecord(x) /\ Trail(x)
    BY <2>1 DEF PilotInv
  <2>3. x \in [withdrawn : BOOLEAN, submitted : BOOLEAN, forbidden : {0, 1},
               risk : {x.risk}, expired : BOOLEAN, chain : {x.chain}]
    BY <2>2 DEF IsPilotRecord
  <2> HIDE DEF x
  <2>4. /\ risk.attempted <=> x.forbidden > 0
        /\ x.forbidden > 0 => risk.verdict # "safe"
    <3>1. attempted \in BOOLEAN
      OBVIOUS
    <3> HIDE DEF attempted
    <3>2. risk.attempted = attempted /\ (attempted => risk.verdict # "safe")
      BY <3>1, AttemptIsSeen
    <3> HIDE DEF risk
    <3> QED
      BY <3>2 DEF attempted
  <2> HIDE DEF risk
  <2>5. /\ b.chain = x.chain /\ b.withdrawn = x.withdrawn /\ b.submitted = TRUE
        /\ b.risk = risk /\ b.forbidden = x.forbidden
        /\ b \in [withdrawn : BOOLEAN, submitted : BOOLEAN, forbidden : {0, 1},
                  risk : {risk}, expired : BOOLEAN, chain : {x.chain}]
    BY <2>3
  <2> HIDE DEF b
  <2>6. /\ y.chain = AppendEntry(x.chain, Key, "submitted")
        /\ y.withdrawn = x.withdrawn /\ y.submitted = TRUE
        /\ y.risk = risk /\ y.forbidden = x.forbidden
        /\ y \in [withdrawn : BOOLEAN, submitted : BOOLEAN, forbidden : {0, 1},
                  risk : {y.risk}, expired : BOOLEAN, chain : {y.chain}]
    BY <2>5 DEF Log
  <2> HIDE DEF y
  <2>7. Trail(y) /\ IsLog(y.chain)
    BY <2>1, <2>2, <2>3, <2>6, TrailGrows DEF IsPilotRecord
  <2>8. IsPilotRecord(y) /\ RiskCounts(y)
    BY <2>4, <2>6, <2>7 DEF IsPilotRecord, RiskCounts
  <2> QED
    BY <1>1, <2>1, <2>7, <2>8
<1>6. ASSUME NEW r, VotingSubmit(r) PROVE PilotInv'
  <2> DEFINE x == store[r]
             b == [x EXCEPT !.submitted = TRUE]
             y == Log(b, "submitted")
  <2>1. r \in DOMAIN store /\ ~x.withdrawn /\ ~x.submitted /\ Rewrite(r, y)
        /\ pilot = "voting"
    BY <1>6 DEF VotingSubmit, Kept
  <2>2. IsPilotRecord(x) /\ Trail(x)
    BY <2>1 DEF PilotInv
  <2>3. x \in [withdrawn : BOOLEAN, submitted : BOOLEAN, forbidden : {0, 1},
               risk : {x.risk}, expired : BOOLEAN, chain : {x.chain}]
    BY <2>2 DEF IsPilotRecord
  <2> HIDE DEF x
  <2>4. /\ b.chain = x.chain /\ b.withdrawn = x.withdrawn /\ b.submitted = TRUE
        /\ b \in [withdrawn : BOOLEAN, submitted : BOOLEAN, forbidden : {0, 1},
                  risk : {x.risk}, expired : BOOLEAN, chain : {x.chain}]
    BY <2>3
  <2> HIDE DEF b
  <2>5. /\ y.chain = AppendEntry(x.chain, Key, "submitted")
        /\ y.withdrawn = x.withdrawn /\ y.submitted = TRUE
        /\ y \in [withdrawn : BOOLEAN, submitted : BOOLEAN, forbidden : {0, 1},
                  risk : {y.risk}, expired : BOOLEAN, chain : {y.chain}]
    BY <2>4 DEF Log
  <2> HIDE DEF y
  <2>6. Trail(y) /\ IsLog(y.chain)
    BY <2>1, <2>2, <2>3, <2>5, TrailGrows DEF IsPilotRecord
  <2>7. IsPilotRecord(y)
    BY <2>5, <2>6 DEF IsPilotRecord
  <2> QED
    BY <1>1, <2>1, <2>6, <2>7
<1>7. ASSUME NEW r, Withdraw(r) PROVE PilotInv'
  <2> DEFINE x == store[r]
             b == Log(x, "withdrawn")
             y == [b EXCEPT !.withdrawn = TRUE]
  <2>1. r \in DOMAIN store /\ ~x.withdrawn /\ Rewrite(r, y)
    BY <1>7 DEF Withdraw, Kept
  <2>2. IsPilotRecord(x) /\ Trail(x) /\ (pilot = "banking" => RiskCounts(x))
    BY <2>1 DEF PilotInv
  <2>3. x \in [withdrawn : BOOLEAN, submitted : BOOLEAN, forbidden : {0, 1},
               risk : {x.risk}, expired : BOOLEAN, chain : {x.chain}]
    BY <2>2 DEF IsPilotRecord
  <2> HIDE DEF x
  <2>4. /\ b.chain = AppendEntry(x.chain, Key, "withdrawn") /\ b.submitted = x.submitted
        /\ b.risk = x.risk /\ b.forbidden = x.forbidden
        /\ b \in [withdrawn : BOOLEAN, submitted : BOOLEAN, forbidden : {0, 1},
                  risk : {x.risk}, expired : BOOLEAN, chain : {b.chain}]
    BY <2>3 DEF Log
  <2> HIDE DEF b
  <2>5. /\ y.chain = AppendEntry(x.chain, Key, "withdrawn")
        /\ y.withdrawn = TRUE /\ y.submitted = x.submitted
        /\ y.risk = x.risk /\ y.forbidden = x.forbidden
        /\ y \in [withdrawn : BOOLEAN, submitted : BOOLEAN, forbidden : {0, 1},
                  risk : {y.risk}, expired : BOOLEAN, chain : {y.chain}]
    BY <2>4
  <2> HIDE DEF y
  <2>6. Trail(y) /\ IsLog(y.chain)
    BY <2>1, <2>2, <2>3, <2>5, TrailGrows DEF IsPilotRecord
  <2>7. IsPilotRecord(y) /\ (pilot = "banking" => RiskCounts(y))
    BY <2>2, <2>5, <2>6 DEF IsPilotRecord, RiskCounts
  <2> QED
    BY <1>1, <2>1, <2>6, <2>7
<1>8. ASSUME NEW r, Report(r) \/ Export(r) \/ Explain(r) PROVE PilotInv'
  <2>1. CASE Report(r)
    BY <1>2, <2>1 DEF Report, Kept
  <2>2. CASE Export(r)
    BY <1>2, <2>2 DEF Export, Kept
  <2>3. CASE Explain(r)
    BY <1>2, <2>3 DEF Explain, Kept
  <2> QED
    BY <1>8, <2>1, <2>2, <2>3
<1>9. ASSUME NEW r, Expire(r) PROVE PilotInv'
  <2> DEFINE x == store[r]
             y == [x EXCEPT !.expired = TRUE]
  <2>1. r \in DOMAIN store /\ Rewrite(r, y)
    BY <1>9 DEF Expire, Kept
  <2>2. IsPilotRecord(x) /\ Trail(x) /\ (pilot = "banking" => RiskCounts(x))
    BY <2>1 DEF PilotInv
  <2> HIDE DEF x
  <2>3. /\ y.chain = x.chain /\ y.withdrawn = x.withdrawn /\ y.submitted = x.submitted
        /\ y.risk = x.risk /\ y.forbidden = x.forbidden
        /\ y \in [withdrawn : BOOLEAN, submitted : BOOLEAN, forbidden : {0, 1},
                  risk : {y.risk}, expired : BOOLEAN, chain : {y.chain}]
    BY <2>2 DEF IsPilotRecord
  <2> HIDE DEF y
  <2>4. /\ IsPilotRecord(y) /\ (pilot = "banking" => RiskCounts(y))
        /\ \A t : At(y, t) = At(x, t)
    BY <2>2, <2>3 DEF IsPilotRecord, RiskCounts, At
  <2>5. Trail(y)
    BY <2>2, <2>3, <2>4 DEF Trail, Before
  <2> QED
    BY <1>1, <2>1, <2>4, <2>5
<1>10. CASE UNCHANGED pilotVars
  BY <1>10 DEF pilotVars, PilotInv
<1>11. CASE PilotNext
  <2>1. ASSUME NEW r \in Records, VotingReject(r) PROVE PilotInv'
    BY <1>4, <2>1
  <2> QED
    BY <1>11, <1>3, <1>4, <1>5, <1>6, <1>7, <1>8, <1>9, <2>1 DEF PilotNext
<1> QED
  BY <1>10, <1>11

(* The invariant of the pilots holds in every state of either.             *)
THEOREM PilotInvariance == PilotSpec => []PilotInv
<1>1. PilotInit => PilotInv
  BY DEF PilotInit, PilotInv
<1> QED
  BY <1>1, PilotStep, PTL DEF PilotSpec

(* A pilot's log tells each submission and withdrawal once and in that     *)
(* order, nothing is reported after a withdrawal, and whoever sent a       *)
(* forbidden field is not called safe.                                     *)
THEOREM PilotsAlwaysTell == PilotSpec => []PilotsTellAll
<1>1. ASSUME NEW S, NEW T, S \subseteq T, IsFiniteSet(T), \A i, j \in S : i = j
      PROVE  Cardinality(S) <= 1
  <2>1. CASE S = {}
    BY <2>1, FS_EmptySet
  <2>2. CASE S # {}
    <3>1. PICK i : S = {i}
      BY <2>2, <1>1
    <3>2. Cardinality({i}) = 1
      BY FS_Singleton
    <3> QED
      BY <3>1, <3>2
  <2> QED
    BY <2>1, <2>2
<1>2. ASSUME NEW x, IsPilotRecord(x), NEW t
      PROVE  \E n \in Nat : At(x, t) \subseteq 1..n
  <2>1. PICK T : x.chain.entries \in Seq(T)
    BY <1>2 DEF IsPilotRecord, IsLog
  <2>2. /\ Len(x.chain.entries) \in Nat
        /\ DOMAIN x.chain.entries = 1..Len(x.chain.entries)
    BY <2>1
  <2> QED
    BY <2>2 DEF At
<1>3. ASSUME PilotInv, NEW r \in DOMAIN store
      PROVE  /\ Cardinality(At(store[r], "submitted")) <= 1
             /\ Cardinality(At(store[r], "withdrawn")) <= 1
  BY <1>1, <1>2, <1>3, FS_Interval DEF PilotInv, Trail
<1>4. PilotInv => TrailTellsRecord
  BY <1>3 DEF PilotInv, Trail, TrailTellsRecord
<1>5. PilotInv => RiskCountsRejections
  BY DEF PilotInv, RiskCounts, RiskCountsRejections
<1> QED
  BY <1>4, <1>5, PilotInvariance, PTL DEF PilotsTellAll
=============================================================================
