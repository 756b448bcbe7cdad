------------------------ MODULE HistoryVerdictProofs ------------------------
(***************************************************************************)
(* What the evaluator of stage 5S promises, for every bundle that can be   *)
(* parsed and everything that may be submitted to it or committed: a       *)
(* quorum is earned, no bound statement silences the comparison, an        *)
(* accusation is founded, and it stands as the record grows.               *)
(*                                                                         *)
(* The evaluator keeps nothing, so the invariant is small; the arguments   *)
(* are about its operators.  The walk of ancestry.mjs is recursive: that   *)
(* its defining equation has a solution is proved first, and what it finds *)
(* is then proved with sets that are closed under it or with a least       *)
(* counterexample.                                                         *)
(***************************************************************************)
EXTENDS HistoryVerdict, FiniteSetTheorems, WellFoundedInduction, TLAPS

(* A set of natural numbers that is not empty has a least member.          *)
LEMMA LeastMember ==
  ASSUME NEW S \in SUBSET Nat, S # {}
  PROVE  Min(S) \in S /\ \A j \in S : Min(S) <= j
<1> DEFINE Below == OpToRel(<, Nat)
<1>1. IsWellFoundedOn(Below, Nat)
  BY NatLessThanWellFounded
<1>2. \E i \in S : \A j \in S : ~(<<j, i>> \in Below)
  BY <1>1, WFMin
<1>3. \A i, j \in Nat : ~(<<j, i>> \in Below) => i <= j
  BY DEF OpToRel
<1>4. \E i \in S : \A j \in S : i <= j
  BY <1>2, <1>3
<1> QED
  BY <1>4 DEF Min

(* A lane that is clear asked all its questions, and none found anything.  *)
LEMMA FirstGroupClear ==
  ASSUME NEW n \in Nat, NEW groups, DOMAIN groups = 1 .. n,
         \A i \in 1 .. n : groups[i][1] # Clear,
         FirstGroup(groups) = Clear
  PROVE  \A i \in 1 .. n : ~groups[i][2]
<1> DEFINE found == {i \in DOMAIN groups : groups[i][2]}
<1>1. SUFFICES ASSUME found # {} PROVE FALSE
  OBVIOUS
<1>2. Min(found) \in found
  BY <1>1, LeastMember
<1> QED
  BY <1>1, <1>2 DEF FirstGroup

(* What a clear tally says of each statement and of them all.              *)
LEMMA ClearTally ==
  ASSUME NEW cp, NEW policy, NEW statements, NEW producerKey,
         Tally(cp, policy, statements, producerKey).refusal = Clear
  PROVE  /\ \A i \in DOMAIN statements :
              LET s == statements[i] IN
              /\ s.id # Absent /\ s.key # Absent /\ s.verified
              /\ Holds(policy.roster, s.id)
              /\ ~Foreign(policy.roster, s)
              /\ s.id # Content[cp.body].producer
              /\ producerKey # Absent => s.key # producerKey
              /\ s.epoch = Content[cp.body].epoch
              /\ s.scope = Content[cp.body].scope
         /\ ~KeySharedByTwo(statements)
         /\ ~Twice(statements, "id")
         /\ ~(Cardinality(Names(statements)) < policy.threshold)
<1> DEFINE groups == WitnessGroups(cp, policy.roster, statements, producerKey)
<1>1. FirstGroup(groups) = Clear
  BY DEF Tally
<1>2. ~FallsShort(Names(statements), policy)
  BY DEF Tally, Clear
<1>3. \A i \in 1 .. 8 : ~groups[i][2]
  <2>1. DOMAIN groups = 1 .. 8
    BY DEF WitnessGroups
  <2>2. \A i \in 1 .. 8 : groups[i][1] # Clear
    BY DEF Clear, WitnessGroups
  <2> HIDE DEF groups
  <2> QED
    BY <1>1, <2>1, <2>2, FirstGroupClear
<1>4. /\ ~groups[1][2] /\ ~groups[2][2] /\ ~groups[3][2] /\ ~groups[4][2]
      /\ ~groups[5][2] /\ ~groups[6][2] /\ ~groups[7][2] /\ ~groups[8][2]
  BY <1>3
<1>5. /\ ~KeySharedByTwo(statements) /\ ~Twice(statements, "id")
  BY <1>4 DEF WitnessGroups
<1>6. ASSUME NEW i \in DOMAIN statements
      PROVE  LET s == statements[i] IN
             /\ s.id # Absent /\ s.key # Absent /\ s.verified
             /\ Holds(policy.roster, s.id)
             /\ ~Foreign(policy.roster, s)
             /\ s.id # Content[cp.body].producer
             /\ producerKey # Absent => s.key # producerKey
             /\ s.epoch = Content[cp.body].epoch
             /\ s.scope = Content[cp.body].scope
  BY <1>4, <1>6 DEF WitnessGroups
<1> QED
  BY <1>2, <1>5, <1>6 DEF FallsShort

(* A name that holds a seat and signs under no foreign key signs under the *)
(* key of its own and only seat.                                           *)
LEMMA OneSeatEach ==
  ASSUME NEW roster, IsList(roster), ~RosterMalformed(roster),
         NEW s, Holds(roster, s.id), ~Foreign(roster, s)
  PROVE  \E j \in DOMAIN roster : roster[j].id = s.id /\ roster[j].key = s.key
<1>1. Seats(roster, s.id) \in SUBSET Nat
  BY DEF IsList, Seats
<1>2. PICK i \in DOMAIN roster : roster[i].id = s.id
  BY DEF Holds, Seats
<1>3. Seats(roster, s.id) = {i}
  BY <1>2 DEF RosterMalformed, Twice, Seats
<1>4. Max({i}) = i
  BY <1>1, <1>3 DEF Max
<1> QED
  BY <1>2, <1>3, <1>4 DEF Foreign, SeatOf

(* Seats of distinct names have distinct keys, so that those who are       *)
(* counted signed under as many keys.                                      *)
KeysIn(list) == {list[i].key : i \in DOMAIN list}

LEMMA KeysAreAsMany ==
  ASSUME NEW roster, ~RosterMalformed(roster),
         NEW statements, IsList(statements),
         \A i \in DOMAIN statements :
             \E j \in DOMAIN roster : /\ roster[j].id = statements[i].id
                                     /\ roster[j].key = statements[i].key
  PROVE  /\ IsFiniteSet(Names(statements)) /\ IsFiniteSet(KeysIn(statements))
         /\ Cardinality(Names(statements)) = Cardinality(KeysIn(statements))
<1> DEFINE ids == {statements[i].id : i \in DOMAIN statements}
           keys == {statements[i].key : i \in DOMAIN statements}
           idOf == [i \in DOMAIN statements |-> statements[i].id]
           pick == [id \in ids |->
                       CHOOSE i \in DOMAIN statements : statements[i].id = id]
           keyOf == [id \in ids |-> statements[pick[id]].key]
<1>1. \A i, j \in DOMAIN statements :
         statements[i].id = statements[j].id <=> statements[i].key = statements[j].key
  BY DEF RosterMalformed, Twice
<1>2. IsFiniteSet(DOMAIN statements)
  <2>1. DOMAIN statements = 1 .. Len(statements) /\ Len(statements) \in Nat
    BY DEF IsList
  <2> QED
    BY <2>1, FS_Interval
<1>3. IsFiniteSet(ids)
  <2>1. idOf \in Surjection(DOMAIN statements, ids)
    BY DEF Surjection
  <2> HIDE DEF ids, idOf
  <2> QED
    BY <1>2, <2>1, FS_Surjection
<1>4. ASSUME NEW id \in ids
      PROVE  pick[id] \in DOMAIN statements /\ statements[pick[id]].id = id
  <2>1. \E i \in DOMAIN statements : statements[i].id = id
    OBVIOUS
  <2>2. pick[id] = CHOOSE i \in DOMAIN statements : statements[i].id = id
    OBVIOUS
  <2> QED
    BY <2>1, <2>2
<1>5. \A i \in DOMAIN statements : keyOf[statements[i].id] = statements[i].key
  BY <1>1, <1>4
<1>6. keyOf \in Bijection(ids, keys)
  <2>1. keyOf \in [ids -> keys]
    <3>1. \A id \in ids : statements[pick[id]].key \in keys
      BY <1>4
    <3> HIDE DEF ids, keys, pick
    <3> QED
      BY <3>1
  <2>2. ASSUME NEW a \in ids, NEW b \in ids, keyOf[a] = keyOf[b] PROVE a = b
    <3>1. /\ pick[a] \in DOMAIN statements /\ statements[pick[a]].id = a
          /\ pick[b] \in DOMAIN statements /\ statements[pick[b]].id = b
      BY <1>4
    <3>2. statements[pick[a]].key = statements[pick[b]].key
      BY <2>2
    <3> HIDE DEF pick, keyOf, ids, keys
    <3> QED
      BY <1>1, <3>1, <3>2
  <2>3. ASSUME NEW k \in keys PROVE \E id \in ids : keyOf[id] = k
    <3>1. PICK i \in DOMAIN statements : statements[i].key = k
      OBVIOUS
    <3>2. statements[i].id \in ids
      OBVIOUS
    <3> HIDE DEF ids, keys, keyOf
    <3> QED
      BY <1>5, <3>1, <3>2
  <2> HIDE DEF ids, keys, keyOf
  <2> QED
    BY <2>1, <2>2, <2>3 DEF Bijection, Injection, IsInjective, Surjection
<1> HIDE DEF ids, keys, keyOf
<1>7. IsFiniteSet(keys) /\ Cardinality(keys) = Cardinality(ids)
  BY <1>3, <1>6, FS_Bijection DEF ExistsBijection
<1> QED
  BY <1>3, <1>7 DEF ids, keys, Names, KeysIn

(* A quorum is reported only under a valid policy and of a clear tally.    *)
LEMMA QuorumCounted ==
  ASSUME NEW b, IsBundle(b), NEW v \in {1, 2},
         Evaluate(b).quorum[v] = "witnessed_quorum"
  PROVE  /\ ~WitnessPolicyMalformed(b.policy)
         /\ TallyOf(b, v).refusal = Clear
<1>1. QuorumStatusOf(TallyOf(b, v)) = "witnessed_quorum" /\ WitnessPolicyFailures(b) = {}
  BY DEF Evaluate, IsBundle, Views
<1>2. TallyOf(b, v).refusal = Clear
  BY <1>1 DEF QuorumStatusOf
<1>3. ~WitnessPolicyMalformed(b.policy)
  BY <1>1 DEF WitnessPolicyFailures
<1> QED
  BY <1>2, <1>3

(* So a reported quorum has as many keys behind it as the policy asks.     *)
LEMMA QuorumsAreEarned ==
  ASSUME NEW b, IsBundle(b), NEW v \in {1, 2},
         Evaluate(b).quorum[v] = "witnessed_quorum"
  PROVE  Earned(b, v)
<1> DEFINE roster == b.policy.roster
           statements == b.views[v].statements
           cp == b.views[v].cp
           ids == Names(statements)
           keys == KeysIn(statements)
<1>1. /\ IsList(roster) /\ IsList(statements)
      /\ ~RosterMalformed(roster) /\ b.policy.threshold \in Nat
      /\ Tally(cp, b.policy, statements, b.keyDigest).refusal = Clear
  <2>1. ~WitnessPolicyMalformed(b.policy) /\ TallyOf(b, v).refusal = Clear
    BY QuorumCounted
  <2> QED
    BY <2>1 DEF WitnessPolicyMalformed, TallyOf, IsBundle, IsView
<1>2. /\ \A i \in DOMAIN statements :
              LET s == statements[i] IN
              /\ s.id # Absent /\ s.key # Absent /\ s.verified
              /\ Holds(roster, s.id)
              /\ ~Foreign(roster, s)
              /\ s.id # Content[cp.body].producer
              /\ b.keyDigest # Absent => s.key # b.keyDigest
              /\ s.epoch = Content[cp.body].epoch
              /\ s.scope = Content[cp.body].scope
      /\ ~(Cardinality(ids) < b.policy.threshold)
  <2> HIDE DEF roster, statements, cp
  <2> QED
    BY <1>1, ClearTally DEF roster
<1> HIDE DEF roster, statements, cp
<1>3. \A i \in DOMAIN statements :
         \E j \in DOMAIN roster : roster[j].id = statements[i].id /\ roster[j].key = statements[i].key
  BY <1>1, <1>2, OneSeatEach
<1>4. IsFiniteSet(ids) /\ Cardinality(ids) = Cardinality(keys)
  BY <1>1, <1>3, KeysAreAsMany
<1>5. Cardinality(keys) >= b.policy.threshold
  <2>1. Cardinality(ids) \in Nat
    BY <1>4, FS_CardinalityType
  <2>2. ~(Cardinality(ids) < b.policy.threshold)
    BY <1>2
  <2> HIDE DEF ids, keys
  <2> QED
    BY <1>1, <1>4, <2>1, <2>2
<1>6. \A i \in DOMAIN statements : statements[i].key # b.keyDigest
  BY <1>2
<1> DEFINE body == Content[cp.body]
           good == {i \in DOMAIN statements :
               /\ statements[i].verified /\ statements[i].epoch = body.epoch
               /\ statements[i].scope = body.scope
               /\ statements[i].id # body.producer /\ statements[i].key # b.keyDigest
               /\ \E j \in DOMAIN roster : /\ roster[j].id = statements[i].id
                                         /\ roster[j].key = statements[i].key}
<1>7. good = DOMAIN statements
  BY <1>2, <1>3, <1>6
<1>8. Cardinality({statements[i].key : i \in good}) >= b.policy.threshold
  <2>1. {statements[i].key : i \in good} = keys
    BY <1>7 DEF KeysIn
  <2> QED
    BY <1>5, <2>1
<1> QED
  BY <1>8 DEF Earned, roster, statements, cp

-----------------------------------------------------------------------------
(* The inductive invariant: the bundle stays of its shape, and the verdict *)
(* is of the bundle as it is now.                                          *)
HistoryInv == IsBundle(bundle) /\ verdict = Evaluate(bundle)

(* A list that grew by one is a list.                                      *)
LEMMA AppendIsList ==
  ASSUME NEW list, IsList(list), NEW e
  PROVE  /\ IsList(Append(list, e))
         /\ DOMAIN Append(list, e) = DOMAIN list \cup {Len(list) + 1}
         /\ \A i \in DOMAIN list : Append(list, e)[i] = list[i]
         /\ Append(list, e)[Len(list) + 1] = e
<1> DEFINE all == {list[i] : i \in DOMAIN list} \cup {e}
           longer == Append(list, e)
<1>1. list \in Seq(all) /\ e \in all
  <2>1. list \in Seq({list[i] : i \in DOMAIN list})
    BY DEF IsList
  <2> QED
    BY <2>1
<1>2. /\ longer \in Seq(all)
      /\ DOMAIN longer = DOMAIN list \cup {Len(list) + 1}
      /\ \A i \in DOMAIN list : longer[i] = list[i]
      /\ longer[Len(list) + 1] = e
  <2> HIDE DEF all
  <2> QED
    BY <1>1
<1>3. {longer[i] : i \in DOMAIN longer} = all
  BY <1>2
<1> QED
  BY <1>2, <1>3 DEF IsList

(* One step for each thing that may happen to a bundle.                    *)
LEMMA StepKeepsBundle ==
  ASSUME HistoryInv, [HistoryNext]_historyVars
  PROVE  HistoryInv'
<1> USE DEF HistoryInv
<1>1. ASSUME NEW v \in Views(bundle), NEW s, SubmitStatement(v, s) PROVE HistoryInv'
  <2>1. IsView([bundle.views[v] EXCEPT !.statements = Append(@, s)])
    BY AppendIsList DEF IsBundle, IsView, Views
  <2> QED
    BY <1>1, <2>1 DEF SubmitStatement, Submit, Rejudge, IsBundle, Views
<1>2. ASSUME NEW v \in Views(bundle), NEW r, SubmitReceipt(v, r) PROVE HistoryInv'
  <2>1. IsView([bundle.views[v] EXCEPT !.carried = Append(@, r)])
    BY AppendIsList DEF IsBundle, IsView, Views
  <2> QED
    BY <1>2, <2>1 DEF SubmitReceipt, Submit, Rejudge, IsBundle, Views
<1>3. ASSUME NEW s, SubmitAbsence(s) PROVE HistoryInv'
  <2>1. IsList(Append(bundle.absences, s))
    BY AppendIsList DEF IsBundle
  <2> QED
    BY <1>3, <2>1 DEF SubmitAbsence, Submit, Rejudge, IsBundle
<1>4. ASSUME NEW r \in bundle.late, CommitRecord(r) PROVE HistoryInv'
  <2>1. IsFiniteSet(bundle.chain \cup {r})
    BY FS_AddElement DEF IsBundle
  <2> QED
    BY <1>4, <2>1 DEF CommitRecord, Rejudge, IsBundle
<1>5. CASE Publish
  BY <1>5 DEF Publish, Rejudge
<1>6. CASE UNCHANGED historyVars
  BY <1>6 DEF historyVars
<1> QED
  BY <1>1, <1>2, <1>3, <1>4, <1>5, <1>6 DEF HistoryNext

(* The invariant holds always: verify.mjs is a function of the bundle.     *)
THEOREM HistoryInvariance == HistorySpec => []HistoryInv
<1>1. HistoryInit => HistoryInv
  BY BundlesAreParsed DEF HistoryInit, HistoryInv
<1>2. HistoryInv /\ [HistoryNext]_historyVars => HistoryInv'
  BY StepKeepsBundle
<1> QED
  BY <1>1, <1>2, PTL DEF HistorySpec

(* A reported quorum is always earned: quorum.mjs counts verified          *)
(* statements under distinct keys of the roster, whatever was submitted.   *)
THEOREM QuorumAlwaysEarned == HistorySpec => []QuorumIsEarned
<1>1. HistoryInv => QuorumIsEarned
  BY QuorumsAreEarned DEF HistoryInv, QuorumIsEarned, Views, IsBundle
<1> QED
  BY <1>1, HistoryInvariance, PTL

-----------------------------------------------------------------------------
(* No statement that is bound to its checkpoint is read by the comparison. *)
LEMMA ComparisonReads ==
  ASSUME NEW b, NEW c, IsBundle(b), IsBundle(c),
         \A f \in {"protocol", "roots", "key", "comparison", "absences",
                   "manifest", "chain", "rules", "structural"} : c[f] = b[f],
         \A v \in {1, 2} : /\ c.views[v].cp = b.views[v].cp
                           /\ c.views[v].carried = b.views[v].carried
                           /\ BoundElsewhere(c.views[v]) = BoundElsewhere(b.views[v])
  PROVE  /\ Evaluate(c).comparison = Evaluate(b).comparison
         /\ (Evaluate(c).artifact = NoArtifact) = (Evaluate(b).artifact = NoArtifact)
<1>1. \A v \in {1, 2} : CheckpointFailures(c, v) = CheckpointFailures(b, v)
  <2> TAKE v \in {1, 2}
  <2>1. /\ c.protocol = b.protocol /\ c.roots = b.roots /\ c.key = b.key
        /\ c.structural = b.structural
    OBVIOUS
  <2>2. /\ c.views[v].cp = b.views[v].cp
        /\ BoundElsewhere(c.views[v]) = BoundElsewhere(b.views[v])
    OBVIOUS
  <2> QED
    BY <2>1, <2>2 DEF CheckpointFailures
<1>2. IntakeOf(c) = IntakeOf(b) /\ RelationOf(c) = RelationOf(b)
  BY DEF IntakeOf, ReceiptsOf, RelationOf
<1>3. Views(c) = {1, 2} /\ Views(b) = {1, 2}
  BY DEF IsBundle, Views
<1>4. UNION {CheckpointFailures(c, v) : v \in {1, 2}}
        = UNION {CheckpointFailures(b, v) : v \in {1, 2}}
  BY <1>1
<1> DEFINE clean(x) == UNION {CheckpointFailures(x, v) : v \in {1, 2}} = {}
<1>5. clean(c) <=> clean(b)
  BY <1>4
<1>6. ComparisonLane(c, clean(c)).status = ComparisonLane(b, clean(b)).status
  BY <1>2, <1>5 DEF ComparisonLane
<1>7. \A x : DeriveEquivocationArtifact(x) # NoArtifact
  BY DEF DeriveEquivocationArtifact, NoArtifact
<1> HIDE DEF clean
<1> QED
  BY <1>3, <1>6, <1>7 DEF Evaluate, clean

(* Submitting such a statement changes only what the witness lane reads.   *)
LEMMA BoundSubmission ==
  ASSUME HistoryInv, NEW v \in Views(bundle), NEW s \in Statements(bundle.views[v].cp),
         s.envelope = bundle.views[v].cp, SubmitStatement(v, s)
  PROVE  /\ verdict'.comparison = verdict.comparison
         /\ (verdict'.artifact = NoArtifact) = (verdict.artifact = NoArtifact)
<1> DEFINE b == bundle
           list == b.views[v].statements
           view == [b.views[v] EXCEPT !.statements = Append(list, s)]
           next == [[b EXCEPT !.views = [b.views EXCEPT ![v] = view]] EXCEPT !.left = b.left - 1]
<1>1. bundle' = next
  BY DEF SubmitStatement, Submit
<1>2. IsBundle(b) /\ IsBundle(bundle') /\ v \in {1, 2}
  BY StepKeepsBundle DEF HistoryInv, HistoryNext, IsBundle, Views
<1>3. \A f \in {"protocol", "roots", "key", "comparison", "absences",
                 "manifest", "chain", "rules", "structural"} :
         bundle'[f] = b[f]
  BY <1>1, <1>2 DEF IsBundle
<1>4. ASSUME NEW w \in {1, 2}
      PROVE  /\ bundle'.views[w].cp = b.views[w].cp
             /\ bundle'.views[w].carried = b.views[w].carried
             /\ w # v => bundle'.views[w] = b.views[w]
             /\ w = v => bundle'.views[w].statements = Append(list, s)
  <2>1. bundle'.views = [b.views EXCEPT ![v] = view]
    BY <1>1, <1>2 DEF IsBundle
  <2>2. /\ view.cp = b.views[v].cp /\ view.carried = b.views[v].carried
        /\ view.statements = Append(list, s)
    BY <1>2 DEF IsBundle, IsView
  <2>3. w \in DOMAIN b.views
    BY <1>2 DEF IsBundle
  <2>4. bundle'.views[w] = IF w = v THEN view ELSE b.views[w]
    BY <2>1, <2>3
  <2> HIDE DEF view, b
  <2> QED
    BY <2>2, <2>4
<1>5. EnvelopesOf(Append(list, s)) = EnvelopesOf(list) \cup {b.views[v].cp}
  <2>1. IsList(list)
    BY <1>2 DEF IsBundle, IsView
  <2> HIDE DEF list
  <2> QED
    BY <2>1, AppendIsList DEF EnvelopesOf
<1>6. \A w \in {1, 2} : BoundElsewhere(bundle'.views[w]) = BoundElsewhere(b.views[w])
  BY <1>4, <1>5 DEF BoundElsewhere
<1>7. /\ Evaluate(bundle').comparison = Evaluate(b).comparison
      /\ (Evaluate(bundle').artifact = NoArtifact) = (Evaluate(b).artifact = NoArtifact)
  BY <1>2, <1>3, <1>4, <1>6, ComparisonReads
<1>8. verdict = Evaluate(b) /\ verdict' = Evaluate(bundle')
  BY DEF HistoryInv, SubmitStatement, Submit, Rejudge
<1> QED
  BY <1>7, <1>8

(* A step after which a statement has been appended is its submission.     *)
LEMMA OnlyOneGrows ==
  ASSUME HistoryInv, [HistoryNext]_historyVars,
         NEW v \in Views(bundle), NEW s \in Statements(bundle.views[v].cp),
         bundle'.views[v].statements = Append(bundle.views[v].statements, s)
  PROVE  SubmitStatement(v, s)
<1>1. IsBundle(bundle) /\ v \in {1, 2} /\ IsList(bundle.views[v].statements)
  BY DEF HistoryInv, IsBundle, IsView, Views
<1>2. bundle'.views[v].statements # bundle.views[v].statements
  BY <1>1 DEF IsList
<1>3. ASSUME NEW w \in Views(bundle), NEW t, SubmitStatement(w, t) PROVE SubmitStatement(v, s)
  <2>1. bundle'.views[v].statements = IF w = v THEN Append(bundle.views[v].statements, t)
                                      ELSE bundle.views[v].statements
    BY <1>1, <1>3 DEF SubmitStatement, Submit, IsBundle, IsView
  <2>2. w = v /\ Append(bundle.views[v].statements, t) = Append(bundle.views[v].statements, s)
    BY <1>2, <2>1
  <2>3. t = s
    BY <1>1, <2>2, AppendIsList
  <2> QED
    BY <1>3, <2>2, <2>3
<1>4. ASSUME NEW w \in Views(bundle), NEW r, SubmitReceipt(w, r) PROVE FALSE
  <2>1. bundle'.views[v].statements = bundle.views[v].statements
    BY <1>1, <1>4 DEF SubmitReceipt, Submit, IsBundle, IsView
  <2> QED
    BY <1>2, <2>1
<1>5. ASSUME bundle'.views = bundle.views PROVE FALSE
  BY <1>2, <1>5
<1>6. ASSUME NEW t, SubmitAbsence(t) PROVE FALSE
  BY <1>1, <1>5, <1>6 DEF SubmitAbsence, Submit, IsBundle
<1>7. ASSUME NEW r, CommitRecord(r) PROVE FALSE
  BY <1>1, <1>5, <1>7 DEF CommitRecord, IsBundle
<1>8. CASE Publish
  BY <1>5, <1>8 DEF Publish
<1>9. CASE UNCHANGED historyVars
  BY <1>5, <1>9 DEF historyVars
<1> QED
  BY <1>3, <1>4, <1>6, <1>7, <1>8, <1>9 DEF HistoryNext

(* Nothing a witness submits of a checkpoint changes what the comparison   *)
(* says or whether an artifact is minted (the lanes of verify.mjs).        *)
THEOREM WitnessesStayApart == HistorySpec => WitnessesNeverSilence
<1> DEFINE Silence ==
      (\E v \in Views(bundle) : \E s \in Statements(bundle.views[v].cp) :
            /\ s.envelope = bundle.views[v].cp
            /\ bundle'.views[v].statements = Append(bundle.views[v].statements, s)) =>
        /\ verdict'.comparison = verdict.comparison
        /\ (verdict'.artifact = NoArtifact) = (verdict.artifact = NoArtifact)
<1>1. HistoryInv /\ [HistoryNext]_historyVars => [Silence]_historyVars
  BY OnlyOneGrows, BoundSubmission
<1> QED
  BY <1>1, HistoryInvariance, PTL DEF HistorySpec, WitnessesNeverSilence

-----------------------------------------------------------------------------
(* A function that is defined by a tail recursion exists: at a place where *)
(* it stops its value is given, and at any other it is the value at the    *)
(* next.  The places that end in a value are the least set that has those  *)
(* which stop with it and those whose next it has; no order is needed.     *)
Follows(f, D, stop, value, next) ==
    f = [d \in D |-> IF stop[d] THEN value[d] ELSE f[next[d]]]

LEMMA TailRecursion ==
  ASSUME NEW D, NEW stop, NEW value, NEW next,
         \A d \in D : ~stop[d] => next[d] \in D
  PROVE  \E f : Follows(f, D, stop, value, next)
<1> DEFINE Closed(T, o) ==
             \A d \in D : /\ stop[d] /\ value[d] = o => d \in T
                          /\ ~stop[d] /\ next[d] \in T => d \in T
           Ends(o) == {d \in D : \A T \in SUBSET D : Closed(T, o) => d \in T}
           ends(d) == {o \in {value[e] : e \in D} : d \in Ends(o)}
           f == [d \in D |-> CHOOSE o : o \in ends(d)]
<1>1. ASSUME NEW o PROVE Closed(Ends(o), o) /\ Ends(o) \subseteq D
  OBVIOUS
<1>2. ASSUME NEW o, NEW T \in SUBSET D, Closed(T, o) PROVE Ends(o) \subseteq T
  BY <1>2
<1>3. ASSUME NEW o, NEW d \in Ends(o), Closed(Ends(o) \ {d}, o) PROVE FALSE
  <2>1. Ends(o) \subseteq Ends(o) \ {d}
    <3> HIDE DEF Ends
    <3>1. Ends(o) \ {d} \in SUBSET D
      BY <1>1
    <3> HIDE DEF Closed
    <3> QED
      BY <1>2, <1>3, <3>1
  <2> QED
    BY <2>1
<1> HIDE DEF Ends
<1>4. ASSUME NEW d \in D, stop[d], NEW o PROVE d \in Ends(o) <=> value[d] = o
  <2>1. value[d] = o => d \in Ends(o)
    BY <1>1, <1>4
  <2>2. ASSUME value[d] # o, d \in Ends(o) PROVE FALSE
    <3>1. Closed(Ends(o) \ {d}, o)
      BY <1>1, <1>4, <2>2
    <3> QED
      BY <1>3, <2>2, <3>1
  <2> QED
    BY <2>1, <2>2
<1>5. ASSUME NEW d \in D, ~stop[d], NEW o PROVE d \in Ends(o) <=> next[d] \in Ends(o)
  <2>1. next[d] \in Ends(o) => d \in Ends(o)
    BY <1>1, <1>5
  <2>2. ASSUME next[d] \notin Ends(o), d \in Ends(o) PROVE FALSE
    <3>1. Closed(Ends(o) \ {d}, o)
      BY <1>1, <1>5, <2>2
    <3> QED
      BY <1>3, <2>2, <3>1
  <2> QED
    BY <2>1, <2>2
<1>6. ASSUME NEW d \in D, stop[d] PROVE f[d] = value[d]
  <2>1. ends(d) = {value[d]}
    BY <1>4, <1>6
  <2> QED
    BY <2>1
<1>7. ASSUME NEW d \in D, ~stop[d] PROVE f[d] = f[next[d]]
  <2>1. ends(d) = ends(next[d])
    BY <1>5, <1>7
  <2> QED
    BY <1>7, <2>1
<1>8. f = [d \in D |-> IF stop[d] THEN value[d] ELSE f[next[d]]]
  <2>1. \A d \in D : f[d] = IF stop[d] THEN value[d] ELSE f[next[d]]
    BY <1>6, <1>7
  <2> QED
    BY <2>1
<1> QED
  BY <1>8 DEF Follows

(* Where a walk goes on to, and the verdict it ends in at a place or that   *)
(* it goes on.                                                             *)
Onward(at, chain) == <<RecordOf(chain, at[1]).predecessor, at[2] \cup {at[1]}>>

StepVerdict(at, earlier, chain, rules) ==
    LET current == RecordOf(chain, at[1])
        pred == current.predecessor
        fault == LinkFault(RecordOf(chain, pred), current, rules)
    IN  IF pred = Absent THEN "not_ancestor"
        ELSE IF pred \in at[2] \cup {at[1]} THEN "invalid"
        ELSE IF ~Known(chain, pred) THEN "unprovable"
        ELSE IF fault # "none" THEN fault
        ELSE IF pred = earlier THEN "proven"
        ELSE "goes_on"

(* The walk of proveAncestry is such a function.                           *)
LEMMA WalkEquation ==
  ASSUME NEW earlier, NEW chain, NEW rules,
         \A r \in chain : r.body \in Bodies
  PROVE  LET walk == Walk(earlier, chain, rules)
         IN  \A at \in Places :
               LET step == StepVerdict(at, earlier, chain, rules)
               IN  walk[at] = IF step # "goes_on" THEN step ELSE walk[Onward(at, chain)]
<1> DEFINE step == [at \in Places |-> StepVerdict(at, earlier, chain, rules)]
           stop == [at \in Places |-> step[at] # "goes_on"]
           next == [at \in Places |-> Onward(at, chain)]
<1>1. ASSUME NEW at \in Places, ~stop[at] PROVE next[at] \in Places
  <2>1. Known(chain, RecordOf(chain, at[1]).predecessor)
    BY <1>1 DEF StepVerdict, LinkFault
  <2>2. RecordOf(chain, at[1]).predecessor \in Bodies
    BY <2>1 DEF Known
  <2>3. at[2] \cup {at[1]} \in SUBSET Bodies
    BY DEF Places
  <2>4. Onward(at, chain) \in Places
    BY <2>2, <2>3 DEF Onward, Places
  <2>5. next[at] = Onward(at, chain)
    OBVIOUS
  <2> HIDE DEF next
  <2> QED
    BY <2>4, <2>5
<1>2. PICK f : Follows(f, Places, stop, step, next)
  <2>1. \A at \in Places : ~stop[at] => next[at] \in Places
    BY <1>1
  <2> HIDE DEF step, stop, next
  <2> QED
    BY <2>1, TailRecursion
<1> DEFINE Body(g, at) ==
             LET current == RecordOf(chain, at[1])
                 pred == current.predecessor
                 fault == LinkFault(RecordOf(chain, pred), current, rules)
             IN  IF pred = Absent THEN "not_ancestor"
                 ELSE IF pred \in at[2] \cup {at[1]} THEN "invalid"
                 ELSE IF ~Known(chain, pred) THEN "unprovable"
                 ELSE IF fault # "none" THEN fault
                 ELSE IF pred = earlier THEN "proven"
                 ELSE g[<<pred, at[2] \cup {at[1]}>>]
           Step(g, at) ==
             LET s == StepVerdict(at, earlier, chain, rules)
             IN  IF s # "goes_on" THEN s ELSE g[Onward(at, chain)]
           w == Walk(earlier, chain, rules)
<1>3. ASSUME NEW g, NEW at PROVE Body(g, at) = Step(g, at)
  <2> DEFINE fault == LinkFault(RecordOf(chain, RecordOf(chain, at[1]).predecessor),
                                RecordOf(chain, at[1]), rules)
  <2>1. fault # "goes_on"
    BY DEF LinkFault
  <2> HIDE DEF fault
  <2> QED
    BY <2>1 DEF StepVerdict, Onward, fault
<1>4. f = [at \in Places |-> Body(f, at)]
  <2>1. f = [at \in Places |-> Step(f, at)]
    BY <1>2 DEF Follows
  <2> HIDE DEF Body, Step
  <2> QED
    BY <2>1, <1>3
<1>5. w = [at \in Places |-> Body(w, at)]
  BY <1>4 DEF Walk
<1>6. \A at \in Places : w[at] = Step(w, at)
  <2> HIDE DEF Body, Step, w
  <2> QED
    BY <1>3, <1>5
<1> QED
  BY <1>6

(* A walk that ends at a root never came to the earlier body: those from   *)
(* which it ends there are closed under the lawful links.                  *)
LEMMA RootsAreNotReached ==
  ASSUME NEW earlier \in Bodies, NEW later \in Bodies, NEW chain, NEW rules,
         \A r \in chain : r.body \in Bodies,
         ProveAncestry(earlier, later, chain, rules) = "not_ancestor"
  PROVE  ~Descends(later, earlier, chain, rules)
<1> DEFINE walk == Walk(earlier, chain, rules)
           reached == {x \in Bodies : x # earlier /\ \E been \in SUBSET Bodies :
                          walk[<<x, been>>] = "not_ancestor"}
<1>1. /\ ~IndexConflict(chain) /\ earlier # later
      /\ walk[<<later, {}>>] = "not_ancestor"
  BY DEF ProveAncestry
<1>2. later \in reached /\ earlier \notin reached /\ reached \in SUBSET Bodies
  BY <1>1
<1>3. ASSUME NEW l \in LawfulLinks(chain, rules), l[1] \in reached PROVE l[2] \in reached
  <2>1. PICK r \in chain, s \in chain :
           /\ l[1] = r.body /\ l[2] = s.body /\ r.predecessor = s.body
           /\ LinkFault(s, r, rules) = "none"
    BY DEF LawfulLinks
  <2>2. RecordOf(chain, r.body) = r /\ RecordOf(chain, s.body) = s
    BY <1>1 DEF RecordOf, IndexConflict
  <2>3. PICK been \in SUBSET Bodies : walk[<<r.body, been>>] = "not_ancestor"
    BY <1>3, <2>1
  <2> DEFINE at == <<r.body, been>>
  <2>4. at \in Places /\ Onward(at, chain) = <<s.body, been \cup {r.body}>>
    BY <2>1, <2>2 DEF Places, Onward
  <2>5. s.body # Absent /\ Known(chain, s.body) /\ s.body \in Bodies
    BY <2>1, HistoryAssumption DEF Known
  <2>6. walk[at] = IF StepVerdict(at, earlier, chain, rules) # "goes_on"
                   THEN StepVerdict(at, earlier, chain, rules) ELSE walk[Onward(at, chain)]
    BY <2>4, WalkEquation
  <2>7. StepVerdict(at, earlier, chain, rules) # "not_ancestor"
    BY <2>1, <2>2, <2>5 DEF StepVerdict
  <2>8. StepVerdict(at, earlier, chain, rules) = "goes_on"
    BY <2>3, <2>6, <2>7
  <2>9. s.body # earlier
    BY <2>1, <2>2, <2>5, <2>8 DEF StepVerdict
  <2>10. walk[<<s.body, been \cup {r.body}>>] = "not_ancestor"
    BY <2>3, <2>4, <2>6, <2>8
  <2> QED
    BY <2>1, <2>5, <2>9, <2>10
<1> QED
  BY <1>2, <1>3 DEF Descends

(* What compare calls incompatible are forks.                              *)
LEMMA IncompatibleViews ==
  ASSUME NEW a, NEW b, a.body \in Bodies, b.body \in Bodies, NEW chain, NEW rules,
         \A r \in chain : r.body \in Bodies,
         Compare(a, b, chain, rules) = "incompatible"
  PROVE  AreForks(a.body, b.body, chain, rules)
<1> DEFINE x == Content[a.body]
           y == Content[b.body]
           earlier == IF x.epoch < y.epoch THEN a.body ELSE b.body
           later == IF x.epoch < y.epoch THEN b.body ELSE a.body
<1>1. /\ x.epoch \in Nat /\ y.epoch \in Nat
      /\ x.producer = y.producer /\ x.scope = y.scope /\ a.body # b.body
      /\ x.epoch # y.epoch => ProveAncestry(earlier, later, chain, rules) = "not_ancestor"
  BY DEF Compare, ViewMalformed
<1>2. x.epoch # y.epoch => ~Descends(later, earlier, chain, rules)
  BY <1>1, RootsAreNotReached
<1> QED
  BY <1>1, <1>2 DEF AreForks

(* An artifact is minted of two views that could be attributed, that the   *)
(* record makes incompatible, and of which two receipts were let in.       *)
LEMMA Minted ==
  ASSUME NEW b, IsBundle(b), Evaluate(b).artifact # NoArtifact
  PROVE  /\ \A v \in {1, 2} : b.views[v].cp.key = b.key
         /\ RelationOf(b) = "incompatible"
         /\ IntakeOf(b).views >= 2
<1> DEFINE attribution == UNION {CheckpointFailures(b, v) : v \in Views(b)}
           lane == ComparisonLane(b, attribution = {})
           found == IF attribution = {} THEN {RelationOf(b)} ELSE {}
<1>1. lane.status = "equivocation_detected"
  <2>1. Evaluate(b).artifact = IF lane.status = "equivocation_detected"
                               THEN DeriveEquivocationArtifact(b) ELSE NoArtifact
    BY DEF Evaluate
  <2> HIDE DEF lane
  <2> QED
    BY <2>1
<1>2. lane.status = ComparisonStatusOf(found \cap Relations, IntakeOf(b))
  BY DEF ComparisonLane
<1>3. "incompatible" \in found /\ IntakeOf(b).views >= 2
  BY <1>1, <1>2 DEF ComparisonStatusOf, SufficientForComparison
<1>4. attribution = {} /\ RelationOf(b) = "incompatible"
  BY <1>3
<1>5. ASSUME NEW v \in {1, 2} PROVE b.views[v].cp.key = b.key
  <2>1. CheckpointFailures(b, v) = {}
    BY <1>4 DEF Views, IsBundle
  <2> QED
    BY <2>1 DEF CheckpointFailures, If
<1> QED
  BY <1>3, <1>4, <1>5

(* Two receipts that are let in are of two receivers.                      *)
LEMMA ReceiversDiffer ==
  ASSUME NEW b, IsBundle(b), IntakeOf(b).views >= 2
  PROVE  TwoAnswered(b)
<1> DEFINE one == b.views[1].carried
           two == b.views[2].carried
           receipts == ReceiptsOf(b)
           submissions == receipts \o b.absences
<1>1. /\ IsList(one) /\ IsList(two) /\ IsList(b.absences)
  BY DEF IsBundle, IsView
<1>2. receipts \in Seq({one[i] : i \in DOMAIN one} \cup {two[i] : i \in DOMAIN two})
  <2> DEFINE all == {one[i] : i \in DOMAIN one} \cup {two[i] : i \in DOMAIN two}
  <2>1. one \in Seq(all) /\ two \in Seq(all)
    <3>1. one \in Seq({one[i] : i \in DOMAIN one}) /\ two \in Seq({two[i] : i \in DOMAIN two})
      BY <1>1 DEF IsList
    <3> QED
      BY <3>1
  <2>2. receipts = one \o two
    BY DEF ReceiptsOf
  <2> HIDE DEF all, receipts, one, two
  <2> QED
    BY <2>1, <2>2 DEF all
<1>3. Len(receipts) >= 2 /\ ~Twice(submissions, "id")
  <2> DEFINE groups == IntakeGroups(b.comparison, receipts, b.absences)
  <2>1. FirstGroup(groups) = Clear /\ Len(receipts) >= 2
    BY DEF IntakeOf, Intake, NoIntake
  <2>2. DOMAIN groups = 1 .. 9
    BY DEF IntakeGroups
  <2>3. \A i \in 1 .. 9 : groups[i][1] # Clear
    BY DEF Clear, IntakeGroups
  <2>4. ~groups[7][2]
    <3> HIDE DEF groups
    <3>1. \A i \in 1 .. 9 : ~groups[i][2]
      BY <2>1, <2>2, <2>3, FirstGroupClear
    <3> QED
      BY <3>1
  <2> QED
    BY <2>1, <2>4 DEF IntakeGroups
<1>4. 1 \in DOMAIN receipts /\ 2 \in DOMAIN receipts /\ receipts[1].id # receipts[2].id
  <2> DEFINE all == {one[i] : i \in DOMAIN one} \cup {two[i] : i \in DOMAIN two}
                    \cup {b.absences[i] : i \in DOMAIN b.absences}
  <2>1. receipts \in Seq(all) /\ b.absences \in Seq(all)
    BY <1>1, <1>2 DEF IsList
  <2> HIDE DEF all, receipts
  <2>2. 1 \in DOMAIN submissions /\ 2 \in DOMAIN submissions
        /\ submissions[1] = receipts[1] /\ submissions[2] = receipts[2]
    BY <1>3, <2>1
  <2> QED
    BY <1>3, <2>1, <2>2 DEF Twice
<1>5. \A k \in DOMAIN receipts : (\E i \in DOMAIN one : receipts[k] = one[i])
                                \/ \E i \in DOMAIN two : receipts[k] = two[i]
  <2> DEFINE all == {one[i] : i \in DOMAIN one} \cup {two[i] : i \in DOMAIN two}
  <2>1. \A k \in DOMAIN receipts : receipts[k] \in all
    <3> HIDE DEF all, receipts
    <3> QED
      BY <1>2 DEF all
  <2> QED
    BY <2>1
<1> HIDE DEF receipts
<1> QED
  BY <1>4, <1>5 DEF TwoAnswered, Views, IsBundle

(* With these, an artifact is of forks that two receivers answered for.    *)
LEMMA FoundedAccusation ==
  ASSUME HistoryInv
  PROVE  AccusationIsFounded
<1> SUFFICES ASSUME verdict.artifact # NoArtifact PROVE AccusationIsFounded
  BY DEF AccusationIsFounded
<1> DEFINE a == bundle.views[1].cp
           b == bundle.views[2].cp
<1>1. /\ \A v \in {1, 2} : bundle.views[v].cp.key = bundle.key
      /\ Compare(a, b, bundle.chain, bundle.rules) = "incompatible"
      /\ IntakeOf(bundle).views >= 2
  BY Minted DEF HistoryInv, RelationOf
<1>2. /\ a.body \in Bodies /\ b.body \in Bodies /\ \A r \in bundle.chain : r.body \in Bodies
      /\ IsBundle(bundle) /\ Views(bundle) = {1, 2}
  BY DEF HistoryInv, IsBundle, IsView, Views
<1>3. AreForks(a.body, b.body, bundle.chain, bundle.rules)
  <2> HIDE DEF a, b
  <2> QED
    BY <1>1, <1>2, IncompatibleViews
<1>4. TwoAnswered(bundle)
  BY <1>1, <1>2, ReceiversDiffer
<1> QED
  BY <1>1, <1>2, <1>3, <1>4 DEF AccusationIsFounded

(* No artifact is ever minted without ground (verify.mjs,                  *)
(* equivocation.mjs), whatever is committed and submitted.                 *)
THEOREM AccusationsAreFounded == HistorySpec => []AccusationIsFounded
  BY FoundedAccusation, HistoryInvariance, PTL

-----------------------------------------------------------------------------
(* A walk that ended at a root ends there over any fuller record that does *)
(* not contradict itself.                                                  *)

(* Where a walk may be: at a committed body it has not been through.       *)
Underway(chain) == {at \in Places : Known(chain, at[1]) /\ at[1] \notin at[2]}
Unseen(at, chain) == {r.body : r \in chain} \ at[2]

(* Each step leaves fewer committed bodies that it has not been through.   *)
LEMMA FewerUnseen ==
  ASSUME NEW chain, IsFiniteSet(chain), NEW at \in Underway(chain)
  PROVE  /\ Cardinality(Unseen(at, chain)) \in Nat
         /\ Cardinality(Unseen(Onward(at, chain), chain)) \in Nat
         /\ Cardinality(Unseen(Onward(at, chain), chain)) < Cardinality(Unseen(at, chain))
<1> DEFINE bodies == {r.body : r \in chain}
           bodyOf == [r \in chain |-> r.body]
           before == Unseen(at, chain)
           after == Unseen(Onward(at, chain), chain)
<1>1. IsFiniteSet(bodies)
  <2>1. bodyOf \in Surjection(chain, bodies)
    BY DEF Surjection
  <2> HIDE DEF bodies, bodyOf
  <2> QED
    BY <2>1, FS_Surjection
<1>2. IsFiniteSet(before)
  BY <1>1, FS_Subset DEF Unseen
<1>3. at[1] \in before /\ after = before \ {at[1]}
  BY DEF Underway, Known, Unseen, Onward
<1>4. Cardinality(after) = Cardinality(before) - 1 /\ IsFiniteSet(after)
  BY <1>2, <1>3, FS_RemoveElement
<1>5. Cardinality(before) \in Nat /\ Cardinality(after) \in Nat
  BY <1>2, <1>4, FS_CardinalityType
<1> QED
  BY <1>4, <1>5

(* A step that found its record finds the same in any fuller one.          *)
LEMMA FullerStep ==
  ASSUME NEW earlier, NEW chain, NEW fuller, NEW rules, chain \subseteq fuller,
         ~IndexConflict(fuller), NEW at \in Underway(chain),
         StepVerdict(at, earlier, chain, rules) # "unprovable"
  PROVE  /\ StepVerdict(at, earlier, fuller, rules) = StepVerdict(at, earlier, chain, rules)
         /\ Onward(at, fuller) = Onward(at, chain)
<1>1. ASSUME NEW body, Known(chain, body)
      PROVE  RecordOf(fuller, body) = RecordOf(chain, body) /\ Known(fuller, body)
  <2>1. PICK r \in chain : r.body = body
    BY <1>1 DEF Known
  <2>2. r \in fuller
    BY <2>1
  <2>3. (\A s \in fuller : s.body = body => s = r)
    BY <2>1, <2>2 DEF IndexConflict
  <2>4. RecordOf(fuller, body) = r
    BY <2>1, <2>2, <2>3 DEF RecordOf
  <2>5. RecordOf(chain, body) = r
    BY <2>1, <2>3 DEF RecordOf
  <2> QED
    BY <2>1, <2>2, <2>4, <2>5 DEF Known
<1> DEFINE pred == RecordOf(chain, at[1]).predecessor
<1>2. RecordOf(fuller, at[1]) = RecordOf(chain, at[1])
  BY <1>1 DEF Underway
<1>3. CASE pred = Absent \/ pred \in at[2] \cup {at[1]}
  BY <1>2, <1>3 DEF StepVerdict, Onward
<1>4. CASE pred # Absent /\ pred \notin at[2] \cup {at[1]}
  <2>1. Known(chain, pred)
    BY <1>4 DEF StepVerdict
  <2>2. RecordOf(fuller, pred) = RecordOf(chain, pred) /\ Known(fuller, pred)
    BY <1>1, <2>1
  <2> QED
    BY <1>2, <1>4, <2>1, <2>2 DEF StepVerdict, Onward
<1> QED
  BY <1>3, <1>4

(* Of the places from which the fuller record would end elsewhere, one     *)
(* with the fewest bodies left to see has a next one that has fewer.       *)
LEMMA FullerWalk ==
  ASSUME NEW earlier, NEW chain, NEW fuller, NEW rules, chain \subseteq fuller,
         IsFiniteSet(chain), \A r \in fuller : r.body \in Bodies,
         ~IndexConflict(fuller),
         NEW start \in Underway(chain),
         Walk(earlier, chain, rules)[start] = "not_ancestor"
  PROVE  Walk(earlier, fuller, rules)[start] = "not_ancestor"
<1> DEFINE walk == Walk(earlier, chain, rules)
           again == Walk(earlier, fuller, rules)
           bad == {at \in Underway(chain) : walk[at] = "not_ancestor" /\ again[at] # "not_ancestor"}
           rank(at) == Cardinality(Unseen(at, chain))
           ranks == {rank(at) : at \in bad}
<1> SUFFICES ASSUME bad # {} PROVE FALSE
  OBVIOUS
<1>1. ranks \in SUBSET Nat /\ ranks # {}
  BY FewerUnseen
<1>2. PICK at \in bad : \A other \in bad : rank(at) <= rank(other)
  <2>1. Min(ranks) \in ranks /\ \A j \in ranks : Min(ranks) <= j
    <3> HIDE DEF ranks
    <3> QED
      BY <1>1, LeastMember
  <2> QED
    BY <2>1
<1>3. at \in Underway(chain) /\ at \in Places /\ walk[at] = "not_ancestor" /\ again[at] # "not_ancestor"
  BY DEF Underway
<1> DEFINE step == StepVerdict(at, earlier, chain, rules)
           on == Onward(at, chain)
<1>4. walk[at] = IF step # "goes_on" THEN step ELSE walk[on]
  BY <1>3, WalkEquation
<1>5. step \in {"goes_on", "not_ancestor"}
  BY <1>3, <1>4
<1>6. StepVerdict(at, earlier, fuller, rules) = step /\ Onward(at, fuller) = on
  BY <1>3, <1>5, FullerStep
<1>7. again[at] = IF step # "goes_on" THEN step ELSE again[on]
  BY <1>3, <1>6, WalkEquation
<1>8. step = "goes_on" /\ walk[on] = "not_ancestor" /\ again[on] # "not_ancestor"
  BY <1>3, <1>4, <1>5, <1>7
<1>9. on \in Underway(chain)
  <2> DEFINE pred == RecordOf(chain, at[1]).predecessor
  <2>1. pred \notin at[2] \cup {at[1]} /\ Known(chain, pred)
    BY <1>8 DEF StepVerdict, LinkFault
  <2>2. pred \in Bodies /\ at[2] \cup {at[1]} \in SUBSET Bodies
    BY <1>3, <2>1 DEF Known, Places
  <2> QED
    BY <2>1, <2>2 DEF Underway, Onward, Places
<1>10. on \in bad
  BY <1>8, <1>9
<1>11. rank(on) < rank(at) /\ rank(on) \in Nat /\ rank(at) \in Nat
  BY <1>3, FewerUnseen
<1> QED
  BY <1>2, <1>10, <1>11

(* Views that a record makes incompatible are so over a fuller one, unless *)
(* that one contradicts itself, which the comparison then answers.         *)
LEMMA FullerRecord ==
  ASSUME NEW a, NEW b, a.body \in Bodies, b.body \in Bodies,
         NEW chain, NEW fuller, NEW rules, chain \subseteq fuller,
         IsFiniteSet(chain), \A r \in fuller : r.body \in Bodies,
         Compare(a, b, chain, rules) = "incompatible"
  PROVE  \/ Compare(a, b, fuller, rules) = "incompatible"
         \/ /\ Compare(a, b, fuller, rules) = "ANCESTRY_PROOF_INVALID"
            /\ IndexConflict(fuller)
<1> DEFINE x == Content[a.body]
           y == Content[b.body]
           earlier == IF x.epoch < y.epoch THEN a.body ELSE b.body
           later == IF x.epoch < y.epoch THEN b.body ELSE a.body
           verdictOf(c) == ProveAncestry(earlier, later, c, rules)
<1>1. ~ViewMalformed(a) /\ ~ViewMalformed(b)
      /\ x.producer = y.producer /\ x.scope = y.scope /\ a.body # b.body
      /\ (x.epoch = y.epoch \/ verdictOf(chain) = "not_ancestor")
  BY DEF Compare
<1>2. CASE x.epoch = y.epoch
  BY <1>1, <1>2 DEF Compare
<1>3. CASE x.epoch # y.epoch
  <2>1. \/ verdictOf(fuller) = "not_ancestor"
        \/ verdictOf(fuller) = "invalid" /\ IndexConflict(fuller)
    <3> HIDE DEF earlier, later
    <3>1. /\ earlier # later /\ Known(chain, later)
          /\ Walk(earlier, chain, rules)[<<later, {}>>] = "not_ancestor"
      BY <1>1, <1>3 DEF ProveAncestry
    <3>2. <<later, {}>> \in Underway(chain) /\ Known(fuller, later)
      BY <3>1 DEF Underway, Known, Places
    <3>3. CASE IndexConflict(fuller)
      BY <3>3 DEF ProveAncestry
    <3>4. CASE ~IndexConflict(fuller)
      <4>1. Walk(earlier, fuller, rules)[<<later, {}>>] = "not_ancestor"
        BY <3>1, <3>2, <3>4, FullerWalk
      <4> QED
        BY <3>1, <3>2, <3>4, <4>1 DEF ProveAncestry
    <3> QED
      BY <3>3, <3>4
  <2> QED
    BY <1>1, <1>3, <2>1 DEF Compare
<1> QED
  BY <1>2, <1>3

(* What a stranger may answer of an artifact that was upheld, once more of *)
(* the chain is committed.                                                 *)
StandsOver(answer, chain) ==
    \/ answer = Clear
    \/ answer = "ancestry_proof" /\ IndexConflict(chain)
    \/ answer = "resource_bounds" /\ Cardinality(chain) > MaxChain

(* An artifact that was upheld is refused over a fuller record because the *)
(* record is too long, or for its ancestry proof, whose question comes     *)
(* before the verdict's.                                                   *)
LEMMA UpheldAgain ==
  ASSUME NEW b, NEW c, IsBundle(b), IsBundle(c),
         \A f \in {"key", "comparison", "manifest", "policy", "rules"} : c[f] = b[f],
         b.chain \subseteq c.chain,
         NEW artifact, \A v \in {1, 2} : artifact.views[v].cp.body \in Bodies,
         VerifyEquivocationArtifact(artifact, b) = Clear
  PROVE  StandsOver(VerifyEquivocationArtifact(artifact, c), c.chain)
<1> DEFINE asked == ArtifactGroups(artifact, b)
           again == ArtifactGroups(artifact, c)
           first == artifact.views[1].cp
           second == artifact.views[2].cp
           found == {i \in DOMAIN again : again[i][2]}
<1>1. DOMAIN asked = 1 .. 13 /\ DOMAIN again = 1 .. 13
  BY DEF ArtifactGroups
<1>2. \A i \in 1 .. 13 : ~asked[i][2]
  <2>1. \A i \in 1 .. 13 : asked[i][1] # Clear
    <3>1. asked[1][1] = "structure"
      BY DEF ArtifactGroups
    <3>2. asked[2][1] = "resource_bounds"
      BY DEF ArtifactGroups
    <3>3. asked[3][1] = "producer_key_commitment"
      BY DEF ArtifactGroups
    <3>4. asked[4][1] = "producer_signature"
      BY DEF ArtifactGroups
    <3>5. asked[5][1] = "coordinate_pair"
      BY DEF ArtifactGroups
    <3>6. asked[6][1] = "body_digest_inequality"
      BY DEF ArtifactGroups
    <3>7. asked[7][1] = "comparison_policy_digest"
      BY DEF ArtifactGroups
    <3>8. asked[8][1] = "comparison_manifest_digest"
      BY DEF ArtifactGroups
    <3>9. asked[9][1] = "comparison_manifest_membership"
      BY DEF ArtifactGroups
    <3>10. asked[10][1] = "receiver_provenance"
      BY DEF ArtifactGroups
    <3>11. asked[11][1] = "witness_statement_set_status"
      BY DEF ArtifactGroups
    <3>12. asked[12][1] = "ancestry_proof"
      BY DEF ArtifactGroups
    <3>13. asked[13][1] = "compatibility_verdict"
      BY DEF ArtifactGroups
    <3> HIDE DEF asked
    <3> QED
      BY <3>1, <3>2, <3>3, <3>4, <3>5, <3>6, <3>7, <3>8, <3>9, <3>10, <3>11, <3>12,
         <3>13 DEF Clear
  <2>2. FirstGroup(asked) = Clear
    BY DEF VerifyEquivocationArtifact
  <2> HIDE DEF asked
  <2> QED
    BY <1>1, <2>1, <2>2, FirstGroupClear
<1>3. /\ c.key = b.key /\ c.comparison = b.comparison /\ c.manifest = b.manifest
      /\ c.policy = b.policy /\ c.rules = b.rules
  OBVIOUS
<1>4. \A i \in {1} \cup 3 .. 11 : again[i][2] => asked[i][2]
  <2>1. again[1][2] => asked[1][2]
    BY <1>3 DEF ArtifactGroups
  <2>3. again[3][2] => asked[3][2]
    BY <1>3 DEF ArtifactGroups
  <2>4. again[4][2] => asked[4][2]
    BY <1>3 DEF ArtifactGroups
  <2>5. again[5][2] => asked[5][2]
    BY <1>3 DEF ArtifactGroups
  <2>6. again[6][2] => asked[6][2]
    BY <1>3 DEF ArtifactGroups
  <2>7. again[7][2] => asked[7][2]
    BY <1>3 DEF ArtifactGroups
  <2>8. again[8][2] => asked[8][2]
    BY <1>3 DEF ArtifactGroups
  <2>9. again[9][2] => asked[9][2]
    BY <1>3 DEF ArtifactGroups
  <2>10. again[10][2] => asked[10][2]
    BY <1>3 DEF ArtifactGroups
  <2>11. again[11][2] => asked[11][2]
    BY <1>3 DEF ArtifactGroups
  <2> HIDE DEF asked, again
  <2> QED
    BY <2>1, <2>3, <2>4, <2>5, <2>6, <2>7, <2>8, <2>9, <2>10, <2>11
<1>5. Compare(first, second, b.chain, b.rules) = "incompatible"
  <2>1. ~asked[13][2]
    BY <1>2
  <2> QED
    BY <2>1 DEF ArtifactGroups
<1>6. \/ Compare(first, second, c.chain, b.rules) = "incompatible"
      \/ /\ Compare(first, second, c.chain, b.rules) = "ANCESTRY_PROOF_INVALID"
         /\ IndexConflict(c.chain)
  <2>1. first.body \in Bodies /\ second.body \in Bodies
    OBVIOUS
  <2>2. IsFiniteSet(b.chain) /\ \A r \in c.chain : r.body \in Bodies
    BY DEF IsBundle
  <2> HIDE DEF first, second
  <2> QED
    BY <1>5, <2>1, <2>2, FullerRecord
<1>7. /\ again[12][1] = "ancestry_proof"
      /\ again[12][2] => IndexConflict(c.chain)
      /\ again[13][2] => again[12][2]
  BY <1>3, <1>6 DEF ArtifactGroups
<1>8. /\ again[2][1] = "resource_bounds"
      /\ again[2][2] => Cardinality(c.chain) > MaxChain
  <2>1. ~asked[2][2]
    BY <1>2
  <2>2. /\ ~TooLarge(artifact)
        /\ \A v \in {1, 2} : ~(Cardinality(artifact.views[v].carried) > MaxReceipts)
    BY <2>1 DEF ArtifactGroups
  <2> QED
    BY <2>2 DEF ArtifactGroups
<1> HIDE DEF asked, again
<1>9. found \in SUBSET {2, 12, 13} /\ (13 \in found => 12 \in found)
  <2>1. \A i \in {1} \cup 3 .. 11 : ~again[i][2]
    BY <1>2, <1>4
  <2> QED
    BY <1>1, <1>7, <2>1
<1>10. CASE found = {}
  BY <1>10 DEF VerifyEquivocationArtifact, FirstGroup, StandsOver, again
<1>11. CASE found # {}
  <2>1. Min(found) \in found /\ \A j \in found : Min(found) <= j
    <3>1. found \in SUBSET Nat
      BY <1>9
    <3> HIDE DEF found
    <3> QED
      BY <1>11, <3>1, LeastMember
  <2>2. Min(found) \in {2, 12} /\ again[Min(found)][2]
    BY <1>9, <2>1
  <2>3. VerifyEquivocationArtifact(artifact, c) = again[Min(found)][1]
    BY <1>11 DEF VerifyEquivocationArtifact, FirstGroup, again
  <2> HIDE DEF found
  <2> QED
    BY <1>7, <1>8, <2>2, <2>3 DEF StandsOver
<1> QED
  BY <1>10, <1>11

(* What was published is an artifact of two bodies, and was judged over    *)
(* the bundle as it is now.                                                *)
PublishedInv ==
    published # NoArtifact =>
        /\ \A v \in {1, 2} : published.views[v].cp.body \in Bodies
        /\ judgement = VerifyEquivocationArtifact(published, bundle)

(* A step that publishes nothing leaves alone what is committed, except    *)
(* that the chain may grow.                                                *)
LEMMA StepsKeepCommitted ==
  ASSUME HistoryInv, [HistoryNext]_historyVars, published' = published
  PROVE  /\ \A f \in {"key", "comparison", "manifest", "policy", "rules"} : bundle'[f] = bundle[f]
         /\ bundle.chain \subseteq bundle'.chain
<1> DEFINE Kept == /\ \A f \in {"key", "comparison", "manifest", "policy", "rules"} :
                        bundle'[f] = bundle[f]
                   /\ bundle.chain \subseteq bundle'.chain
<1>0. IsBundle(bundle)
  BY DEF HistoryInv
<1>1. ASSUME NEW v, NEW s, SubmitStatement(v, s) PROVE Kept
  BY <1>0, <1>1 DEF SubmitStatement, Submit, IsBundle
<1>2. ASSUME NEW v, NEW r, SubmitReceipt(v, r) PROVE Kept
  BY <1>0, <1>2 DEF SubmitReceipt, Submit, IsBundle
<1>3. ASSUME NEW s, SubmitAbsence(s) PROVE Kept
  BY <1>0, <1>3 DEF SubmitAbsence, Submit, IsBundle
<1>4. ASSUME NEW r, CommitRecord(r) PROVE Kept
  BY <1>0, <1>4 DEF CommitRecord, IsBundle
<1>5. CASE Publish
  BY <1>5 DEF Publish
<1>6. CASE UNCHANGED historyVars
  BY <1>6 DEF historyVars
<1> QED
  BY <1>1, <1>2, <1>3, <1>4, <1>5, <1>6 DEF HistoryNext

(* Every step judges what is published again, or changes nothing.          *)
LEMMA StepKeepsPublished ==
  ASSUME HistoryInv, PublishedInv, [HistoryNext]_historyVars
  PROVE  PublishedInv'
<1>1. CASE Publish
  <2>1. verdict = Evaluate(bundle) /\ IsBundle(bundle)
    BY DEF HistoryInv
  <2>2. published' = DeriveEquivocationArtifact(bundle)
    <3>1. \/ verdict.artifact = DeriveEquivocationArtifact(bundle)
          \/ verdict.artifact = NoArtifact
      BY <2>1 DEF Evaluate
    <3> QED
      BY <1>1, <3>1 DEF Publish
  <2>3. \A v \in {1, 2} : published'.views[v].cp.body \in Bodies
    BY <2>1, <2>2 DEF DeriveEquivocationArtifact, IsBundle, IsView
  <2> QED
    BY <1>1, <2>3 DEF Publish, Rejudge, PublishedInv
<1>2. CASE UNCHANGED historyVars
  BY <1>2 DEF historyVars, PublishedInv
<1>3. ASSUME UNCHANGED published, Rejudge PROVE PublishedInv'
  BY <1>3 DEF Rejudge, PublishedInv
<1> QED
  BY <1>1, <1>2, <1>3
     DEF HistoryNext, SubmitStatement, SubmitReceipt, SubmitAbsence, Submit, CommitRecord

(* So what was upheld before a step is upheld after it, or refused for one *)
(* of the two reasons.                                                     *)
LEMMA AccusationKept ==
  ASSUME HistoryInv, PublishedInv, [HistoryNext]_historyVars,
         published # NoArtifact, judgement = Clear
  PROVE  StandsOver(judgement, bundle.chain)'
<1>1. CASE UNCHANGED historyVars
  BY <1>1 DEF historyVars, StandsOver
<1>2. CASE HistoryNext
  <2>1. published' = published /\ judgement' = VerifyEquivocationArtifact(published, bundle')
    BY <1>2 DEF HistoryNext, SubmitStatement, SubmitReceipt, SubmitAbsence, Submit,
                CommitRecord, Publish, Rejudge
  <2>2. IsBundle(bundle) /\ IsBundle(bundle')
    BY StepKeepsBundle DEF HistoryInv
  <2>3. /\ \A v \in {1, 2} : published.views[v].cp.body \in Bodies
        /\ VerifyEquivocationArtifact(published, bundle) = Clear
    BY DEF PublishedInv
  <2>4. StandsOver(VerifyEquivocationArtifact(published, bundle'), bundle'.chain)
    BY <2>1, <2>2, <2>3, StepsKeepCommitted, UpheldAgain
  <2> QED
    BY <2>1, <2>4 DEF StandsOver
<1> QED
  BY <1>1, <1>2

(* A published accusation that a stranger upholds stays upheld as more is  *)
(* committed, until the record contradicts itself (ancestry.mjs) or is     *)
(* longer than a stranger reads (equivocation.mjs).                        *)
THEOREM AccusationsStand == HistorySpec => AccusationStands
<1>1. HistoryInit => PublishedInv
  BY DEF HistoryInit, PublishedInv
<1>2. HistoryInv /\ PublishedInv /\ [HistoryNext]_historyVars => PublishedInv'
  BY StepKeepsPublished
<1>3. HistoryInv /\ PublishedInv /\ [HistoryNext]_historyVars
        => [published # NoArtifact /\ judgement = Clear =>
              \/ judgement' = Clear
              \/ judgement' = "ancestry_proof" /\ IndexConflict(bundle'.chain)
              \/ /\ judgement' = "resource_bounds"
                 /\ Cardinality(bundle'.chain) > MaxChain]_historyVars
  BY AccusationKept DEF StandsOver
<1> QED
  BY <1>1, <1>2, <1>3, HistoryInvariance, PTL DEF HistorySpec, AccusationStands
=============================================================================
