---------------------------- MODULE WitnessLanes ----------------------------
(***************************************************************************)
(* The two lanes of stage 5S that count who said what of a checkpoint: the *)
(* witness lane (core/policy.mjs, core/quorum.mjs) with its threshold, and *)
(* the receiver lane (core/receivers.mjs) with its intake.  Each asks its  *)
(* questions in a fixed order and stops at the first group of refusals;    *)
(* every group has one reason, so a lane's outcome is a reason or Clear.   *)
(*                                                                         *)
(* Statements, receipts and signed absences are taken in the order they    *)
(* were submitted: one received twice is two submissions.                  *)
(***************************************************************************)
EXTENDS HistoryRelation, Sequences, SequencesExt

Clear == "clear"

WitnessOperatorClass ==
    {"same_operator_distinct_key", "distinct_operator_self_asserted",
     "unresolved"}

\* The entries of a sequence, submission by submission, that satisfy a test.
Seats(roster, id) == {i \in DOMAIN roster : roster[i].id = id}
Holds(roster, id) == Seats(roster, id) # {}
\* A map built from the roster keeps the last seat of an identity.
SeatOf(roster, id) == roster[Max(Seats(roster, id))]

\* The reason of the first group that found something; Clear if none did.
FirstGroup(groups) ==
    LET found == {i \in DOMAIN groups : groups[i][2]}
    IN  IF found = {} THEN Clear ELSE groups[Min(found)][1]

Names(list) == {list[i].id : i \in DOMAIN list}
KeySharedByTwo(list) ==
    \E i, j \in DOMAIN list : list[i].key = list[j].key /\ list[i].id # list[j].id
Twice(list, field) ==
    \E i, j \in DOMAIN list : i # j /\ list[i][field] = list[j][field]
-----------------------------------------------------------------------------
(* The witness policy, and the tally of the statements under it.           *)

\* What the policy block decides about itself.
RosterMalformed(roster) ==
    \/ roster = <<>>
    \/ Twice(roster, "id")
    \/ Twice(roster, "key")
    \/ \E i \in DOMAIN roster :
          \/ roster[i].id = Absent \/ roster[i].key = Absent
          \/ roster[i].class \notin WitnessOperatorClass

MixMalformed(policy) ==
    \/ DOMAIN policy.mix \ WitnessOperatorClass # {}
    \/ FoldFunction(+, 0, policy.mix) > policy.threshold

WitnessPolicyMalformed(policy) ==
    \/ RosterMalformed(policy.roster)
    \/ policy.threshold \notin 1 .. Len(policy.roster)
    \/ MixMalformed(policy)

\* Mutant: a seat is matched by its name alone.
NeverForeign(roster, s) == FALSE

\* A statement signed under a key that is not its identity's seat's.
Foreign(roster, s) == Holds(roster, s.id) /\ SeatOf(roster, s.id).key # s.key
KeyHasOwner(roster, key) == \E i \in DOMAIN roster : roster[i].key = key

ClassOfSeat(roster, id) ==
    LET class == SeatOf(roster, id).class
    IN  IF class \in WitnessOperatorClass THEN class ELSE "unresolved"

\* What is asked of the statements before any is counted, in this order.
WitnessGroups(cp, roster, statements, producerKey) ==
    LET some(test(_)) == \E i \in DOMAIN statements : test(statements[i])
        malformed(s) == s.id = Absent \/ s.key = Absent
        unverified(s) == ~s.verified
        stranger(s) == \/ ~Holds(roster, s.id)
                       \/ Foreign(roster, s) /\ ~KeyHasOwner(roster, s.key)
        self(s) == \/ s.id = Content[cp.body].producer
                   \/ producerKey # Absent /\ s.key = producerKey
        worn(s) == Foreign(roster, s)
        otherEpoch(s) == s.epoch # Content[cp.body].epoch
        otherScope(s) == s.scope # Content[cp.body].scope
    IN  << <<"WITNESS_IDENTITY_MALFORMED", some(malformed)>>,
           <<"WITNESS_SIGNATURE_INVALID", some(unverified)>>,
           <<"WITNESS_NOT_IN_ROSTER", some(stranger)>>,
           <<"PRODUCER_SELF_WITNESS", some(self)>>,
           <<"WITNESS_KEY_ALIASED", some(worn) \/ KeySharedByTwo(statements)>>,
           <<"WITNESS_DUPLICATE", Twice(statements, "id")>>,
           <<"CROSS_EPOCH_REPLAY", some(otherEpoch)>>,
           <<"CROSS_SCOPE_REPLAY", some(otherScope)>> >>

\* Fewer witnesses than the threshold, or than the mix asks of a class.
FallsShort(counted, policy) ==
    \/ Cardinality(counted) < policy.threshold
    \/ \E c \in DOMAIN policy.mix :
          Cardinality({id \in counted : ClassOfSeat(policy.roster, id) = c})
              < policy.mix[c]

\* Only what is left at the end is counted.
Tally(cp, policy, statements, producerKey) ==
    LET refusal ==
            FirstGroup(WitnessGroups(cp, policy.roster, statements, producerKey))
        counted == Names(statements)
        short == FallsShort(counted, policy)
    IN  IF refusal # Clear THEN [refusal |-> refusal, distinct |-> 0, met |-> FALSE]
        ELSE [refusal |-> IF short THEN "QUORUM_BELOW_POLICY" ELSE Clear,
              distinct |-> Cardinality(counted),
              met |-> ~short]

QuorumStatusOf(tally) ==
    IF tally.refusal = Clear /\ tally.met
    THEN "witnessed_quorum" ELSE "quorum_incomplete"

\* What the statements that came with a view amounted to, judged without the
\* producer's key.
WitnessStatementSetStatus(statements, policy, cp) ==
    IF statements = <<>> THEN "empty"
    ELSE IF Tally(cp, policy, statements, Absent).refusal = Clear
         THEN "validated" ELSE "refused"
-----------------------------------------------------------------------------
(* The receivers' answers: receipts of a view, and signed absences.        *)

NoIntake == [refusal |-> Clear, views |-> 0, complete |-> FALSE]

ComparisonPolicyMalformed(policy) ==
    LET roster == policy.roster
    IN  \/ policy.digest = Absent
        \/ roster = <<>>
        \/ \E i \in DOMAIN roster :
              roster[i].id = Absent \/ roster[i].key = Absent
        \/ Twice(roster, "id")

\* What is asked of them before they count, in this order.
IntakeGroups(policy, receipts, absences) ==
    LET submissions == receipts \o absences
        roster == policy.roster
        some(list, test(_)) == \E i \in DOMAIN list : test(list[i])
        otherPolicy(s) == s.policy # policy.digest
        malformed(s) == s.id = Absent \/ s.key = Absent
        stranger(s) == \/ ~Holds(roster, s.id)
                       \/ SeatOf(roster, s.id).key # s.key
        unverified(s) == ~s.verified
        misshapen(s) == ~s.wellFormed
    IN  << <<"COMPARISON_POLICY_MALFORMED_OR_ROSTER_INVALID",
             ComparisonPolicyMalformed(policy)>>,
           <<"COMPARISON_POLICY_DIGEST_MISMATCH",
             some(submissions, otherPolicy)>>,
           <<"RECEIVER_IDENTITY_MALFORMED", some(submissions, malformed)>>,
           <<"RECEIVER_NOT_IN_COMPARISON_ROSTER",
             some(submissions, stranger)>>,
           <<"RECEIVER_RECEIPT_SIGNATURE_INVALID", some(receipts, unverified)>>,
           <<"RECEIVER_KEY_ALIASED", KeySharedByTwo(submissions)>>,
           <<"RECEIVER_DUPLICATE", Twice(submissions, "id")>>,
           <<"RECEIVER_STATUS_MALFORMED", some(absences, misshapen)>>,
           <<"RECEIVER_STATUS_SIGNATURE_INVALID", some(absences, unverified)>> >>

Intake(policy, receipts, absences) ==
    LET refusal == FirstGroup(IntakeGroups(policy, receipts, absences))
    IN  IF refusal # Clear THEN [NoIntake EXCEPT !.refusal = refusal]
        ELSE [refusal |-> Clear,
              views |-> Len(receipts),
              complete |-> Names(policy.roster) \subseteq
                           Names(receipts \o absences)]

SufficientForComparison(intake) == intake.views >= 2

\* Reads the relations and the sufficiency of the intake, and nothing else.
ComparisonStatusOf(relations, intake) ==
    IF relations = {} \/ ~SufficientForComparison(intake)
    THEN "comparison_unavailable"
    ELSE IF "incompatible" \in relations THEN "equivocation_detected"
    ELSE IF "indeterminate" \in relations THEN "comparison_indeterminate"
    ELSE "no_conflict_in_committed_comparison_set"
=============================================================================
