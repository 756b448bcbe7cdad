--------------------------- MODULE HistoryVerdict ---------------------------
(***************************************************************************)
(* The ordered evaluator of stage 5S (core/verify.mjs), the equivocation   *)
(* artifact it mints and a stranger's verification of it                   *)
(* (core/equivocation.mjs), over a bundle that is still being assembled.   *)
(*                                                                         *)
(* A bundle is what a run commits: two checkpoints, the policies and the   *)
(* comparison manifest, the chain of committed records, and the statements *)
(* and receipts that reach it.  The evaluator is a pure function and keeps *)
(* nothing: it is run again whenever the bundle grew.  An artifact that    *)
(* was published is judged again as often, over the fuller record.         *)
(***************************************************************************)
EXTENDS WitnessLanes

CONSTANTS
    Bundles,        \* what a run may start from; its field left bounds what is
                    \* submitted to it, and late what is committed
    Statements(_),  \* witness statements that may be submitted of a checkpoint
    Receipts(_),    \* receipts of it by receivers, and
    Absences,       \* signed absences of receivers
    MaxChain,       \* how many committed records a stranger reads,
    MaxReceipts,    \* how many receipts of a view, and
    TooLarge(_)     \* which artifacts are over the limit of bytes

VARIABLES
    bundle,
    verdict,        \* what the evaluator says of the bundle
    published,      \* the artifact somebody minted and published, and
    judgement       \* what a stranger's verification says of it today

historyVars == <<bundle, verdict, published, judgement>>

\* A bundle is parsed JSON: of the shape the evaluator reads, and its lists
\* are lists.
IsList(s) == s \in Seq({s[i] : i \in DOMAIN s})
IsView(view) ==
    /\ {"cp", "statements", "carried", "claimsQuorum"} \subseteq DOMAIN view
    /\ view.cp.body \in Bodies
    /\ IsList(view.statements) /\ IsList(view.carried)
IsBundle(b) ==
    /\ DOMAIN b = {"views", "absences", "policy", "comparison", "manifest",
                   "chain", "rules", "late", "left", "protocol", "roots", "key",
                   "keyDigest", "structural"}
    /\ b.structural \subseteq {"SCHEMA_UNSUPPORTED", "CANONICALISATION_UNKNOWN"}
    /\ DOMAIN b.views = {1, 2} /\ \A v \in {1, 2} : IsView(b.views[v])
    /\ IsList(b.absences) /\ IsList(b.policy.roster)
    /\ IsFiniteSet(b.chain) /\ \A r \in b.chain \cup b.late : r.body \in Bodies

ASSUME BundlesAreParsed == \A b \in Bundles : IsBundle(b)
ASSUME BoundsAssumption == MaxChain \in Nat /\ MaxReceipts \in Nat

NoPolicy == [digest |-> Absent, roster |-> <<>>]
NoManifest == Absent
-----------------------------------------------------------------------------
(* The frozen order: the allocation of refusals, first to be reported first. *)

FrozenOrder == <<
    "SCHEMA_UNSUPPORTED", "CANONICALISATION_UNKNOWN",
    "CHECKPOINT_BINDING_MISMATCH", "PRODUCER_IDENTITY_MALFORMED",
    "PRODUCER_SIGNATURE_INVALID", "C1_COMMITMENT_UNBOUND",
    "PROTOCOL_VERSION_MISMATCH", "EPOCH_INVALID", "HISTORY_ROOT_MISMATCH",
    "POLICY_NOT_COMMITTED", "POLICY_MALFORMED_OR_ROSTER_INVALID",
    "POLICY_DIGEST_MISMATCH", "PRODUCER_KEY_NOT_COMMITTED",
    "WITNESS_IDENTITY_MALFORMED", "WITNESS_NOT_IN_ROSTER",
    "WITNESS_SIGNATURE_INVALID", "PRODUCER_SELF_WITNESS",
    "WITNESS_KEY_ALIASED", "WITNESS_DUPLICATE", "CROSS_EPOCH_REPLAY",
    "CROSS_SCOPE_REPLAY", "QUORUM_BELOW_POLICY",
    "COMPARISON_POLICY_NOT_COMMITTED",
    "COMPARISON_POLICY_MALFORMED_OR_ROSTER_INVALID",
    "COMPARISON_POLICY_DIGEST_MISMATCH", "RECEIVER_IDENTITY_MALFORMED",
    "RECEIVER_NOT_IN_COMPARISON_ROSTER",
    "RECEIVER_RECEIPT_SIGNATURE_INVALID", "RECEIVER_KEY_ALIASED",
    "RECEIVER_DUPLICATE", "RECEIVER_STATUS_MALFORMED",
    "RECEIVER_STATUS_SIGNATURE_INVALID", "COMPARISON_MANIFEST_NOT_COMMITTED",
    "COMPARISON_SET_INSUFFICIENT", "ANCESTRY_PROOF_INVALID" >>

Rank(f) == CHOOSE i \in DOMAIN FrozenOrder : FrozenOrder[i] = f
FirstFailure(failures) ==
    IF failures = {} THEN Clear
    ELSE CHOOSE f \in failures : \A g \in failures : Rank(f) <= Rank(g)

If(condition, reason) == IF condition THEN {reason} ELSE {}
-----------------------------------------------------------------------------
(* The checks.                                                             *)

Views(b) == DOMAIN b.views

\* The other checkpoints that what came with a view is bound to.
EnvelopesOf(list) == {list[i].envelope : i \in DOMAIN list}
BoundElsewhere(view) ==
    (EnvelopesOf(view.statements) \cup EnvelopesOf(view.carried))
        \ {Absent, view.cp}

\* Structure, and then attribution: whether each checkpoint is the producer's
\* and everything bound to it is bound to this checkpoint.  What is found wrong
\* with the form of the fields that are not modelled is a part of the bundle.
CheckpointFailures(b, v) ==
    LET view == b.views[v]
        body == Content[view.cp.body]
    IN  UNION {
        b.structural,
        If(\E f \in BodyFields : body[f] = Absent, "SCHEMA_UNSUPPORTED"),
        If(body.producer = Absent, "PRODUCER_IDENTITY_MALFORMED"),
        If(body.epoch \notin Nat, "EPOCH_INVALID"),
        If(body.root = Absent, "HISTORY_ROOT_MISMATCH"),
        If(body.protocol # b.protocol, "PROTOCOL_VERSION_MISMATCH"),
        If(body.c1 \notin b.roots, "C1_COMMITMENT_UNBOUND"),
        If(BoundElsewhere(view) # {}, "CHECKPOINT_BINDING_MISMATCH"),
        If(view.cp.key # b.key, "PRODUCER_SIGNATURE_INVALID") }

WitnessPolicyFailures(b) ==
    IF WitnessPolicyMalformed(b.policy)
    THEN {"POLICY_MALFORMED_OR_ROSTER_INVALID"}
    ELSE If(\E v \in Views(b) :
                Content[b.views[v].cp.body].policy # b.policy.digest,
            "POLICY_DIGEST_MISMATCH")
         \cup If(b.policy.producerKey # b.keyDigest, "PRODUCER_KEY_NOT_COMMITTED")

TallyOf(b, v) ==
    Tally(b.views[v].cp, b.policy, b.views[v].statements, b.keyDigest)

\* A short tally is no refusal: a certificate that claims otherwise is.
WitnessLaneFailures(b, v, tally) ==
    If(tally.refusal \notin {Clear, "QUORUM_BELOW_POLICY"}, tally.refusal)
    \cup If(b.views[v].claimsQuorum /\ ~tally.met, "QUORUM_BELOW_POLICY")

ReceiptsOf(b) == b.views[1].carried \o b.views[2].carried

IntakeOf(b) ==
    IF b.comparison = NoPolicy
    THEN [NoIntake EXCEPT !.refusal = "COMPARISON_POLICY_NOT_COMMITTED"]
    ELSE Intake(b.comparison, ReceiptsOf(b), b.absences)

RelationOf(b) == Compare(b.views[1].cp, b.views[2].cp, b.chain, b.rules)

\* Mutant: the comparison waits for the witnesses.
LaneBehindQuorum(b, attributed) ==
    [failures |-> {},
     status |-> IF attributed /\ \A v \in Views(b) : TallyOf(b, v).met
                THEN ComparisonStatusOf({RelationOf(b)}, IntakeOf(b))
                ELSE "comparison_unavailable"]

\* Run on every bundle, whatever the witness lane counted; the relation is
\* asked only of two checkpoints that could be attributed.
ComparisonLane(b, attributed) ==
    LET intake == IntakeOf(b)
        found == IF attributed THEN {RelationOf(b)} ELSE {}
    IN  [failures |-> If(intake.refusal # Clear, intake.refusal)
                      \cup If(b.manifest = NoManifest,
                              "COMPARISON_MANIFEST_NOT_COMMITTED")
                      \cup (found \ Relations),
         status |-> ComparisonStatusOf(found \cap Relations, intake)]
-----------------------------------------------------------------------------
(* The artifact, and the verdict it comes with.                            *)

\* Minted over two views the committed record makes incompatible.
DeriveEquivocationArtifact(b) ==
    [views |-> [v \in {1, 2} |->
        [cp |-> b.views[v].cp,
         carried |-> {b.views[v].carried[i] : i \in DOMAIN b.views[v].carried},
         status |-> WitnessStatementSetStatus(
                        b.views[v].statements, b.policy, b.views[v].cp),
         statements |-> b.views[v].statements]],
     producerKey |-> b.keyDigest,
     comparison |-> b.comparison.digest,
     manifest |-> b.manifest]

NoArtifact == <<>>

Evaluate(b) ==
    LET attribution == UNION {CheckpointFailures(b, v) : v \in Views(b)}
        policy == WitnessPolicyFailures(b)
        tallies == [v \in Views(b) |-> TallyOf(b, v)]
        lane == ComparisonLane(b, attribution = {})
        failures == attribution \cup policy \cup lane.failures
            \cup UNION {WitnessLaneFailures(b, v, tallies[v]) : v \in Views(b)}
    IN  [first |-> FirstFailure(failures),
         quorum |-> [v \in Views(b) |->
             IF policy = {} THEN QuorumStatusOf(tallies[v])
             ELSE "quorum_incomplete"],
         comparison |-> lane.status,
         artifact |-> IF lane.status = "equivocation_detected"
                      THEN DeriveEquivocationArtifact(b) ELSE NoArtifact]

\* What a stranger asks, of the artifact and what is committed alone, in this
\* order; how large the question is comes before anything recomputed.  The schema,
\* the coordinates, the roots and the digests recomputed by the code hold of every
\* artifact the code mints, and are left out.
ArtifactGroups(artifact, b) ==
    LET view == artifact.views
        cp(v) == view[v].cp
        relation == Compare(cp(1), cp(2), b.chain, b.rules)
        answered(v, r) ==
            /\ Holds(b.comparison.roster, r.id)
            /\ SeatOf(b.comparison.roster, r.id).key = r.key
            /\ r.envelope = cp(v)
            /\ r.policy = artifact.comparison
    IN  << <<"structure", Absent \in {artifact.producerKey, artifact.comparison}>>,
           <<"resource_bounds",
             \/ TooLarge(artifact)
             \/ \E v \in {1, 2} : Cardinality(view[v].carried) > MaxReceipts
             \/ Cardinality(b.chain) > MaxChain>>,
           <<"producer_key_commitment", b.key # artifact.producerKey>>,
           <<"producer_signature", \E v \in {1, 2} : cp(v).key # b.key>>,
           <<"coordinate_pair",
             \E f \in {"producer", "scope"} :
                 Content[cp(1).body][f] # Content[cp(2).body][f]>>,
           <<"body_digest_inequality", cp(1).body = cp(2).body>>,
           <<"comparison_policy_digest",
             artifact.comparison # b.comparison.digest>>,
           <<"comparison_manifest_digest", artifact.manifest # b.manifest>>,
           <<"comparison_manifest_membership",
             b.manifest = NoManifest \/ {cp(1), cp(2)} \ b.manifest # {}>>,
           <<"receiver_provenance",
             \E v \in {1, 2} : \/ view[v].carried = {}
                               \/ \E r \in view[v].carried : ~answered(v, r)>>,
           <<"witness_statement_set_status",
             \E v \in {1, 2} : view[v].status #
                 WitnessStatementSetStatus(view[v].statements, b.policy, cp(v))>>,
           <<"ancestry_proof", relation = "ANCESTRY_PROOF_INVALID">>,
           <<"compatibility_verdict", relation # "incompatible">> >>

\* Why the artifact is refused, or Clear.
VerifyEquivocationArtifact(artifact, b) == FirstGroup(ArtifactGroups(artifact, b))
-----------------------------------------------------------------------------
(* What may happen to a bundle, and the evaluations that follow.           *)

Rejudge ==
    /\ verdict' = Evaluate(bundle')
    /\ judgement' = IF published' = NoArtifact THEN Clear
                    ELSE VerifyEquivocationArtifact(published', bundle')

Submit(b) ==
    /\ bundle.left > 0
    /\ bundle' = [b EXCEPT !.left = @ - 1]
    /\ UNCHANGED published
    /\ Rejudge

SubmitStatement(v, s) ==
    Submit([bundle EXCEPT !.views[v].statements = Append(@, s)])

SubmitReceipt(v, r) ==
    Submit([bundle EXCEPT !.views[v].carried = Append(@, r)])

SubmitAbsence(s) == Submit([bundle EXCEPT !.absences = Append(@, s)])

CommitRecord(r) ==
    /\ r \notin bundle.chain
    /\ bundle' = [bundle EXCEPT !.chain = @ \cup {r}]
    /\ UNCHANGED published
    /\ Rejudge

\* One artifact is followed at a time.
Publish ==
    /\ published = NoArtifact
    /\ verdict.artifact # NoArtifact
    /\ published' = verdict.artifact
    /\ UNCHANGED bundle
    /\ Rejudge

HistoryInit ==
    /\ bundle \in Bundles
    /\ verdict = Evaluate(bundle)
    /\ published = NoArtifact
    /\ judgement = Clear

HistoryNext ==
    \/ \E v \in Views(bundle) :
          \/ \E s \in Statements(bundle.views[v].cp) : SubmitStatement(v, s)
          \/ \E r \in Receipts(bundle.views[v].cp) : SubmitReceipt(v, r)
    \/ \E s \in Absences : SubmitAbsence(s)
    \/ \E r \in bundle.late : CommitRecord(r)
    \/ Publish

HistorySpec == HistoryInit /\ [][HistoryNext]_historyVars
-----------------------------------------------------------------------------
(* What the verdict promises.                                              *)

\* The threshold is reached by verified statements of this epoch and scope, each
\* under the key of its identity's own seat, no two with one key and none of
\* them the producer's.
Earned(b, v) ==
    LET view == b.views[v]
        body == Content[view.cp.body]
        good == {i \in DOMAIN view.statements :
            LET s == view.statements[i] IN
            /\ s.verified /\ s.epoch = body.epoch /\ s.scope = body.scope
            /\ s.id # body.producer /\ s.key # b.keyDigest
            /\ \E j \in DOMAIN b.policy.roster :
                  /\ b.policy.roster[j].id = s.id
                  /\ b.policy.roster[j].key = s.key}
    IN  Cardinality({view.statements[i].key : i \in good}) >= b.policy.threshold

\* A quorum is earned, however the submissions are ordered, repeated or
\* laundered (quorum.mjs, §2.8's order).
QuorumIsEarned ==
    \A v \in Views(bundle) :
        verdict.quorum[v] = "witnessed_quorum" => Earned(bundle, v)

\* Two different bodies of one producer for one scope, the later of them not
\* reaching the earlier over lawful committed links.
AreForks(x, y, chain, rules) ==
    /\ x # y
    /\ \A f \in {"producer", "scope"} : Content[x][f] = Content[y][f]
    /\ Content[x].epoch < Content[y].epoch => ~Descends(y, x, chain, rules)
    /\ Content[y].epoch < Content[x].epoch => ~Descends(x, y, chain, rules)

TwoAnswered(b) ==
    \E v, w \in Views(b) :
        \E i \in DOMAIN b.views[v].carried : \E j \in DOMAIN b.views[w].carried :
            b.views[v].carried[i].id # b.views[w].carried[j].id

\* An artifact accuses nobody without ground: it is of forks, both signed by the
\* producer's committed key, of which two receivers answered (equivocation.mjs,
\* compatibility.mjs).
AccusationIsFounded ==
    verdict.artifact # NoArtifact =>
        /\ \A v \in Views(bundle) : bundle.views[v].cp.key = bundle.key
        /\ AreForks(bundle.views[1].cp.body, bundle.views[2].cp.body,
                    bundle.chain, bundle.rules)
        /\ TwoAnswered(bundle)

\* No witness statement silences the comparison: one that is bound to the
\* checkpoint it came with, however short, laundered or replayed, changes
\* neither the comparison's status nor whether an artifact is minted
\* (verify.mjs and status.mjs: the two lanes are independent).
WitnessesNeverSilence ==
    [][(\E v \in Views(bundle) : \E s \in Statements(bundle.views[v].cp) :
            /\ s.envelope = bundle.views[v].cp
            /\ bundle'.views[v].statements = Append(bundle.views[v].statements, s)) =>
        /\ verdict'.comparison = verdict.comparison
        /\ (verdict'.artifact = NoArtifact) = (verdict.artifact = NoArtifact)
      ]_historyVars

\* A published accusation that a stranger upholds is not withdrawn because more
\* of the chain was committed, except for two reasons that are the record's own:
\* it contradicts itself (ancestry.mjs, indexChain), or it is longer than a
\* stranger reads (equivocation.mjs, RESOURCE_BOUNDS).
AccusationStands ==
    [][published # NoArtifact /\ judgement = Clear =>
        \/ judgement' = Clear
        \/ judgement' = "ancestry_proof" /\ IndexConflict(bundle'.chain)
        \/ /\ judgement' = "resource_bounds"
           /\ Cardinality(bundle'.chain) > MaxChain]_historyVars

\* What equivocation.mjs says of a statement set: one that is valid but short
\* of the threshold is validated, never refused.
OutvotedIsValidated ==
    \A v \in Views(bundle) :
        LET view == bundle.views[v]
        IN  WitnessStatementSetStatus(view.statements, bundle.policy, view.cp)
                = "refused" =>
            Tally(view.cp, bundle.policy, view.statements, Absent).refusal #
                "QUORUM_BELOW_POLICY"
=============================================================================
