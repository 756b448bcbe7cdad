-------------------------- MODULE HistoryRelation --------------------------
(***************************************************************************)
(* How two signed checkpoints of one producer relate under the committed   *)
(* record (stage 5S: core/ancestry.mjs and core/compatibility.mjs).        *)
(*                                                                         *)
(* A digest stands for what it is taken over: a body is named by its       *)
(* digest and Content says what the body holds, and a checkpoint's         *)
(* envelope digest is the checkpoint itself, signature included.  The      *)
(* records of the committed chain say what they say of a body digest; they *)
(* are not compared with the body.  A record carries its place in the      *)
(* committed list, so that one given twice is two.                         *)
(***************************************************************************)
EXTENDS Naturals, FiniteSets

CONSTANTS
    Bodies,     \* digests of checkpoint bodies
    Content,    \* what each body holds
    Absent      \* a field left out, or null

BodyFields ==
    {"producer", "scope", "epoch", "root", "policy", "protocol", "c1"}

ASSUME HistoryAssumption ==
    /\ Absent \notin Bodies
    /\ \A b \in Bodies : DOMAIN Content[b] = BodyFields

-----------------------------------------------------------------------------
(* The walk from the later body to the earlier one.                        *)

\* Whether the committed rules allow one kind of value to change along a link.
TransitionState(kind, from, to, rules) ==
    LET forKind == {t \in rules.transitions : t.kind = kind}
    IN  IF from = to THEN "unchanged"
        ELSE IF forKind = {} THEN "uncommitted"
        ELSE IF \E t \in forKind : t.from = from /\ t.to = to THEN "authorised"
        ELSE "contradicted"

\* What is wrong with the link from one record to its predecessor's: nothing,
\* too little committed, or a contradiction.  The policy is looked at first.
LinkFault(next, current, rules) ==
    LET policy == TransitionState("policy", next.policy, current.policy, rules)
        protocol ==
            TransitionState("protocol", next.protocol, current.protocol, rules)
        first == IF policy \in {"uncommitted", "contradicted"}
                 THEN policy ELSE protocol
    IN  IF next.epoch >= current.epoch THEN "invalid"
        ELSE IF next.epoch # current.epoch - 1 /\ ~rules.gaps THEN "unprovable"
        ELSE IF first = "uncommitted" THEN "unprovable"
        ELSE IF first = "contradicted" THEN "invalid"
        ELSE "none"

Known(chain, body) == \E r \in chain : r.body = body
RecordOf(chain, body) == CHOOSE r \in chain : r.body = body

\* Mutant: the last record read of a body replaces the ones before it.
ConflictOverlooked(chain) == FALSE

\* Two committed records claim one body, or one is not of a record's form.
IndexConflict(chain) ==
    \/ \E r, s \in chain : r # s /\ r.body = s.body
    \/ \E r \in chain : ~r.wellFormed

\* Mutant: ancestry is one link.
OneHopAncestry(earlier, later, chain, rules) ==
    IF Known(chain, later) /\ RecordOf(chain, later).predecessor = earlier
    THEN "proven" ELSE "not_ancestor"

\* A walk is at a body whose record is at hand, and has been through others.
Places == Bodies \X SUBSET Bodies

Walk(earlier, chain, rules) ==
    LET walk[at \in Places] ==
            LET current == RecordOf(chain, at[1])
                pred == current.predecessor
                next == RecordOf(chain, pred)
                fault == LinkFault(next, current, rules)
            IN  IF pred = Absent THEN "not_ancestor"
                ELSE IF pred \in at[2] \cup {at[1]} THEN "invalid"
                ELSE IF ~Known(chain, pred) THEN "unprovable"
                ELSE IF fault # "none" THEN fault
                ELSE IF pred = earlier THEN "proven"
                ELSE walk[<<pred, at[2] \cup {at[1]}>>]
    IN  walk

ProveAncestry(earlier, later, chain, rules) ==
    IF IndexConflict(chain) THEN "invalid"
    ELSE IF earlier = later THEN "proven"
    ELSE IF ~Known(chain, later) THEN "unprovable"
    ELSE Walk(earlier, chain, rules)[<<later, {}>>]
-----------------------------------------------------------------------------
(* The relation of two views.                                              *)

ViewMalformed(cp) ==
    \/ \E f \in {"producer", "scope", "epoch", "root"} :
          Content[cp.body][f] = Absent
    \/ Content[cp.body].epoch \notin Nat

\* One of the four relations, or the reason the comparison is refused.
Compare(a, b, chain, rules) ==
    LET x == Content[a.body]
        y == Content[b.body]
        earlier == IF x.epoch < y.epoch THEN a.body ELSE b.body
        later == IF x.epoch < y.epoch THEN b.body ELSE a.body
        verdict == ProveAncestry(earlier, later, chain, rules)
    IN  IF ViewMalformed(a) \/ ViewMalformed(b) THEN "SCHEMA_UNSUPPORTED"
        ELSE IF x.producer # y.producer \/ x.scope # y.scope
             THEN "COMPARISON_SET_INSUFFICIENT"
        ELSE IF a.body = b.body THEN "same_checkpoint"
        ELSE IF x.epoch = y.epoch THEN "incompatible"
        ELSE CASE verdict = "proven" -> "compatible"
               [] verdict = "not_ancestor" -> "incompatible"
               [] verdict = "invalid" -> "ANCESTRY_PROOF_INVALID"
               [] OTHER -> "indeterminate"

Relations == {"same_checkpoint", "incompatible", "compatible", "indeterminate"}
-----------------------------------------------------------------------------
(* What ancestry means, said without a walk.                               *)

\* A committed link the rules allow.
LawfulLinks(chain, rules) ==
    {<<p[1].body, p[2].body>> : p \in
        {q \in chain \X chain :
            /\ q[1].predecessor = q[2].body
            /\ LinkFault(q[2], q[1], rules) = "none"}}

\* A body reaches another over such links: the other is in every set that has
\* the one and is closed under them.
Descends(later, earlier, chain, rules) ==
    \A reached \in SUBSET Bodies :
        /\ later \in reached
        /\ \A l \in LawfulLinks(chain, rules) : l[1] \in reached => l[2] \in reached
        => earlier \in reached
=============================================================================
