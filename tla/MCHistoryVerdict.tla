-------------------------- MODULE MCHistoryVerdict --------------------------
(***************************************************************************)
(* Two forks and two advances of one producer, with three witnesses (two   *)
(* are asked for) and two receivers.                                       *)
(***************************************************************************)
EXTENDS HistoryVerdict

CONSTANTS earliest, fork, middle, last

MCBodies == {earliest, fork, middle, last}

Holding(epoch, root) ==
    [producer |-> "p", scope |-> "s", epoch |-> epoch, root |-> root,
     policy |-> "wp", protocol |-> "v1", c1 |-> "c"]
MCContent ==
    (earliest :> Holding(1, "r1")) @@ (fork :> Holding(1, "rf")) @@
    (middle :> Holding(2, "r2")) @@ (last :> Holding(3, "r3"))

Signed(body) == [body |-> body, key |-> "kp", bytes |-> 1]
Forged(body) == [body |-> body, key |-> "kx", bytes |-> 1]

WitnessPolicy ==
    [roster |-> <<[id |-> "w1", key |-> "k1", class |-> "unresolved"],
                  [id |-> "w2", key |-> "k2", class |-> "unresolved"],
                  [id |-> "w3", key |-> "k3", class |-> "unresolved"],
                  [id |-> "p", key |-> "kp", class |-> "unresolved"]>>,
     threshold |-> 2, mix |-> "unresolved" :> 1,
     digest |-> "wp", producerKey |-> "kp"]

ComparisonPolicy ==
    [digest |-> "cp",
     roster |-> <<[id |-> "r1", key |-> "q1"], [id |-> "r2", key |-> "q2"]>>]

Statement(cp, id, key) ==
    [id |-> id, key |-> key, verified |-> TRUE, scope |-> "s",
     epoch |-> Content[cp.body].epoch, envelope |-> cp]

\* An honest witness twice over, the producer, a witness under another's key, a
\* replay of another epoch, and a statement of another checkpoint.
MCStatements(cp) ==
    {Statement(cp, "w1", "k1"), Statement(cp, "w2", "k2"),
     Statement(cp, "p", "kp"), Statement(cp, "w1", "k3"),
     [Statement(cp, "w2", "k2") EXCEPT !.epoch = 9],
     [Statement(cp, "w2", "k2") EXCEPT !.envelope = Forged(cp.body)]}

Receipt(cp, id, key) ==
    [id |-> id, key |-> key, verified |-> TRUE, policy |-> "cp", envelope |-> cp]
MCReceipts(cp) == {Receipt(cp, "r1", "q1"), Receipt(cp, "r2", "q2")}
MCAbsences ==
    {[id |-> "r2", key |-> "q2", verified |-> TRUE, policy |-> "cp",
      wellFormed |-> TRUE]}

View(cp, statements, carried) ==
    [cp |-> cp, statements |-> statements, carried |-> carried,
     claimsQuorum |-> FALSE]

Over(x, y) ==
    [views |-> <<View(x, <<>>, <<>>), View(y, <<>>, <<>>)>>,
     absences |-> <<>>, policy |-> WitnessPolicy,
     comparison |-> ComparisonPolicy, manifest |-> {x, y}, chain |-> {},
     rules |-> [gaps |-> FALSE, transitions |-> {}],
     left |-> 0, late |-> {}, protocol |-> "v1", roots |-> {"c"}, key |-> "kp",
     keyDigest |-> "kp", structural |-> {}]

\* A view that was witnessed and carried, so that what is left is the chain.
Carried(cp, id, key) ==
    View(cp, <<Statement(cp, "w1", "k1")>>, <<Receipt(cp, id, key)>>)

Record(body, epoch, predecessor, policy) ==
    [body |-> body, epoch |-> epoch, predecessor |-> predecessor,
     policy |-> policy, protocol |-> "v1", place |-> 1, wellFormed |-> TRUE]

\* The chain of an advance, ways it could not be lawful, a second record of the
\* middle, one of the earliest that is not of its body's epoch, one that is given
\* twice, one without an epoch, and one of the fork.
MCLateRecords ==
    {Record(last, 3, middle, "wp"), Record(middle, 2, earliest, "wp"),
     Record(earliest, 1, Absent, "wp"), Record(middle, 2, Absent, "wp"),
     Record(middle, 3, earliest, "wp"), Record(earliest, 1, last, "wp"),
     Record(earliest, 4, last, "wp"),
     Record(earliest, 1, Absent, "old"),
     [Record(middle, 2, Absent, "wp") EXCEPT !.place = 2],
     [Record(earliest, 1, Absent, "wp") EXCEPT !.wellFormed = FALSE],
     Record(fork, 1, Absent, "wp")}

\* An artifact with more than two statements of a view.
MCTooLarge(artifact) ==
    \E v \in {1, 2} : Len(artifact.views[v].statements) > 2

\* Forks that are still being witnessed and carried.
Open(x, y, left) == [Over(x, y) EXCEPT !.left = left]

OnlyChain(x, y) ==
    [Over(x, y) EXCEPT
        !.views = <<Carried(x, "r1", "q1"), Carried(y, "r2", "q2")>>,
        !.late = MCLateRecords]

Fork(x, y) == [OnlyChain(x, y) EXCEPT !.left = 2, !.late = {}]

MCBundles ==
    {Open(Signed(earliest), Signed(fork), 4),
     OnlyChain(Signed(earliest), Signed(last)),
     OnlyChain(Signed(last), Signed(middle)),
     [Fork(Signed(earliest), Signed(fork)) EXCEPT !.views[1].claimsQuorum = TRUE],
     Fork(Signed(earliest), Forged(fork)),
     [Fork(Signed(earliest), Signed(fork)) EXCEPT !.manifest = NoManifest],
     [Fork(Signed(earliest), Signed(fork))
         EXCEPT !.structural = {"CANONICALISATION_UNKNOWN"}]}
=============================================================================
