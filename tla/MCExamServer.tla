---------------------------- MODULE MCExamServer ----------------------------
(***************************************************************************)
(* Instances of ExamServer: a few requests per route, chosen so that each  *)
(* check of a handler fails for one of them and passes for another.        *)
(***************************************************************************)
EXTENDS ExamServer, TLC

CONSTANTS s1, s2, alice, bob, d1, d2, c1, c2, exam1, none

Calm == [typed |-> 100, wpm |-> 60, blurs |-> 0, offMs |-> 0, paste |-> 0, idleMs |-> 0]

Pasted == [Calm EXCEPT !.typed = 0, !.paste = 300]

Plain(window) ==
  [window |-> window, limited |-> FALSE, replayed |-> FALSE, wantsDaemon |-> FALSE,
   proof |-> none]

Proof(s, c, excluded) ==
  [wellFormed |-> TRUE, session |-> s, exam |-> exam1, node |-> d1, signer |-> d1,
   challenge |-> c, ts |-> 0, excluded |-> excluded, restricted |-> 0, monitor |-> 0,
   above |-> 0, scanner |-> "ok", coverage |-> "none", platform |-> "macos",
   display |-> "none"]

Uses(theirs, sent) == [routes |-> theirs, bodies |-> sent]

Silent == Uses({}, {})

Proofs == {[Plain(Calm) EXCEPT !.proof = Proof(s1, c, x)] : c \in Challenges, x \in {0, 1}}

(* A joined student beside an anonymous client; a student whose exam wants *)
(* a device; a student who pairs an integrity node.                        *)
MCMixes ==
  {(s1 :> Uses({"exam", "telemetry"}, {Plain(Calm), Plain(Pasted)}))
     @@ (s2 :> Uses({"telemetry"}, {Plain(Calm), [Plain(Pasted) EXCEPT !.replayed = TRUE]})),
   (s1 :> Uses({"exam", "telemetry", "device"},
               {[Plain(Calm) EXCEPT !.wantsDaemon = TRUE]} \cup Proofs)) @@ (s2 :> Silent),
   (s1 :> Uses({"exam", "integrity"}, {})) @@ (s2 :> Silent),
   (s1 :> Uses({"exam", "report"}, {})) @@ (s2 :> Uses({"telemetry"}, {Plain(Calm)}))}

Pairing(n, c) ==
  [wellFormed |-> TRUE, session |-> s1, exam |-> exam1, node |-> n, signer |-> n,
   challenge |-> c, ts |-> 1, platform |-> "macos"]

MCPairings == {Pairing(n, c) : n \in Nodes, c \in Challenges}

MCNodeProofs ==
  {[wellFormed |-> TRUE, session |-> s1, node |-> n, signer |-> n, nonce |-> n, ts |-> 1] :
     n \in Nodes}

MCSymmetry == Permutations(Challenges)
=============================================================================
