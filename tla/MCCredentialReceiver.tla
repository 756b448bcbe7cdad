----------------------- MODULE MCCredentialReceiver -----------------------
(* Two bodies of one action key, and two credentials, the second a rotation *)
(* or a grant of the other scope, over two connections.                     *)
EXTENDS CredentialReceiver, TLC

MCActions == {[key |-> "k", scope |-> "x", body |-> "report"],
              [key |-> "k", scope |-> "y", body |-> "altered"]}
Symmetry == Permutations(Credentials) \cup Permutations(Clients)
==========================================================================
