------------------------- MODULE MCCredentialGateway -------------------------
EXTENDS CredentialGateway, TLC

CONSTANTS c1, c2, g1, g2

ActionA == [key |-> "ka", scope |-> "x", body |-> "report"]
ActionB == [key |-> "kb", scope |-> "x", body |-> "report"]

\* Two routes of one task share a credential and its session, as the composed
\* pipeline sets them up; each route approves its own action.
OneLogin == <<c1>>
TwoActions == {ActionA, ActionB}
TwoApproved == (g1 :> ActionA) @@ (g2 :> ActionB)
TwoBound == (g1 :> 1) @@ (g2 :> 1)

=============================================================================
